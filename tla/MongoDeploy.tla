------------------------------ MODULE MongoDeploy ------------------------------
(***************************************************************************)
(* "dbup mongodb deploy" and "remove-deploy" of a replica set, and the     *)
(* same of a sharded cluster.  A cluster is built group by group: each     *)
(* shard, then the config servers, then the mongos routers, and it is      *)
(* taken apart in the order mongos, config servers, shards.  Each group    *)
(* goes through the pipeline on connections of its own; a group that       *)
(* fails ends the run and leaves the groups before it running.  A plain    *)
(* replica set goes through the very steps of the config servers.          *)
(***************************************************************************)
EXTENDS DeployPipeline, Sequences

CONSTANTS
  Shards,     \* number of shards
  Clusters    \* what a configuration file may ask for: the slots of each group

ConfigGroup == Shards + 1
MongosGroup == Shards + 2
Group == 1..MongosGroup

ASSUME ShardsAssumption == Shards \in Nat /\ Shards >= 1
ASSUME ClustersAssumption ==
  \A c \in Clusters : DOMAIN c = Group /\ \A g \in Group : c[g] \in Layouts

VARIABLES
  plan,        \* the groups of this run, in order
  stage,       \* the one it is at
  cluster,     \* the slots of each group in this run's configuration
  named,       \* FALSE: the temporary directory has the empty name
  asked,       \* how many shards mongos has been asked to add
  added,       \* the shards for which mongos answered that it had added them
  registered   \* the shards the config servers know of

groupVars == <<plan, stage, cluster, named>>
shardVars == <<asked, added, registered>>
mongoVars == <<groupVars, shardVars>>
vars == <<pipeVars, mongoVars>>

DeployPlan  == [k \in 1..MongosGroup |-> k]
RemovalPlan == <<MongosGroup, ConfigGroup>> \o [k \in 1..Shards |-> k]
ReplicaSetPlan == <<ConfigGroup>>

group == plan[stage]
IsShard == group \in 1..Shards

-------------------------------------------------------------------------------
Start(m, nr, p, nm) ==
  /\ \E c \in Clusters : cluster' = c /\ BeginAt(m, nr, c[p[1]])
  /\ plan' = p /\ stage' = 1 /\ named' = nm
  /\ asked' = 0 /\ added' = {} /\ registered' = {}

(* MongoDBClusterDeploy.Run: d.option is never loaded, its NoRollback is FALSE. *)
Run == Start("deploy", FALSE, DeployPlan, TRUE)

(* RemoveCluster gives the defaults to d.option instead of d.coption, so a   *)
(* file that does not name the temporary directory leaves it empty.          *)
RemoveCluster == \E nm \in BOOLEAN : Start("remove", FALSE, RemovalPlan, nm)

(* MongoDBDeploy.Run and RemoveCluster *)
RunReplicaSet == \E nr \in BOOLEAN : Start("deploy", nr, ReplicaSetPlan, TRUE)
RemoveReplicaSet == Start("remove", FALSE, ReplicaSetPlan, TRUE)

(* The functions come in three families: those of a plain replica set, those *)
(* of a shard or of the config servers, and those of the routers (MS...).    *)
Plain  == plan = ReplicaSetPlan
Router == group = MongosGroup
Member == ~Plain /\ ~Router
Config == Member /\ ~IsShard

(* An error before anything was done on a machine. *)
NotConnected == /\ phase = "connect" /\ Return("err")
                /\ UNCHANGED <<mode, keep, at, lost, hostVars, histVars>>

InitReplicaSet == Plain /\ Connect
Sinit  == IsShard /\ Connect
Cinit  == Config /\ Connect
MSinit == Router /\ Connect

(* Logging in with a key file: these take user and key from d.option, which  *)
(* was never loaded, MSinitUseKeyFile takes the empty password for the key.  *)
SinitUseKeyFile  == IsShard /\ NotConnected
CinitUseKeyFile  == Config /\ NotConnected
MSinitUseKeyFile == Router /\ NotConnected

(* With IPv6 every machine must know the names of the others. *)
CheckClusterHosts == plan = DeployPlan /\ stage = 1 /\ cursor = 1 /\ NotConnected
CheckHost == /\ Plain /\ mode = "deploy" /\ phase = "checktmp" /\ cursor = 1
             /\ Return("err")
             /\ UNCHANGED <<mode, keep, at, lost, hostVars, histVars>>

(* Nothing has the empty name. *)
CheckGroupTmpDir(onError) ==
  \/ named /\ CheckTmpDirElse(onError)
  \/ /\ ~named /\ phase = "checktmp"
     /\ NextNode("scp")
     /\ UNCHANGED <<result, mode, keep, at, lost, hostVars, histVars>>
(* Under the empty name the files go to the home directory. *)
ScpGroup(onError) ==
  \/ named /\ ScpElse(onError)
  \/ /\ ~named /\ phase = "scp"
     /\ \/ ~NoSftp(cursor) /\ NextNode("uninstall") /\ UNCHANGED result
        \/ result' = "err" /\ Goto(onError)
     /\ UNCHANGED <<mode, keep, at, lost, hostVars, histVars>>

(* MongoShardInit calls DropTmpDir itself when CheckTmpDir fails, and does   *)
(* not when Scp fails.                                                       *)
CheckShardTmpDir  == IsShard /\ CheckGroupTmpDir(IF mode = "deploy" THEN "drop" ELSE "done")
CheckConfigTmpDir == Config /\ CheckGroupTmpDir("done")
CheckPlainTmpDir  == Plain /\ CheckTmpDir
MSCheckTmpDir     == Router /\ CheckGroupTmpDir("done")

ScpShard  == IsShard /\ ScpGroup("done")
ScpConfig == Config /\ ScpGroup("drop")
ScpPlain  == Plain /\ Scp
MScp      == Router /\ ScpGroup("drop")

CheckMembersEnv == Member /\ CheckEnv
CheckPlainEnv   == Plain /\ CheckEnv
MSCheckEnv      == Router /\ CheckEnv

InstallMembers == Member /\ Install
InstallPlain   == Plain /\ Install
MSInstall      == Router /\ Install

(* CheckReplicaSetStatus, every three seconds, twenty times; then Info asks  *)
(* once more.                                                                *)
AwaitReplicaSet ==
  /\ phase = "post"
  /\ \/ /\ \A n \in Node : inst[at[n]] = "up"
        /\ Goto("drop") /\ UNCHANGED result
     \/ FailInstallation
  /\ UNCHANGED <<mode, keep, at, lost, hostVars, histVars, mongoVars>>
CheckReplicaSetStatus == Member /\ AwaitReplicaSet
CheckPlainStatus      == Plain /\ AwaitReplicaSet

(* MSInstallandInit, one shard: addShard until mongos answers "ok", at most  *)
(* twenty times; an answer may be lost after the shard was added.            *)
MongosInitShard ==
  /\ phase = "post" /\ Router /\ asked < Shards
  /\ LET shard == asked + 1
     IN  \/ /\ \E n \in Node : inst[cluster[shard][n]] = "up"
            /\ registered' = registered \cup {shard}
            /\ added' \in {added, added \cup {shard}}
         \/ UNCHANGED <<registered, added>>
  /\ asked' = asked + 1
  /\ UNCHANGED <<pipeVars, groupVars>>

(* Mutant: what mongos answered is not looked at. *)
MSInstallandInitUnchecked ==
  /\ phase = "post" /\ Router /\ asked = Shards
  /\ Goto("drop") /\ UNCHANGED result
  /\ UNCHANGED <<mode, keep, at, lost, hostVars, histVars, mongoVars>>

(* MSInstallandInit, the end: one shard added is enough. *)
MSInstallandInit ==
  /\ phase = "post" /\ Router /\ asked = Shards
  /\ \/ added # {} /\ Goto("drop") /\ UNCHANGED result
     \/ added = {} /\ FailInstallation
  /\ UNCHANGED <<mode, keep, at, lost, hostVars, histVars, mongoVars>>

(* Mutant: a failed rollback of a group goes round again. *)
UNInstallGroupAgain(onDone) ==
  UNInstallThen(IF blemish THEN "uninstall" ELSE onDone, Router)

(* MSUNInstall stops at the first error, UNInstall does not. *)
UNInstallGroup(onDone) == UNInstallThen(onDone, Router)

(* MongoShardInit returns after it without DropTmpDir. *)
UNInstallShard  == IsShard /\ UNInstallGroup(IF mode = "deploy" THEN "done" ELSE "drop")
UNInstallConfig == Config /\ UNInstallGroup("drop")
UNInstallPlain  == Plain /\ UNInstallGroup("drop")
MSUNInstall     == Router /\ UNInstallGroup("drop")

(* "cd ; rm -rf *" *)
EmptyHome ==
  /\ phase = "drop"
  /\ \/ /\ ~NoShell(cursor)
        /\ home' = [home EXCEPT ![HostAt(cursor)] = "wiped"]
        /\ UNCHANGED blemish
     \/ Mark(TRUE) /\ UNCHANGED home
  /\ UNCHANGED <<mode, keep, inst, tmp, before, others, runs>>

(* Mutant: the next group goes on with the connections of this one. *)
DropThenStay ==
  /\ IF named THEN EmptyTmpDir ELSE EmptyHome
  /\ \/ /\ cursor < N
        /\ cursor' = cursor + 1 /\ UNCHANGED <<phase, result, at, lost, stage>>
     \/ /\ cursor = N /\ result = "none" /\ stage < Len(plan)
        /\ stage' = stage + 1 /\ Goto("checktmp")
        /\ UNCHANGED <<result, at, lost>>
     \/ /\ cursor = N /\ (result # "none" \/ stage = Len(plan))
        /\ Return(IF result = "none" THEN "ok" ELSE result)
        /\ UNCHANGED <<at, lost, stage>>
  /\ UNCHANGED <<plan, cluster, named, shardVars>>

(* DropTmpDir, then the next group of the plan or the end of the run. *)
DropGroupTmpDir ==
  /\ IF named THEN EmptyTmpDir ELSE EmptyHome
  /\ \/ /\ cursor < N
        /\ cursor' = cursor + 1 /\ UNCHANGED <<phase, result, at, lost, stage>>
     \/ /\ cursor = N /\ result = "none" /\ stage < Len(plan)
        /\ stage' = stage + 1 /\ at' = cluster[plan[stage + 1]]
        /\ Goto("connect") /\ lost' = {} /\ UNCHANGED result
     \/ /\ cursor = N /\ (result # "none" \/ stage = Len(plan))
        /\ Return(IF result = "none" THEN "ok" ELSE result)
        /\ UNCHANGED <<at, lost, stage>>
  /\ UNCHANGED <<plan, cluster, named, shardVars>>

DropMembersTmpDir == Member /\ DropGroupTmpDir
DropPlainTmpDir   == Plain /\ DropGroupTmpDir
MSDropTmpDir      == Router /\ DropGroupTmpDir

ReplicaSetProgram ==
  \/ (InitReplicaSet \/ CheckHost \/ CheckPlainTmpDir \/ ScpPlain \/ CheckPlainEnv
       \/ InstallPlain \/ UNInstallPlain) /\ UNCHANGED mongoVars
  \/ CheckPlainStatus \/ DropPlainTmpDir
MemberProgram ==
  \/ (CheckClusterHosts \/ Sinit \/ SinitUseKeyFile \/ Cinit \/ CinitUseKeyFile
       \/ CheckShardTmpDir \/ CheckConfigTmpDir \/ ScpShard \/ ScpConfig \/ CheckMembersEnv
       \/ InstallMembers \/ UNInstallShard \/ UNInstallConfig) /\ UNCHANGED mongoVars
  \/ CheckReplicaSetStatus \/ DropMembersTmpDir
RouterProgram ==
  \/ (MSinit \/ MSinitUseKeyFile \/ MSCheckTmpDir \/ MScp \/ MSCheckEnv \/ MSInstall
       \/ MSUNInstall) /\ UNCHANGED mongoVars
  \/ MongosInitShard \/ MSInstallandInit \/ MSDropTmpDir

Program == ReplicaSetProgram \/ MemberProgram \/ RouterProgram

Environment ==
  (Interrupt \/ LoseConnection \/ OtherInstalls \/ OtherFills) /\ UNCHANGED mongoVars

Init ==
  /\ PipelineInit
  /\ plan = ReplicaSetPlan /\ stage = 1 /\ named = TRUE
  /\ cluster \in Clusters /\ at = cluster[ConfigGroup]
  /\ asked = 0 /\ added = {} /\ registered = {}

Next ==
  \/ Run \/ RemoveCluster \/ RunReplicaSet \/ RemoveReplicaSet
  \/ Program \/ Environment

Spec == Init /\ [][Next]_vars

(* Every remote command and every poll returns in the end. *)
FairSpec == Spec /\ WF_vars(Program)

-------------------------------------------------------------------------------
TypeOK ==
  /\ PipelineTypeOK
  /\ plan \in {DeployPlan, RemovalPlan, ReplicaSetPlan} /\ stage \in 1..Len(plan)
  /\ cluster \in Clusters /\ at = cluster[group] /\ named \in BOOLEAN
  /\ asked \in 0..Shards /\ added \subseteq registered /\ registered \subseteq 1..Shards

Members(g) == {cluster[g][n] : n \in Node}
Completed == {plan[k] : k \in 1..(stage - 1)}

(* A deployment that reports success has an instance of its own in every     *)
(* slot of every group, however the file repeats machines and ports, and a   *)
(* cluster's routers lead to at least one shard.                             *)
SuccessMeansCluster ==
  phase = "done" /\ mode = "deploy" /\ result = "ok" =>
    /\ \A i \in 1..Len(plan), n \in Node : inst[cluster[plan[i]][n]] = "up"
    /\ \A i, j \in 1..Len(plan), m, n \in Node :
         cluster[plan[i]][m] = cluster[plan[j]][n] => i = j /\ m = n
    /\ plan = DeployPlan => registered # {}

(* The rollback of a group, which removes every slot of that group, reaches  *)
(* into no group that is already complete, even where the file gives both    *)
(* the same slot: CheckEnv finds that slot taken, and a failed CheckEnv is   *)
(* not rolled back.                                                          *)
CompletedGroupsKept ==
  mode = "deploy" => \A g \in Completed, n \in Node : inst[cluster[g][n]] = "up"

(* After a failed deployment whose clean-up commands all worked, the         *)
(* completed groups are all that is new on the machines.                     *)
FailureLeavesCompletedOnly ==
  phase = "done" /\ mode = "deploy" /\ result = "err" /\ ~keep /\ ~blemish /\ others = 0 =>
    \A s \in Slot : inst[s] # before.inst[s] => \E g \in Completed : s \in Members(g)

(* An instance that was there before a deployment is neither replaced nor    *)
(* rolled back by any of its groups.                                         *)
PriorInstancesKept ==
  mode = "deploy" =>
    \A s \in Slot : before.inst[s] # "free" => inst[s] = before.inst[s]

(* A removal that reports success, each clean-up command having worked, has  *)
(* emptied the slots of all groups.                                          *)
RemovalReachesAllGroups ==
  phase = "done" /\ mode = "remove" /\ result = "ok" /\ ~blemish /\ others = 0 =>
    \A i \in 1..Len(plan), n \in Node : inst[cluster[plan[i]][n]] \in {"free", "orphan"}

(* A run that succeeds, its temporary directory having a name, deletes       *)
(* nothing in any home directory: each group's DropTmpDir runs where that    *)
(* group's Scp has been.                                                     *)
SuccessSparesHomes ==
  phase = "done" /\ result = "ok" /\ named => home = before.home

(* Every run ends, whatever the groups and the retries of addShard do. *)
RunEnds == phase # "done" ~> phase = "done"

(* MongoInfo prints, after a successful deployment, that all nodes of the    *)
(* sharded cluster were set up: every shard is part of the cluster.          *)
AllShardsJoined ==
  phase = "done" /\ plan = DeployPlan /\ result = "ok" => registered = 1..Shards

(* DropTmpDir logs that it deletes the temporary directory of the target     *)
(* machines: a removal in which nothing fails deletes nothing else.          *)
RemovalSparesHomes ==
  phase = "done" /\ mode = "remove" /\ result = "ok" => home = before.home
===============================================================================
