----------------------------- MODULE RedisCluster -----------------------------
(***************************************************************************)
(* "dbup redis-cluster": deploy and remove-deploy of a whole cluster, then *)
(* add-master, add-slave and fix on the cluster that is there.  The        *)
(* deployment is the pipeline with one step of its own, CreateCluster.     *)
(* add-node runs the same pipeline for one node, so it is an instance of   *)
(* it with control variables of its own, and shares the machines.  The     *)
(* cluster itself is what its members list (view) and which place holds    *)
(* each part of the data (owner); redis-cli and the members change it.     *)
(***************************************************************************)
EXTENDS DeployPipeline

CONSTANTS
  Masters,     \* nodes 1..Masters are the configuration's masters
  HashSlot,    \* the parts of the data a cluster divides among its masters
  Nobody       \* the owner of a hash slot that no instance holds

VARIABLES
  view,        \* the members each running instance lists, itself included
  owner,       \* the place that holds each hash slot
  mphase,      \* where AddNode or RedisClusterFix is; "done": neither runs
  newcomer,    \* the place AddNode works in
  role,        \* "master" or "slave"
  noRollback,  \* the flag --no-rollback of add-master and add-slave
  mresult,     \* what AddNode or RedisClusterFix will return
  mlost,       \* the channels of AddNode's connection that have broken
  mblemish,    \* history: a clean-up command of AddNode did not do its work
  todo,        \* the members RedisClusterFix has still to visit
  listed,      \* history: the members it set out to visit
  dead,        \* history: the places that were down when the fix began
  banned,      \* whom each member forgot in this fix, less than a minute ago
  excused      \* history: whom of the dead each member did not have to forget

clusterVars == <<view, owner>>
fixVars == <<todo, listed, dead, banned, excused>>
managerVars == <<mphase, newcomer, role, noRollback, mresult, mlost, mblemish, fixVars>>
vars == <<pipeVars, clusterVars, managerVars>>

ASSUME MastersAssumption == Masters \in 1..N
ASSUME HashSlotAssumption == IsFiniteSet(HashSlot) /\ Nobody \notin Slot

(* AddNode's pipeline: one node, always rolled back (keep is FALSE; TLC takes   *)
(* no literal FALSE under UNCHANGED).                                         *)
M == INSTANCE DeployPipeline WITH
  N <- 1, phase <- mphase, cursor <- 1, mode <- "deploy", keep <- ~TRUE,
  at <- <<newcomer>>, result <- mresult, lost <- mlost, blemish <- mblemish,
  Layouts <- {<<s>> : s \in Slot}

Up(s) == inst[s] = "up"
Members == {s \in Slot : Up(s) /\ view[s] # {}}
Covered == \A h \in HashSlot : owner[h] # Nobody

(* An instance that is gone lists nobody and holds nothing; the others go on *)
(* listing it.                                                               *)
KeepCluster ==
  /\ view' = [s \in Slot |-> IF inst'[s] = "up" THEN view[s] ELSE {}]
  /\ owner' = [h \in HashSlot |->
                 IF owner[h] # Nobody /\ inst'[owner[h]] = "up" THEN owner[h] ELSE Nobody]

-------------------------------------------------------------------------------
(* RedisClusterDeploy *)

(* Run reads no-rollback from the file.  The roles have no part in a removal. *)
Run ==
  /\ mphase = "done"
  /\ \E nr \in BOOLEAN : Begin("deploy", nr)
  /\ KeepCluster /\ UNCHANGED managerVars

RemoveCluster ==
  /\ mphase = "done"
  /\ Begin("remove", FALSE)
  /\ KeepCluster /\ UNCHANGED managerVars

(* Mutant: the answer of redis-cli is not looked at. *)
CreateClusterUnchecked ==
  /\ phase = "post"
  /\ \E met \in SUBSET {at[n] : n \in Node} :
       view' = [s \in Slot |-> IF s \in met /\ Up(s) THEN met ELSE view[s]]
  /\ \E given \in SUBSET HashSlot :
       owner' = [h \in HashSlot |-> IF h \in given THEN at[1] ELSE owner[h]]
  /\ Goto("drop") /\ UNCHANGED result
  /\ UNCHANGED <<mode, keep, at, lost, hostVars, histVars, managerVars>>

(* redis-cli --cluster create, run on the first master: every node is asked, *)
(* the hash slots go to the masters, the nodes meet.  An error may come      *)
(* after some of the hash slots were assigned and some of the nodes met.     *)
CreateCluster ==
  /\ phase = "post"
  /\ LET all == {at[n] : n \in Node}
         masters == {at[n] : n \in 1..Masters}
     IN  \/ /\ \A s \in all : Up(s) /\ view[s] = {}
            /\ owner' \in [HashSlot -> masters]
            /\ view' = [s \in Slot |-> IF s \in all THEN all ELSE view[s]]
            /\ Goto("drop") /\ UNCHANGED result
         \/ /\ \E met \in SUBSET all, given \in SUBSET HashSlot :
                 /\ view' = [s \in Slot |-> IF s \in met /\ Up(s) THEN met ELSE view[s]]
                 /\ owner' = [h \in HashSlot |->
                                IF h \in given /\ Up(at[1]) THEN at[1] ELSE owner[h]]
            /\ FailInstallation
  /\ UNCHANGED <<mode, keep, at, lost, hostVars, histVars, managerVars>>

Deployment ==
  \/ /\ Connect \/ CheckTmpDir \/ Scp \/ CheckEnv \/ Install \/ UNInstall \/ DropTmpDir
     /\ KeepCluster /\ UNCHANGED managerVars
  \/ CreateCluster

-------------------------------------------------------------------------------
(* RedisClusterManager.AddNode *)

(* The cluster is asked first; without an answer nothing is done. *)
AddNode ==
  /\ phase = "done" /\ mphase = "done" /\ runs < MaxRuns
  /\ runs' = runs + 1
  /\ \E s \in Slot, r \in {"master", "slave"}, nr \in BOOLEAN :
       newcomer' = s /\ role' = r /\ noRollback' = nr
  /\ \/ Members # {} /\ mphase' = "connect" /\ mresult' = "none"
     \/ mphase' = "done" /\ mresult' = "err"
  /\ mlost' = {} /\ mblemish' = FALSE
  /\ before' = [tmp |-> tmp, home |-> home, inst |-> inst]
  /\ UNCHANGED <<runVars, lost, hostVars, blemish, others, clusterVars, fixVars>>

(* ClusterAddNode: redis-cli --cluster add-node, run on the new node, meets  *)
(* the members; an error may come before or after that.                      *)
Join(ok) ==
  \E e \in Members \ {newcomer} :
    /\ ok => Up(newcomer) /\ view[newcomer] = {}
    /\ view' = [s \in Slot |->
         IF Up(s) /\ s \in view[e] \cup {newcomer} THEN view[e] \cup {newcomer} ELSE view[s]]

(* Mutant: the new master is left without hash slots. *)
ClusterAddNodeOnly ==
  /\ mphase = "post"
  /\ \/ ~M!NoShell(1) /\ Join(TRUE) /\ mphase' = "drop" /\ UNCHANGED mresult
     \/ (Join(FALSE) \/ UNCHANGED view) /\ M!FailInstallation
  /\ UNCHANGED <<pipeVars, owner, newcomer, role, noRollback, mlost, mblemish, fixVars>>

ClusterAddNode ==
  /\ mphase = "post"
  /\ \/ /\ ~M!NoShell(1) /\ Join(TRUE)
        /\ mphase' = IF role = "master" THEN "verify" ELSE "drop"
        /\ UNCHANGED mresult
     \/ /\ Join(FALSE) \/ UNCHANGED view
        /\ M!FailInstallation
  /\ UNCHANGED <<pipeVars, owner, newcomer, role, noRollback, mlost, mblemish, fixVars>>

(* ClusterReBalance: redis-cli --cluster rebalance moves hash slots to the   *)
(* new, empty master one after the other and stops at the first error.       *)
ClusterReBalance ==
  /\ mphase = "verify"
  /\ \E moved \in SUBSET HashSlot :
       /\ moved # {} => Up(newcomer) /\ Covered
       /\ owner' = [h \in HashSlot |-> IF h \in moved THEN newcomer ELSE owner[h]]
       /\ \/ moved # {} /\ ~M!NoShell(1) /\ mphase' = "drop" /\ UNCHANGED mresult
          \/ M!FailInstallation
  /\ UNCHANGED <<pipeVars, view, newcomer, role, noRollback, mlost, mblemish, fixVars>>

AddingNode ==
  \/ /\ UNCHANGED <<runVars, lost, blemish, newcomer, role, noRollback, fixVars>>
     /\ \/ M!Connect \/ M!CheckTmpDir \/ M!Scp \/ M!CheckEnv
        \/ M!Install \/ M!UNInstall \/ M!DropTmpDir
     /\ KeepCluster
  \/ ClusterAddNode
  \/ ClusterReBalance

AddNodeLosesConnection ==
  /\ mphase \notin {"done", "connect", "fix", "forget"}
  /\ \E c \in {Channel, {"sftp"}, {"ssh"}} :
       mlost \cap ({1} \X c) = {} /\ mlost' = mlost \cup ({1} \X c)
  /\ others < MaxOthers /\ others' = others + 1
  /\ UNCHANGED <<runVars, lost, hostVars, before, blemish, runs, clusterVars,
                 mphase, newcomer, role, noRollback, mresult, mblemish, fixVars>>

-------------------------------------------------------------------------------
(* RedisClusterManager.RedisClusterFix *)

fixSame == <<pipeVars, newcomer, role, noRollback, mlost, mblemish>>

NoOne == [s \in Slot |-> {}]

EndFix(r) ==
  /\ mphase' = "done" /\ mresult' = r
  /\ todo' = {} /\ listed' = {} /\ dead' = {} /\ banned' = NoOne /\ excused' = NoOne

(* redis-cli --cluster fix, pointed at member e, gives every hash slot that  *)
(* no member it reaches holds to one that it reaches, one after the other;   *)
(* then e is asked whom it lists, and those it shows connected and not       *)
(* failing (itself is one) are to be visited.  An error may come at any of   *)
(* this, with some of the hash slots given.                                  *)
RedisClusterFix ==
  /\ phase = "done" /\ mphase = "done" /\ runs < MaxRuns
  /\ \/ \E e \in Members :
          LET reached == {s \in view[e] : Up(s)}
          IN  \E given \in SUBSET {h \in HashSlot : owner[h] \notin reached},
                 f \in [HashSlot -> reached] :
                /\ owner' = [h \in HashSlot |-> IF h \in given THEN f[h] ELSE owner[h]]
                /\ \/ /\ given = {h \in HashSlot : owner[h] \notin reached}
                      /\ \E flagged \in SUBSET (view[e] \ {e}) : todo' = view[e] \ flagged
                      /\ mphase' = "forget" /\ mresult' = "none"
                      /\ listed' = todo' /\ dead' = {s \in Slot : ~Up(s)}
                      /\ banned' = NoOne /\ excused' = NoOne
                   \/ EndFix("err")
     \/ UNCHANGED owner /\ EndFix("err")
  /\ runs' = runs + 1
  /\ UNCHANGED <<runVars, lost, hostVars, before, blemish, others, view,
                 newcomer, role, noRollback, mlost, mblemish>>

(* Member s is asked for its own list, shows some as failing or disconnected *)
(* (they may be up, and need not be all that are down) and forgets them.     *)
Forgets(s) ==
  \E flagged \in SUBSET (view[s] \ {s}) :
    /\ view' = [view EXCEPT ![s] = @ \ flagged]
    /\ banned' = [banned EXCEPT ![s] = flagged]
    /\ excused' = [excused EXCEPT ![s] = dead \ flagged]

(* Mutant: only one member forgets. *)
ClusterForgetOnce ==
  /\ mphase = "forget"
  /\ \/ /\ \E s \in todo : Up(s) /\ Forgets(s)
        /\ todo' = {} /\ UNCHANGED <<mphase, mresult, listed, dead>>
     \/ todo = {} /\ EndFix("ok") /\ UNCHANGED view
  /\ UNCHANGED <<fixSame, owner>>

(* Each listed member in turn, the members to forget one by one; the first   *)
(* error (of the connection, the question or the order to forget) returns.   *)
ClusterForget ==
  /\ mphase = "forget"
  /\ \/ \E s \in todo :
          /\ Up(s) /\ Forgets(s)
          /\ todo' = todo \ {s} /\ UNCHANGED <<mphase, mresult, listed, dead>>
     \/ \E s \in todo, flagged \in SUBSET Slot :
          /\ flagged # {} => Up(s) /\ s \notin flagged
          /\ view' = [view EXCEPT ![s] = @ \ flagged]
          /\ EndFix("err")
     \/ todo = {} /\ EndFix("ok") /\ UNCHANGED view
  /\ UNCHANGED <<fixSame, owner>>

-------------------------------------------------------------------------------
(* The instances' own doings. *)

MemberDies ==
  /\ others < MaxOthers /\ others' = others + 1
  /\ \E s \in Members : inst' = [inst EXCEPT ![s] = "files"]
  /\ KeepCluster
  /\ UNCHANGED <<runVars, lost, tmp, home, before, blemish, runs, managerVars>>

(* Members tell each other of members, during a fix too; whom a member was   *)
(* made to forget it does not take back for a minute.  After the fix the     *)
(* bans, which only hold this step back, are no longer kept.                 *)
Gossip ==
  /\ \E s, e \in Members :
       /\ s \in view[e] /\ e \in view[s] /\ ~(view[e] \ banned[s] \subseteq view[s])
       /\ view' = [view EXCEPT ![s] = @ \cup (view[e] \ banned[s])]
  /\ UNCHANGED <<pipeVars, owner, managerVars>>

(* The minute of member s's ban on g is over before the fix is. *)
BanEnds ==
  /\ \E s \in Slot : \E g \in banned[s] :
       /\ banned' = [banned EXCEPT ![s] = @ \ {g}]
       /\ excused' = [excused EXCEPT ![s] = @ \cup {g}]
  /\ UNCHANGED <<fixSame, clusterVars, mphase, mresult, todo, listed, dead>>

Init ==
  /\ PipelineInit
  /\ view = [s \in Slot |-> {}]
  /\ owner = [h \in HashSlot |-> Nobody]
  /\ mphase = "done" /\ newcomer \in Slot /\ role = "master" /\ noRollback = FALSE
  /\ mresult = "none" /\ mlost = {} /\ mblemish = FALSE
  /\ todo = {} /\ listed = {} /\ dead = {} /\ banned = NoOne /\ excused = NoOne

Next ==
  \/ Run \/ RemoveCluster \/ Deployment
  \/ AddNode \/ AddingNode
  \/ RedisClusterFix \/ ClusterForget
  \/ AddNodeLosesConnection \/ MemberDies \/ Gossip \/ BanEnds

Spec == Init /\ [][Next]_vars
-------------------------------------------------------------------------------
TypeOK ==
  /\ PipelineTypeOK
  /\ view \in [Slot -> SUBSET Slot] /\ owner \in [HashSlot -> Slot \cup {Nobody}]
  /\ mphase \in {"done", "connect", "checktmp", "scp", "checkenv", "install", "post",
                 "verify", "uninstall", "drop", "forget"}
  /\ newcomer \in Slot /\ role \in {"master", "slave"} /\ noRollback \in BOOLEAN
  /\ mresult \in Result /\ mlost \subseteq {1} \X Channel /\ mblemish \in BOOLEAN
  /\ todo \subseteq Slot /\ listed \subseteq Slot /\ dead \subseteq Slot
  /\ banned \in [Slot -> SUBSET Slot] /\ excused \in [Slot -> SUBSET Slot]
  /\ \A s \in Slot : view[s] # {} => Up(s) /\ s \in view[s]
  /\ \A h \in HashSlot : owner[h] # Nobody => Up(owner[h])

(* A deployment that says the cluster is built has built it: every node      *)
(* lists every node and every hash slot is held by a running master.         *)
DeployedClusterServes ==
  [][phase # "done" /\ phase' = "done" /\ mode = "deploy" /\ result' = "ok" /\ others = 0 =>
       /\ \A n \in Node : view[at[n]] = {at[m] : m \in Node}
       /\ \A h \in HashSlot : \E n \in 1..Masters : owner[h] = at[n]]_vars

(* "added" is only said of a node that other members list; a new master      *)
(* holds hash slots by then, and no hash slot was lost on the way.           *)
AddedNodeServes ==
  [][mphase \notin {"done", "forget"} /\ mphase' = "done" /\ mresult' = "ok" /\ others = 0 =>
       /\ Up(newcomer)
       /\ \E e \in Members \ {newcomer} : newcomer \in view[e] /\ e \in view[newcomer]
       /\ role = "master" => Covered /\ \E h \in HashSlot : owner[h] = newcomer]_vars

(* Deploying over a running instance, or adding a node where one runs, is    *)
(* refused and never rolled back: the instances that ran when the command    *)
(* began go on running.                                                      *)
RunningInstancesSurvive ==
  mode = "deploy" /\ others = 0 => \A s \in Slot : before.inst[s] = "up" => Up(s)

(* A fix that succeeds while no further member dies has given every hash     *)
(* slot a running holder and has left no dead member in the list of any      *)
(* member it visited, whatever the others told it meanwhile.  The exceptions *)
(* are a dead member that this one did not show as failing or disconnected   *)
(* when it was asked, and one it forgot more than a minute before the end.   *)
FixKicksOut ==
  [][mphase = "forget" /\ mphase' = "done" /\ mresult' = "ok" /\ dead = {s \in Slot : ~Up(s)} =>
       Covered /\ \A s \in listed : view[s] \cap dead \subseteq excused[s]]_vars

(* The flag --no-rollback of add-master says that a failed installation is   *)
(* not rolled back: hash slots that were already moved to the new node stay  *)
(* where they are.                                                           *)
NoRollbackKeepsData ==
  [][noRollback /\ mphase # "done" /\ others = 0 =>
       \A h \in HashSlot : owner[h] = newcomer => owner'[h] = newcomer]_vars
===============================================================================
