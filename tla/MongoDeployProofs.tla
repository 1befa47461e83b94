--------------------------- MODULE MongoDeployProofs ---------------------------
(***************************************************************************)
(* Theorems about the deployment and removal of MongoDB replica sets and   *)
(* sharded clusters, for every number of nodes, shards and machines and    *)
(* whatever slots the groups of a cluster share.  The many functions of    *)
(* the three families come down to eleven kinds of steps; those that are   *)
(* steps of the pipeline keep its invariants by DeployPipelineProofs.      *)
(***************************************************************************)
EXTENDS MongoDeploy, DeployPipelineProofs, SequenceTheorems

USE DEF Phase, Result, runVars, hostVars, histVars

-------------------------------------------------------------------------------
(* The plans: what is at each place is a group, and the routers come last in *)
(* a deployment.                                                             *)
LEMMA PlansTyped ==
  ASSUME NEW p \in {DeployPlan, RemovalPlan, ReplicaSetPlan}
  PROVE  p \in Seq(Group) /\ Len(p) \in Nat /\ Len(p) >= 1
<1> USE ShardsAssumption DEF Group, MongosGroup, ConfigGroup
<1>1. CASE p = DeployPlan
  <2>1. DeployPlan \in Seq(Group) /\ Len(DeployPlan) = MongosGroup
    BY DEF DeployPlan
  <2> QED
    BY <1>1, <2>1
<1>2. CASE p = ReplicaSetPlan
  BY <1>2 DEF ReplicaSetPlan
<1>3. CASE p = RemovalPlan
  <2>1. <<MongosGroup, ConfigGroup>> \in Seq(Group) /\ [k \in 1..Shards |-> k] \in Seq(Group)
    OBVIOUS
  <2> QED
    BY <1>3, <2>1, ConcatProperties DEF RemovalPlan
<1> QED
  BY <1>1, <1>2, <1>3

LEMMA DeployPlanFacts ==
  /\ Len(DeployPlan) = MongosGroup
  /\ DeployPlan[MongosGroup] = MongosGroup
  /\ DeployPlan # ReplicaSetPlan
<1> USE ShardsAssumption DEF MongosGroup, ConfigGroup
<1>1. Len(DeployPlan) = MongosGroup /\ DeployPlan[MongosGroup] = MongosGroup
  BY DEF DeployPlan
<1>2. Len(ReplicaSetPlan) = 1
  BY DEF ReplicaSetPlan
<1> QED
  BY <1>1, <1>2

(* The slots of every group of the plan. *)
LEMMA GroupsTyped ==
  ASSUME TypeOK
  PROVE  /\ plan \in Seq(Group) /\ Len(plan) \in Nat /\ Len(plan) >= 1
         /\ \A k \in 1..Len(plan) : plan[k] \in Group
         /\ stage \in 1..Len(plan) /\ group \in Group
         /\ \A g \in Group : cluster[g] \in Layouts /\ cluster[g] \in [Node -> Slot]
<1>1. plan \in Seq(Group) /\ Len(plan) \in Nat /\ Len(plan) >= 1
  BY PlansTyped DEF TypeOK
<1>2. \A k \in 1..Len(plan) : plan[k] \in Group
  BY <1>1
<1>3. \A g \in Group : cluster[g] \in Layouts /\ cluster[g] \in [Node -> Slot]
  BY ClustersAssumption, PlacesAssumption DEF TypeOK
<1> QED
  BY <1>1, <1>2, <1>3 DEF TypeOK, group
-------------------------------------------------------------------------------
(* What a run may be: a deployment's temporary directory has a name, a        *)
(* removal installs nothing, a run only succeeds in the last group.           *)
PlanInv ==
  /\ mode = "deploy" => named
  /\ mode = "remove" => phase \notin Later
  /\ phase = "done" /\ result = "ok" => stage = Len(plan)

(* The kinds of steps. *)
RunFrame == UNCHANGED <<mode, keep, at, lost, hostVars, histVars, mongoVars>>

Beginning ==
  \E m \in Mode, nr \in BOOLEAN, p \in {DeployPlan, RemovalPlan, ReplicaSetPlan},
     nm \in BOOLEAN :
    Start(m, nr, p, nm) /\ (m = "deploy" => nm)

Connecting == Connect /\ UNCHANGED mongoVars

Checking ==
  /\ phase = "checktmp"
  /\ \/ NextNode("scp") /\ UNCHANGED result
     \/ result' = "err" /\ (Goto("done") \/ Goto("drop"))
  /\ RunFrame

Copying ==
  /\ phase = "scp"
  /\ UNCHANGED <<mode, keep, at, lost, home, inst, histVars, mongoVars>>
  /\ tmp' \in [Host -> TmpState]
  /\ named => \A h \in Host : ~CdFails(tmp[h]) => ~CdFails(tmp'[h])
  /\ \/ /\ NextNode(IF mode = "deploy" THEN "checkenv" ELSE "uninstall")
        /\ UNCHANGED result
        /\ named => ~CdFails(tmp'[HostAt(cursor)])
     \/ result' = "err" /\ (Goto("done") \/ Goto("drop"))

Looking    == CheckEnv /\ UNCHANGED mongoVars
Installing == Install /\ UNCHANGED mongoVars

Awaiting ==
  /\ phase = "post"
  /\ \/ /\ Goto("drop") /\ UNCHANGED result
        /\ plan = DeployPlan /\ group = MongosGroup => added # {}
     \/ FailInstallation
  /\ RunFrame

Removing ==
  \E p \in {"done", "drop"}, stop \in BOOLEAN :
    UNInstallThen(p, stop) /\ UNCHANGED mongoVars /\ (p = "done" => mode = "deploy")

MongoStep ==
  \/ Beginning \/ Connecting \/ Checking \/ Copying \/ Looking \/ Installing
  \/ Awaiting \/ MongosInitShard \/ Removing \/ DropGroupTmpDir \/ Environment

LEMMA StartKinds ==
  ASSUME Run \/ RemoveCluster \/ RunReplicaSet \/ RemoveReplicaSet
  PROVE  Beginning
<1>1. CASE Run
  BY <1>1, Zenon DEF Run, Beginning, Mode
<1>2. CASE RemoveCluster
  BY <1>2, Zenon DEF RemoveCluster, Beginning, Mode
<1>3. CASE RunReplicaSet
  BY <1>3, Zenon DEF RunReplicaSet, Beginning, Mode
<1>4. CASE RemoveReplicaSet
  BY <1>4, Zenon DEF RemoveReplicaSet, Beginning, Mode
<1> QED
  BY <1>1, <1>2, <1>3, <1>4

LEMMA ConnectKinds ==
  ASSUME UNCHANGED mongoVars,
         InitReplicaSet \/ Sinit \/ Cinit \/ MSinit \/ SinitUseKeyFile \/ CinitUseKeyFile
           \/ MSinitUseKeyFile \/ CheckClusterHosts
  PROVE  Connecting
  BY DEF InitReplicaSet, Sinit, Cinit, MSinit, SinitUseKeyFile, CinitUseKeyFile,
         MSinitUseKeyFile, CheckClusterHosts, NotConnected, Connecting, Connect

LEMMA CheckKinds ==
  ASSUME UNCHANGED mongoVars,
         CheckHost \/ CheckPlainTmpDir \/ CheckShardTmpDir \/ CheckConfigTmpDir
           \/ MSCheckTmpDir
  PROVE  Checking
<1>1. ASSUME NEW p \in {"done", "drop"}, CheckTmpDirElse(p)
      PROVE  Checking
  BY <1>1 DEF CheckTmpDirElse, Checking, RunFrame
<1>2. ASSUME NEW p \in {"done", "drop"}, CheckGroupTmpDir(p)
      PROVE  Checking
  <2>1. CASE CheckTmpDirElse(p)
    BY <1>1, <2>1
  <2>2. CASE ~named
    BY <1>2, <1>1, <2>2 DEF CheckGroupTmpDir, Checking, RunFrame
  <2> QED
    BY <1>2, <2>1, <2>2 DEF CheckGroupTmpDir
<1>3. CASE CheckHost
  BY <1>3 DEF CheckHost, Return, Checking, RunFrame
<1>4. CASE CheckPlainTmpDir
  BY <1>1, <1>4 DEF CheckPlainTmpDir, CheckTmpDir
<1>5. CASE CheckShardTmpDir
  BY <1>2, <1>5 DEF CheckShardTmpDir
<1>6. CASE CheckConfigTmpDir \/ MSCheckTmpDir
  BY <1>2, <1>6 DEF CheckConfigTmpDir, MSCheckTmpDir
<1> QED
  BY <1>3, <1>4, <1>5, <1>6

LEMMA ScpKinds ==
  ASSUME TypeOK, PlanInv, UNCHANGED mongoVars, ScpShard \/ ScpConfig \/ ScpPlain \/ MScp
  PROVE  Copying
<1>0. HostAt(cursor) \in Host /\ tmp[HostAt(cursor)] \in TmpState
  BY HostAtTyped DEF TypeOK, PipelineTypeOK
<1>1. ASSUME NEW p \in {"done", "drop"}, ScpElse(p)
      PROVE  Copying
  <2>1. PICK r : /\ r.tmp \in TmpState
                 /\ ~CdFails(tmp[HostAt(cursor)]) => ~CdFails(r.tmp)
                 /\ r.ok => ~CdFails(r.tmp)
                 /\ tmp' = [tmp EXCEPT ![HostAt(cursor)] = r.tmp]
                 /\ IF r.ok
                      THEN /\ NextNode(IF mode = "deploy" THEN "checkenv" ELSE "uninstall")
                           /\ UNCHANGED result
                      ELSE result' = "err" /\ Goto(p)
    <3>1. CASE NoSftp(cursor)
      <4>1. PICK r \in {[tmp |-> tmp[HostAt(cursor)], ok |-> FALSE]} :
              /\ tmp' = [tmp EXCEPT ![HostAt(cursor)] = r.tmp]
              /\ IF r.ok
                   THEN /\ NextNode(IF mode = "deploy" THEN "checkenv" ELSE "uninstall")
                        /\ UNCHANGED result
                   ELSE result' = "err" /\ Goto(p)
        BY <1>1, <3>1, Zenon DEF ScpElse
      <4>2. r.tmp = tmp[HostAt(cursor)] /\ ~r.ok
        BY <4>1
      <4> QED
        BY <1>0, <4>1, <4>2, Zenon
    <3>2. CASE ~NoSftp(cursor)
      <4>1. PICK r \in ScpResults(tmp[HostAt(cursor)]) :
              /\ tmp' = [tmp EXCEPT ![HostAt(cursor)] = r.tmp]
              /\ IF r.ok
                   THEN /\ NextNode(IF mode = "deploy" THEN "checkenv" ELSE "uninstall")
                        /\ UNCHANGED result
                   ELSE result' = "err" /\ Goto(p)
        BY <1>1, <3>2, Zenon DEF ScpElse
      <4> QED
        BY <1>0, <4>1, ResultsTyped, ScpMakesDirectory, Zenon
    <3> QED
      BY <3>1, <3>2
  <2>2. tmp' \in [Host -> TmpState] /\ tmp'[HostAt(cursor)] = r.tmp
    BY <1>0, <2>1 DEF TypeOK, PipelineTypeOK
  <2>3. \A h \in Host : ~CdFails(tmp[h]) => ~CdFails(tmp'[h])
    BY <1>0, <2>1, <2>2 DEF TypeOK, PipelineTypeOK
  <2>4. phase = "scp" /\ UNCHANGED <<mode, keep, at, lost, home, inst, histVars>>
    BY <1>1 DEF ScpElse
  <2> QED
    BY <2>1, <2>2, <2>3, <2>4 DEF Copying
<1>2. ASSUME NEW p \in {"done", "drop"}, ScpGroup(p)
      PROVE  Copying
  <2>1. CASE ScpElse(p)
    BY <1>1, <2>1
  <2>2. CASE ~ScpElse(p)
    <3>1. ~named /\ mode # "deploy"
      BY <1>2, <2>2 DEF ScpGroup, PlanInv
    <3>2. /\ phase = "scp" /\ UNCHANGED <<mode, keep, at, lost, home, inst, histVars, tmp>>
          /\ \/ NextNode("uninstall") /\ UNCHANGED result
             \/ result' = "err" /\ Goto(p)
      BY <1>2, <2>2, Zenon DEF ScpGroup
    <3>3. tmp' \in [Host -> TmpState]
      BY <3>2 DEF TypeOK, PipelineTypeOK
    <3> QED
      BY <3>1, <3>2, <3>3 DEF Copying
  <2> QED
    BY <2>1, <2>2
<1>3. CASE ScpShard \/ ScpConfig \/ MScp
  BY <1>2, <1>3 DEF ScpShard, ScpConfig, MScp
<1>4. CASE ScpPlain
  BY <1>1, <1>4 DEF ScpPlain, Scp
<1> QED
  BY <1>3, <1>4

LEMMA AwaitKinds ==
  ASSUME CheckReplicaSetStatus \/ CheckPlainStatus \/ MSInstallandInit
  PROVE  Awaiting
<1>1. CASE CheckReplicaSetStatus
  BY <1>1 DEF CheckReplicaSetStatus, Member, Router, AwaitReplicaSet, Awaiting, RunFrame
<1>2. CASE CheckPlainStatus
  BY <1>2, DeployPlanFacts DEF CheckPlainStatus, Plain, AwaitReplicaSet, Awaiting, RunFrame
<1>3. CASE MSInstallandInit
  BY <1>3 DEF MSInstallandInit, Awaiting, RunFrame
<1> QED
  BY <1>1, <1>2, <1>3

LEMMA RemoveKinds ==
  ASSUME UNCHANGED mongoVars,
         UNInstallShard \/ UNInstallConfig \/ UNInstallPlain \/ MSUNInstall
  PROVE  Removing
<1>1. ASSUME NEW p \in {"done", "drop"}, UNInstallGroup(p), p = "done" => mode = "deploy"
      PROVE  Removing
  <2>1. Router \in BOOLEAN
    BY DEF Router
  <2> QED
    BY <1>1, <2>1, Zenon DEF UNInstallGroup, Removing
<1>2. CASE UNInstallShard
  BY <1>1, <1>2 DEF UNInstallShard
<1>3. CASE UNInstallConfig \/ UNInstallPlain \/ MSUNInstall
  BY <1>1, <1>3 DEF UNInstallConfig, UNInstallPlain, MSUNInstall
<1> QED
  BY <1>2, <1>3

LEMMA StepKinds ==
  ASSUME TypeOK, PlanInv, Next
  PROVE  MongoStep
<1>1. CASE ReplicaSetProgram
  BY <1>1, ConnectKinds, CheckKinds, ScpKinds, AwaitKinds, RemoveKinds, Zenon
     DEF ReplicaSetProgram, MongoStep, CheckPlainEnv, InstallPlain, DropPlainTmpDir, Looking,
         Installing
<1>2. CASE MemberProgram
  BY <1>2, ConnectKinds, CheckKinds, ScpKinds, AwaitKinds, RemoveKinds, Zenon
     DEF MemberProgram, MongoStep, CheckMembersEnv, InstallMembers, DropMembersTmpDir,
         Looking, Installing
<1>3. CASE RouterProgram
  BY <1>3, ConnectKinds, CheckKinds, ScpKinds, AwaitKinds, RemoveKinds, Zenon
     DEF RouterProgram, MongoStep, MSCheckEnv, MSInstall, MSDropTmpDir, Looking, Installing
<1> QED
  BY <1>1, <1>2, <1>3, StartKinds DEF Next, Program, MongoStep

-------------------------------------------------------------------------------
(* The kinds of steps that are steps of the pipeline. *)
PipelineKind ==
  Beginning \/ Connecting \/ Looking \/ Installing \/ Awaiting \/ Environment

LEMMA BeginningBegins ==
  ASSUME Beginning
  PROVE  \E m \in Mode, nr \in BOOLEAN : Begin(m, nr)
<1>1. PICK m \in Mode, nr \in BOOLEAN, p \in {DeployPlan, RemovalPlan, ReplicaSetPlan},
           nm \in BOOLEAN, c \in Clusters : BeginAt(m, nr, c[p[1]])
  BY Zenon DEF Beginning, Start
<1>2. p[1] \in Group
  BY PlansTyped
<1>3. c[p[1]] \in Layouts
  BY <1>2, ClustersAssumption
<1> QED
  BY <1>1, <1>3, Zenon DEF Begin

LEMMA KindIsPipelineStep ==
  ASSUME PipelineKind
  PROVE  PipelineNext
<1>1. CASE Beginning
  BY <1>1, BeginningBegins, Zenon DEF PipelineNext
<1>2. CASE Awaiting
  <2>1. phase = "post" /\ UNCHANGED <<mode, keep, at, lost, hostVars, histVars>>
    BY <1>2 DEF Awaiting, RunFrame
  <2>2. \/ phase' = "drop" /\ cursor' = 1 /\ UNCHANGED result
        \/ FailInstallation
    BY <1>2 DEF Awaiting, Goto
  <2> QED
    BY <2>1, <2>2, NAssumption DEF PipelineNext, ProductStep, Node
<1> QED
  BY <1>1, <1>2
     DEF PipelineKind, Connecting, Looking, Installing, Environment, PipelineNext, PipelineStep

(* UNInstall of a group, seen from its slots and from the loop. *)
LEMMA RemovingFacts ==
  ASSUME TypeOK, Removing
  PROVE  /\ phase = "uninstall"
         /\ UNCHANGED <<mode, keep, at, result, lost, tmp, home, before, others, runs>>
         /\ UNCHANGED mongoVars
         /\ ~blemish' => ~blemish
         /\ \/ cursor < N /\ phase' = "uninstall" /\ cursor' = cursor + 1
            \/ /\ phase' \in {"done", "drop"} /\ cursor' = 1
               /\ phase' = "done" => mode = "deploy"
               /\ ~blemish' => cursor = N
         /\ \E i \in InstState :
              /\ inst' = [inst EXCEPT ![at[cursor]] = i]
              /\ ~blemish' => [inst |-> i, ok |-> TRUE] \in UNInstallResults(inst[at[cursor]])
<1>1. PICK p \in {"done", "drop"}, stop \in BOOLEAN :
        UNInstallThen(p, stop) /\ UNCHANGED mongoVars /\ (p = "done" => mode = "deploy")
  BY Zenon DEF Removing
<1>2. cursor \in Node /\ inst[at[cursor]] \in InstState
  BY HostAtTyped DEF TypeOK, PipelineTypeOK
<1>3. PICK i \in InstState, ok \in BOOLEAN :
        /\ inst' = [inst EXCEPT ![at[cursor]] = i]
        /\ Mark(~ok)
        /\ IF ok \/ ~stop THEN NextNode(p) ELSE Goto(p)
        /\ ok => [inst |-> i, ok |-> TRUE] \in UNInstallResults(inst[at[cursor]])
  <2>1. CASE NoShell(cursor)
    <3>1. PICK r \in {[inst |-> inst[at[cursor]], ok |-> FALSE]} :
            /\ inst' = [inst EXCEPT ![at[cursor]] = r.inst]
            /\ Mark(~r.ok)
            /\ IF r.ok \/ ~stop THEN NextNode(p) ELSE Goto(p)
      BY <1>1, <2>1, Zenon DEF UNInstallThen
    <3>2. r.inst = inst[at[cursor]] /\ r.ok = FALSE
      BY <3>1
    <3> QED
      BY <1>2, <3>1, <3>2, Zenon
  <2>2. CASE ~NoShell(cursor)
    <3>1. PICK r \in UNInstallResults(inst[at[cursor]]) :
            /\ inst' = [inst EXCEPT ![at[cursor]] = r.inst]
            /\ Mark(~r.ok)
            /\ IF r.ok \/ ~stop THEN NextNode(p) ELSE Goto(p)
      BY <1>1, <2>2, Zenon DEF UNInstallThen
    <3>2. r.ok \in BOOLEAN /\ (r.ok => [inst |-> r.inst, ok |-> TRUE] = r)
      <4>1. \/ r = [inst |-> r.inst, ok |-> TRUE] /\ r.ok = TRUE
            \/ r.ok = FALSE
        BY <3>1 DEF UNInstallResults
      <4> QED
        BY <4>1, Zenon
    <3> QED
      BY <1>2, <3>1, <3>2, ResultsTyped, Zenon
  <2> QED
    BY <2>1, <2>2
<1>4. ~blemish' => ~blemish /\ ok
  BY <1>3 DEF Mark
<1>5. \/ cursor < N /\ phase' = "uninstall" /\ cursor' = cursor + 1
      \/ phase' = p /\ cursor' = 1 /\ (ok => cursor = N)
  BY <1>1, <1>2, <1>3, NAssumption DEF UNInstallThen, NextNode, Goto, Node
<1>6. /\ phase = "uninstall"
      /\ UNCHANGED <<mode, keep, at, result, lost, tmp, home, before, others, runs>>
  BY <1>1 DEF UNInstallThen
<1> QED
  BY <1>1, <1>3, <1>4, <1>5, <1>6

(* DropTmpDir of a group: another node, another group, or the end of the run. *)
DropNextNode ==
  cursor < N /\ cursor' = cursor + 1 /\ UNCHANGED <<phase, result, at, lost, stage>>
DropNextGroup ==
  /\ cursor = N /\ result = "none" /\ stage < Len(plan)
  /\ stage' = stage + 1 /\ at' = cluster[plan[stage + 1]]
  /\ phase' = "connect" /\ cursor' = 1 /\ lost' = {} /\ UNCHANGED result
DropEnds ==
  /\ cursor = N /\ (result # "none" \/ stage = Len(plan))
  /\ result' = (IF result = "none" THEN "ok" ELSE result)
  /\ phase' = "done" /\ cursor' = 1
  /\ UNCHANGED <<at, lost, stage>>

LEMMA DroppingFacts ==
  ASSUME TypeOK, DropGroupTmpDir
  PROVE  /\ phase = "drop" /\ UNCHANGED <<mode, keep, inst, before, others, runs>>
         /\ UNCHANGED <<plan, cluster, named, shardVars>>
         /\ ~blemish' => ~blemish
         /\ blemish' \in BOOLEAN
         /\ tmp' \in [Host -> TmpState] /\ home' \in [Host -> {"intact", "wiped"}]
         /\ DropNextNode \/ DropNextGroup \/ DropEnds
<1>0. cursor \in Node /\ HostAt(cursor) \in Host /\ blemish \in BOOLEAN
  BY HostAtTyped DEF TypeOK, PipelineTypeOK
<1>1. (named /\ EmptyTmpDir) \/ (~named /\ EmptyHome)
  BY DEF DropGroupTmpDir
<1>2. phase = "drop" /\ UNCHANGED <<mode, keep, inst, before, others, runs>>
  BY <1>1 DEF EmptyTmpDir, EmptyHome
<1>3. (~blemish' => ~blemish) /\ blemish' \in BOOLEAN
  BY <1>0, <1>1 DEF EmptyTmpDir, EmptyHome, Mark
<1>4. tmp' \in [Host -> TmpState] /\ home' \in [Host -> {"intact", "wiped"}]
  <2>1. \/ UNCHANGED <<tmp, home>>
        \/ UNCHANGED tmp /\ home' = [home EXCEPT ![HostAt(cursor)] = "wiped"]
        \/ /\ tmp'  = [tmp EXCEPT ![HostAt(cursor)] = AfterDropTmpDir(tmp[HostAt(cursor)])]
           /\ home' = [home EXCEPT ![HostAt(cursor)] =
                        IF CdFails(tmp[HostAt(cursor)]) THEN "wiped" ELSE @]
    BY <1>1 DEF EmptyTmpDir, EmptyHome
  <2> QED
    BY <1>0, <2>1, ResultsTyped DEF TypeOK, PipelineTypeOK, CdFails
<1>5. DropNextNode \/ DropNextGroup \/ DropEnds
  BY DEF DropGroupTmpDir, DropNextNode, DropNextGroup, DropEnds, Goto, Return
<1>6. UNCHANGED <<plan, cluster, named, shardVars>>
  BY DEF DropGroupTmpDir
<1> QED
  BY <1>2, <1>3, <1>4, <1>5, <1>6

-------------------------------------------------------------------------------
LEMMA StageTyped ==
  ASSUME TypeOK, DropNextGroup, UNCHANGED <<plan, cluster>>
  PROVE  stage' \in 1..Len(plan') /\ at' = cluster'[group']
  BY GroupsTyped DEF DropNextGroup, group

LEMMA GroupVarsTyped ==
  ASSUME TypeOK, MongoStep
  PROVE  /\ plan' \in {DeployPlan, RemovalPlan, ReplicaSetPlan} /\ stage' \in 1..Len(plan')
         /\ cluster' \in Clusters /\ at' = cluster'[group'] /\ named' \in BOOLEAN
<1>1. CASE Beginning
  <2>1. PICK m \in Mode, nr \in BOOLEAN, p \in {DeployPlan, RemovalPlan, ReplicaSetPlan},
             nm \in BOOLEAN : Start(m, nr, p, nm)
    BY <1>1, Zenon DEF Beginning
  <2>2. Len(p) \in Nat /\ Len(p) >= 1
    BY PlansTyped
  <2> QED
    BY <2>1, <2>2 DEF Start, BeginAt, group
<1>2. CASE UNCHANGED <<at, groupVars>>
  BY <1>2 DEF groupVars, TypeOK, group
<1>3. CASE DropGroupTmpDir
  <2>1. UNCHANGED <<plan, cluster, named>> /\ (DropNextNode \/ DropNextGroup \/ DropEnds)
    BY <1>3, DroppingFacts
  <2>2. CASE DropNextNode \/ DropEnds
    BY <2>1, <2>2 DEF DropNextNode, DropEnds, TypeOK, group
  <2>3. CASE DropNextGroup
    BY <2>1, <2>3, StageTyped DEF TypeOK
  <2> QED
    BY <2>1, <2>2, <2>3
<1>4. CASE Removing
  BY <1>2, <1>4, RemovingFacts DEF mongoVars
<1>5. CASE Connecting \/ Checking \/ Copying \/ Looking \/ Installing \/ Awaiting
           \/ MongosInitShard \/ Environment
  BY <1>2, <1>5
     DEF Connecting, Connect, Checking, Copying, Looking, CheckEnv, Installing, Install,
         Awaiting, RunFrame, MongosInitShard, Environment, Interrupt, LoseConnection,
         OtherInstalls, OtherFills, mongoVars, groupVars, pipeVars
<1> QED
  BY <1>1, <1>3, <1>4, <1>5 DEF MongoStep

LEMMA ShardVarsTyped ==
  ASSUME TypeOK, MongoStep
  PROVE  asked' \in 0..Shards /\ added' \subseteq registered' /\ registered' \subseteq 1..Shards
<1> USE ShardsAssumption
<1>1. CASE Beginning
  BY <1>1 DEF Beginning, Start
<1>2. CASE MongosInitShard
  <2>1. asked + 1 \in 1..Shards /\ asked' = asked + 1
    BY <1>2 DEF MongosInitShard, TypeOK
  <2>2. \/ UNCHANGED <<registered, added>>
        \/ registered' = registered \cup {asked + 1} /\ added' \in {added, added \cup {asked + 1}}
    BY <1>2 DEF MongosInitShard
  <2>3. asked' \in 0..Shards
    BY <2>1
  <2>4. added \subseteq registered /\ registered \subseteq 1..Shards
    BY DEF TypeOK
  <2>5. added' \subseteq registered' /\ registered' \subseteq 1..Shards
    <3>1. CASE UNCHANGED <<registered, added>>
      BY <2>4, <3>1, Zenon
    <3>2. CASE registered' = registered \cup {asked + 1} /\ added' = added
      BY <2>1, <2>4, <3>2, Zenon
    <3>3. CASE registered' = registered \cup {asked + 1} /\ added' = added \cup {asked + 1}
      BY <2>1, <2>4, <3>3, Zenon
    <3> QED
      BY <2>2, <3>1, <3>2, <3>3
  <2> QED
    BY <2>3, <2>5
<1>3. CASE UNCHANGED shardVars
  BY <1>3 DEF shardVars, TypeOK
<1>4. Beginning \/ MongosInitShard \/ UNCHANGED shardVars
  BY RemovingFacts, DroppingFacts
     DEF MongoStep, Connecting, Checking, Copying, Looking, Installing, Awaiting, RunFrame,
         Environment, mongoVars
<1> QED
  BY <1>1, <1>2, <1>3, <1>4

LEMMA MongoPipelineTyped ==
  ASSUME TypeOK, MongoStep
  PROVE  PipelineTypeOK'
<1>0. PipelineTypeOK /\ cursor \in Node /\ at[cursor] \in Slot
  BY HostAtTyped DEF TypeOK, PipelineTypeOK
<1>1. CASE PipelineKind
  BY <1>0, <1>1, KindIsPipelineStep, PipelineTyped
<1>2. CASE Checking
  BY <1>0, <1>2, NextNodeTyped, GotoTyped DEF Checking, RunFrame, PipelineTypeOK
<1>3. CASE Copying
  BY <1>0, <1>3, NextNodeTyped, GotoTyped DEF Copying, PipelineTypeOK
<1>4. CASE MongosInitShard
  BY <1>0, <1>4 DEF MongosInitShard, pipeVars, PipelineTypeOK
<1>5. CASE Removing
  <2>1. inst' \in [Slot -> InstState]
    BY <1>0, <1>5, RemovingFacts DEF PipelineTypeOK
  <2>2. phase' \in Phase /\ cursor' \in Node
    BY <1>0, <1>5, RemovingFacts, NAssumption DEF Node
  <2>3. blemish' \in BOOLEAN
    BY <1>0, <1>5 DEF Removing, UNInstallThen, Mark, PipelineTypeOK
  <2> QED
    BY <1>0, <1>5, <2>1, <2>2, <2>3, RemovingFacts DEF PipelineTypeOK
<1>6. CASE DropGroupTmpDir
  <2>1. /\ phase' \in Phase /\ cursor' \in Node /\ result' \in Result /\ lost' \subseteq Node \X Channel
    <3> USE NAssumption DEF PipelineTypeOK
    <3>0. phase = "drop" /\ (DropNextNode \/ DropNextGroup \/ DropEnds)
      BY <1>6, DroppingFacts
    <3>1. CASE DropNextNode
      BY <1>0, <3>0, <3>1 DEF DropNextNode, Node
    <3>2. CASE DropNextGroup
      BY <1>0, <3>2 DEF DropNextGroup, Node
    <3>3. CASE DropEnds
      BY <1>0, <3>3 DEF DropEnds, Node
    <3> QED
      BY <3>0, <3>1, <3>2, <3>3
  <2>2. at' \in [Node -> Slot]
    <3>1. CASE DropNextNode \/ DropEnds
      BY <1>0, <3>1 DEF DropNextNode, DropEnds, PipelineTypeOK
    <3>2. CASE DropNextGroup
      <4>1. stage + 1 \in 1..Len(plan)
        BY <3>2, GroupsTyped DEF DropNextGroup
      <4> QED
        BY <3>2, <4>1, GroupsTyped DEF DropNextGroup
    <3> QED
      BY <1>6, <3>1, <3>2, DroppingFacts
  <2> QED
    BY <1>0, <1>6, <2>1, <2>2, DroppingFacts DEF PipelineTypeOK
<1> QED
  BY <1>1, <1>2, <1>3, <1>4, <1>5, <1>6 DEF MongoStep, PipelineKind

LEMMA MongoTyped ==
  ASSUME TypeOK, MongoStep
  PROVE  TypeOK'
  BY GroupVarsTyped, ShardVarsTyped, MongoPipelineTyped DEF TypeOK

-------------------------------------------------------------------------------
(* The pipeline's invariants hold here too. *)
LEMMA MongoResultKept ==
  ASSUME TypeOK, ResultInv, MongoStep
  PROVE  ResultInv'
<1>1. CASE PipelineKind
  BY <1>1, KindIsPipelineStep, ResultPreserved DEF TypeOK
<1>2. CASE Checking
  BY <1>2 DEF Checking, RunFrame, NextNode, Goto, ResultInv, Early, Later
<1>3. CASE Copying
  BY <1>3 DEF Copying, NextNode, Goto, ResultInv, Early, Later
<1>4. CASE MongosInitShard
  BY <1>4 DEF MongosInitShard, pipeVars, ResultInv
<1>5. CASE Removing
  BY <1>5, RemovingFacts DEF ResultInv, Early, Later
<1>6. CASE DropGroupTmpDir
  BY <1>6, DroppingFacts DEF DropNextNode, DropNextGroup, DropEnds, ResultInv, Early, Later
<1> QED
  BY <1>1, <1>2, <1>3, <1>4, <1>5, <1>6 DEF MongoStep, PipelineKind

LEMMA PlanKept ==
  ASSUME TypeOK, ResultInv, PlanInv, MongoStep
  PROVE  PlanInv'
<1>1. CASE Beginning
  BY <1>1 DEF Beginning, Start, BeginAt, Goto, PlanInv, Later
<1>2. CASE Connecting \/ Checking \/ Copying
  <2>1. /\ UNCHANGED <<mode, groupVars>> /\ phase \in Early
        /\ phase' = "done" => result' = "err"
        /\ phase' \in Later => mode = "deploy"
    BY <1>2 DEF Connecting, Connect, Checking, RunFrame, Copying, NextNode, Return, Goto,
                mongoVars, groupVars, Early, Later
  <2> QED
    BY <2>1 DEF PlanInv, groupVars
<1>3. CASE Looking \/ Installing \/ Awaiting
  <2>1. /\ UNCHANGED <<mode, groupVars>> /\ phase \in Later /\ phase' # "done"
    BY <1>3 DEF Looking, CheckEnv, Installing, Install, Awaiting, RunFrame, NextNode, Goto,
                FailInstallation, mongoVars, groupVars, Later
  <2> QED
    BY <2>1 DEF PlanInv, groupVars
<1>4. CASE MongosInitShard
  BY <1>4 DEF MongosInitShard, pipeVars, groupVars, PlanInv
<1>5. CASE Removing
  <2>1. mode = "deploy" => result = "err"
    BY <1>5, RemovingFacts DEF ResultInv
  <2> QED
    BY <1>5, <2>1, RemovingFacts DEF PlanInv, mongoVars, groupVars, Later
<1>6. CASE DropGroupTmpDir
  <2>1. /\ UNCHANGED <<mode, plan, named>> /\ phase' \notin Later
        /\ phase' = "done" /\ result' = "ok" => stage' = Len(plan)
    BY <1>6, DroppingFacts DEF DropNextNode, DropNextGroup, DropEnds, ResultInv, Later
  <2> QED
    BY <2>1 DEF PlanInv
<1>7. CASE Environment
  <2>1. /\ UNCHANGED <<mode, groupVars>>
        /\ \/ phase' = "done" /\ result' = "killed"
           \/ UNCHANGED <<phase, result>>
    BY <1>7 DEF Environment, Interrupt, LoseConnection, OtherInstalls, OtherFills, Return, Goto,
                mongoVars, groupVars
  <2> QED
    BY <2>1 DEF PlanInv, groupVars, Later
<1> QED
  BY <1>1, <1>2, <1>3, <1>4, <1>5, <1>6, <1>7 DEF MongoStep

LEMMA MongoPriorKept ==
  ASSUME TypeOK, ResultInv, PriorInv, MongoStep
  PROVE  PriorInv'
<1>0. cursor \in Node /\ at[cursor] \in Slot /\ \A n \in Node : at[n] \in Slot
  BY HostAtTyped DEF TypeOK, PipelineTypeOK
<1>1. CASE PipelineKind
  BY <1>1, KindIsPipelineStep, PriorPreserved DEF TypeOK
<1>2. CASE Checking
  BY <1>2 DEF Checking, RunFrame, NextNode, Goto, PriorInv
<1>3. CASE Copying
  <2>1. /\ UNCHANGED <<mode, inst, before>>
        /\ \/ phase' \in {"scp", "done", "drop"}
           \/ phase' = "checkenv" /\ cursor' = 1
           \/ phase' = "uninstall" /\ mode # "deploy"
    BY <1>3 DEF Copying, NextNode, Goto
  <2> QED
    BY <2>1, NAssumption DEF PriorInv, Node
<1>4. CASE MongosInitShard
  BY <1>4 DEF MongosInitShard, pipeVars, PriorInv
<1>5. CASE Removing
  <2>1. PICK i : inst' = [inst EXCEPT ![at[cursor]] = i]
    BY <1>5, RemovingFacts
  <2>2. /\ UNCHANGED <<mode, at, before>> /\ phase = "uninstall"
        /\ phase' \in {"uninstall", "done", "drop"}
    BY <1>5, RemovingFacts
  <2> QED
    BY <1>0, <2>1, <2>2 DEF PriorInv, TypeOK, PipelineTypeOK
<1>6. CASE DropGroupTmpDir
  BY <1>6, DroppingFacts DEF DropNextNode, DropNextGroup, DropEnds, PriorInv
<1> QED
  BY <1>1, <1>2, <1>3, <1>4, <1>5, <1>6 DEF MongoStep, PipelineKind

LEMMA MongoDeployedKept ==
  ASSUME TypeOK, ResultInv, DeployedInv, MongoStep
  PROVE  DeployedInv'
<1>1. CASE PipelineKind
  BY <1>1, KindIsPipelineStep, DeployedPreserved DEF TypeOK
<1>2. CASE Checking
  BY <1>2 DEF Checking, RunFrame, NextNode, Goto, DeployedInv, Installed
<1>3. CASE Copying
  BY <1>3 DEF Copying, NextNode, Goto, DeployedInv, Installed
<1>4. CASE MongosInitShard
  BY <1>4 DEF MongosInitShard, pipeVars, DeployedInv, Installed, UpBefore
<1>5. CASE Removing
  BY <1>5, RemovingFacts DEF ResultInv, DeployedInv, Installed
<1>6. CASE DropGroupTmpDir
  <2>1. CASE DropNextGroup
    BY <1>6, <2>1, DroppingFacts DEF DropNextGroup, DeployedInv, Installed
  <2>2. CASE DropNextNode \/ DropEnds
    <3>1. UNCHANGED <<mode, at, inst>> /\ phase' # "install" /\ (Installed' => Installed)
      BY <1>6, <2>2, DroppingFacts DEF DropNextNode, DropEnds, ResultInv, Installed
    <3> QED
      BY <3>1 DEF DeployedInv, UpBefore
  <2> QED
    BY <1>6, <2>1, <2>2, DroppingFacts
<1> QED
  BY <1>1, <1>2, <1>3, <1>4, <1>5, <1>6 DEF MongoStep, PipelineKind

-------------------------------------------------------------------------------
(* Where the temporary directory has a name, "cd" works where the Scp of the  *)
(* group has been.                                                            *)
NamedHomeInv == named => HomeInv

LEMMA MongoHomeKept ==
  ASSUME TypeOK, ResultInv, NamedHomeInv, MongoStep
  PROVE  NamedHomeInv'
<1> USE NAssumption
<1>0. cursor \in Node /\ \A n \in Node : HostAt(n) \in Host
  BY HostAtTyped DEF TypeOK, PipelineTypeOK
<1>1. CASE Beginning
  <2>1. PICK m \in Mode, nr \in BOOLEAN : Begin(m, nr)
    BY <1>1, BeginningBegins, Zenon
  <2> QED
    BY <2>1 DEF Begin, BeginAt, NamedHomeInv, HomeInv, Goto, Early, Later
<1> SUFFICES ASSUME ~Beginning, named' PROVE HomeInv'
  BY <1>1 DEF NamedHomeInv
<1>2. CASE PipelineKind
  <2>1. named
    BY <1>2 DEF PipelineKind, Connecting, Looking, Installing, Awaiting, RunFrame, Environment,
                mongoVars, groupVars
  <2> QED
    BY <1>2, <2>1, KindIsPipelineStep, HomePreserved DEF NamedHomeInv, TypeOK
<1>3. CASE Checking
  <2>1. named /\ UNCHANGED <<at, hostVars, before>> /\ phase = "checktmp"
    BY <1>3 DEF Checking, RunFrame, mongoVars, groupVars
  <2>2. \/ phase' = "checktmp"
        \/ phase' = "scp" /\ cursor' = 1
        \/ phase' \in {"done", "drop"} /\ result' = "err"
    BY <1>3 DEF Checking, NextNode, Goto
  <2> QED
    BY <2>1, <2>2 DEF NamedHomeInv, HomeInv, Early, Later, Node
<1>4. CASE Copying
  <2>0. /\ named /\ UNCHANGED <<at, home, before>> /\ phase = "scp" /\ home = before.home
        /\ \A n \in Node : n < cursor => ~CdFails(tmp[HostAt(n)])
    BY <1>4 DEF Copying, mongoVars, groupVars, NamedHomeInv, HomeInv, Early
  <2>1. HostAt(cursor)' = SlotHost[at[cursor']] /\ \A n \in Node : HostAt(n)' = HostAt(n)
    BY <2>0 DEF HostAt
  <2>2. CASE result' = "err" /\ (Goto("done") \/ Goto("drop"))
    BY <2>0, <2>2 DEF HomeInv, Goto, Early, Later
  <2>3. CASE /\ NextNode(IF mode = "deploy" THEN "checkenv" ELSE "uninstall")
             /\ named => ~CdFails(tmp'[HostAt(cursor)])
    <3>1. \A n \in Node : n <= cursor => ~CdFails(tmp'[HostAt(n)])
      BY <1>0, <1>4, <2>0, <2>3 DEF Copying, Node
    <3>2. CASE cursor < N
      <4>1. phase' = "scp" /\ cursor' = cursor + 1
        BY <2>0, <2>3, <3>2 DEF NextNode
      <4> QED
        BY <1>0, <2>0, <2>1, <3>1, <4>1 DEF HomeInv, Early, Later, Node
    <3>3. CASE ~(cursor < N)
      <4>1. phase' \in {"checkenv", "uninstall"} /\ \A n \in Node : n <= cursor
        BY <1>0, <2>3, <3>3 DEF NextNode, Node
      <4> QED
        BY <2>0, <2>1, <3>1, <4>1 DEF HomeInv, Early, Later
    <3> QED
      BY <3>2, <3>3
  <2> QED
    BY <1>4, <2>2, <2>3 DEF Copying
<1>5. CASE MongosInitShard
  BY <1>5 DEF MongosInitShard, pipeVars, groupVars, NamedHomeInv, HomeInv, HostAt
<1>6. CASE Removing
  <2>1. named /\ UNCHANGED <<at, tmp, home, before, result>> /\ phase = "uninstall"
    BY <1>6, RemovingFacts DEF mongoVars, groupVars
  <2>2. phase' \in {"uninstall", "drop"} \/ (phase' = "done" /\ result = "err")
    BY <1>6, RemovingFacts DEF ResultInv
  <2> QED
    BY <2>1, <2>2 DEF NamedHomeInv, HomeInv, HostAt, Early, Later
<1>7. CASE DropGroupTmpDir
  <2>0. /\ named /\ UNCHANGED before /\ phase = "drop" /\ EmptyTmpDir
        /\ DropNextNode \/ DropNextGroup \/ DropEnds
    BY <1>7, DroppingFacts DEF DropGroupTmpDir
  <2>1. CASE result = "none"
    <3>1. home = before.home /\ \A n \in Node : ~CdFails(tmp[HostAt(n)])
      BY <2>0, <2>1 DEF NamedHomeInv, HomeInv
    <3>2. home' = home
      BY <1>0, <2>0, <3>1 DEF EmptyTmpDir, TypeOK, PipelineTypeOK
    <3>3. \A n \in Node : ~CdFails(tmp'[HostAt(n)])
      BY <1>0, <2>0, <3>1 DEF EmptyTmpDir, CdFails, AfterDropTmpDir, TypeOK, PipelineTypeOK
    <3>4. CASE DropNextNode
      BY <2>0, <3>1, <3>2, <3>3, <3>4 DEF DropNextNode, HomeInv, HostAt, Early, Later
    <3>5. CASE DropNextGroup \/ DropEnds
      BY <2>0, <3>1, <3>2, <3>5 DEF DropNextGroup, DropEnds, HomeInv, Early, Later
    <3> QED
      BY <2>0, <3>4, <3>5
  <2>2. CASE result = "err"
    BY <2>0, <2>2 DEF DropNextNode, DropNextGroup, DropEnds, HomeInv, Early, Later
  <2> QED
    BY <2>0, <2>1, <2>2 DEF ResultInv
<1> QED
  BY <1>2, <1>3, <1>4, <1>5, <1>6, <1>7 DEF MongoStep, PipelineKind

-------------------------------------------------------------------------------
(* The slots of the groups that are complete. *)
InCompleted(s) == \E k \in 1..(stage - 1), n \in Node : s = cluster[plan[k]][n]

(* The nodes before k of this group have slots outside the completed groups. *)
Apart(k) == \A n \in Node : n < k => ~InCompleted(at[n])

CompletedInv ==
  mode = "deploy" =>
    /\ \A k \in 1..(stage - 1), n \in Node : inst[cluster[plan[k]][n]] = "up"
    /\ \A i, j \in 1..(stage - 1), m, n \in Node :
         cluster[plan[i]][m] = cluster[plan[j]][n] => i = j /\ m = n
    /\ phase = "checkenv" => Apart(cursor)
    /\ phase \in {"install", "uninstall"} \/ Installed => Apart(N + 1)
    /\ plan = DeployPlan /\ group = MongosGroup /\ Installed /\ phase # "post" => added # {}

LEMMA CompletedTyped ==
  ASSUME TypeOK, NEW s, InCompleted(s)
  PROVE  s \in Slot
  BY GroupsTyped DEF InCompleted

(* A step that leaves the groups alone and every completed instance up. *)
LEMMA CompletedFrame ==
  ASSUME TypeOK, CompletedInv, UNCHANGED <<mode, at, plan, stage, cluster, added>>,
         \A s \in Slot : InCompleted(s) /\ inst[s] = "up" => inst'[s] = "up",
         mode = "deploy" /\ phase' = "checkenv" => Apart(cursor'),
         mode = "deploy" /\ (phase' \in {"install", "uninstall"} \/ Installed') => Apart(N + 1),
         mode = "deploy" /\ plan = DeployPlan /\ group = MongosGroup /\ Installed'
           /\ phase' # "post" => added # {}
  PROVE  CompletedInv'
<1> SUFFICES ASSUME mode = "deploy" PROVE CompletedInv'
  BY DEF CompletedInv
<1>1. \A s : InCompleted(s)' <=> InCompleted(s)
  BY DEF InCompleted
<1>2. \A k \in 1..(stage - 1), n \in Node : inst'[cluster[plan[k]][n]] = "up"
  <2> TAKE k \in 1..(stage - 1), n \in Node
  <2>1. InCompleted(cluster[plan[k]][n])
    BY DEF InCompleted
  <2> QED
    BY <2>1, CompletedTyped DEF CompletedInv
<1>3. (phase' = "checkenv" => Apart(cursor)') /\ (Apart(N + 1) => Apart(N + 1)')
  BY <1>1 DEF Apart
<1>4. group' = group
  BY DEF group
<1>5. phase' \in {"install", "uninstall"} \/ Installed' => Apart(N + 1)'
  BY <1>3
<1>6. plan' = DeployPlan /\ group' = MongosGroup /\ Installed' /\ phase' # "post" => added' # {}
  BY <1>4
<1>7. \A k \in 1..(stage' - 1), n \in Node : inst'[cluster'[plan'[k]][n]] = "up"
  BY <1>2
<1>8. \A i, j \in 1..(stage' - 1), m, n \in Node :
        cluster'[plan'[i]][m] = cluster'[plan'[j]][n] => i = j /\ m = n
  BY DEF CompletedInv
<1> QED
  BY <1>3, <1>5, <1>6, <1>7, <1>8 DEF CompletedInv

LEMMA CompletedByInstall ==
  ASSUME TypeOK, CompletedInv, Installing \/ Looking
  PROVE  CompletedInv'
<1> USE NAssumption
<1>0. cursor \in Node /\ at[cursor] \in Slot /\ \A n \in Node : at[n] \in Slot
  BY HostAtTyped DEF TypeOK, PipelineTypeOK
<1>1. CASE Looking
  <2>1. UNCHANGED <<mode, at, plan, stage, cluster, added, inst>> /\ phase = "checkenv"
    BY <1>1 DEF Looking, CheckEnv, mongoVars, groupVars, shardVars
  <2>2. CASE phase' = "drop" /\ result' = "err"
    BY <2>1, <2>2, CompletedFrame DEF Installed
  <2>3. CASE inst[at[cursor]] = "free" /\ NextNode("install")
    <3>1. ~Installed'
      BY <2>1, <2>3 DEF NextNode, Installed
    <3>2. ASSUME mode = "deploy"
          PROVE  \A n \in Node : n <= cursor => ~InCompleted(at[n])
      <4>1. Apart(cursor)
        BY <2>1, <3>2 DEF CompletedInv
      <4>2. ~InCompleted(at[cursor])
        BY <2>3, <3>2 DEF CompletedInv, InCompleted
      <4> QED
        BY <1>0, <4>1, <4>2 DEF Apart, Node
    <3>3. CASE cursor < N
      <4>1. phase' = "checkenv" /\ cursor' = cursor + 1
        BY <2>1, <2>3, <3>3 DEF NextNode
      <4>2. mode = "deploy" => Apart(cursor')
        BY <1>0, <3>2, <4>1 DEF Apart, Node
      <4> QED
        BY <2>1, <3>1, <4>1, <4>2, CompletedFrame
    <3>4. CASE ~(cursor < N)
      <4>1. phase' = "install" /\ cursor = N
        BY <1>0, <2>3, <3>4 DEF NextNode, Node
      <4>2. mode = "deploy" => Apart(N + 1)
        BY <3>2, <4>1 DEF Apart, Node
      <4> QED
        BY <2>1, <3>1, <4>1, <4>2, CompletedFrame
    <3> QED
      BY <3>3, <3>4
  <2> QED
    BY <1>1, <2>2, <2>3 DEF Looking, CheckEnv, CheckEnvOK, Goto
<1>2. CASE Installing /\ mode # "deploy"
  BY <1>2 DEF Installing, Install, CompletedInv
<1>3. CASE Installing /\ mode = "deploy"
  <2>1. UNCHANGED <<mode, at, plan, stage, cluster, added>> /\ phase = "install"
    BY <1>3 DEF Installing, Install, mongoVars, groupVars, shardVars
  <2>2. Apart(N + 1)
    BY <1>3, <2>1 DEF CompletedInv
  <2>3. PICK i : inst' = [inst EXCEPT ![at[cursor]] = i]
    BY <1>3 DEF Installing, Install
  <2>4. ~InCompleted(at[cursor])
    BY <1>0, <2>2 DEF Apart, Node
  <2>5. \A s \in Slot : InCompleted(s) /\ inst[s] = "up" => inst'[s] = "up"
    BY <2>3, <2>4 DEF TypeOK, PipelineTypeOK
  <2>6. /\ phase' \in {"install", "post", "uninstall", "drop"}
        /\ Installed' => phase' = "post"
    BY <1>3 DEF Installing, Install, NextNode, FailInstallation, Goto, Installed
  <2> QED
    BY <2>1, <2>2, <2>5, <2>6, CompletedFrame
<1> QED
  BY <1>1, <1>2, <1>3

LEMMA CompletedByRemoval ==
  ASSUME TypeOK, ResultInv, CompletedInv, Removing
  PROVE  CompletedInv'
<1> USE NAssumption
<1>0. cursor \in Node /\ at[cursor] \in Slot /\ \A n \in Node : at[n] \in Slot
  BY HostAtTyped DEF TypeOK, PipelineTypeOK
<1>1. UNCHANGED <<mode, at, plan, stage, cluster, added, result>> /\ phase = "uninstall"
  BY RemovingFacts DEF mongoVars, groupVars, shardVars
<1> SUFFICES ASSUME mode = "deploy" PROVE CompletedInv'
  BY <1>1 DEF CompletedInv
<1>2. Apart(N + 1) /\ result = "err"
  BY <1>1 DEF CompletedInv, ResultInv
<1>3. PICK i : inst' = [inst EXCEPT ![at[cursor]] = i]
  BY RemovingFacts
<1>4. ~InCompleted(at[cursor])
  BY <1>0, <1>2 DEF Apart, Node
<1>5. \A s \in Slot : InCompleted(s) /\ inst[s] = "up" => inst'[s] = "up"
  BY <1>3, <1>4 DEF TypeOK, PipelineTypeOK
<1>6. phase' \in {"uninstall", "drop", "done"} /\ ~Installed'
  BY <1>1, <1>2, RemovingFacts DEF Installed
<1> QED
  BY <1>1, <1>2, <1>5, <1>6, CompletedFrame

(* A group is complete when its DropTmpDir has been everywhere. *)
LEMMA CompletedByDrop ==
  ASSUME TypeOK, ResultInv, DeployedInv, CompletedInv, DropGroupTmpDir
  PROVE  CompletedInv'
<1>0. /\ UNCHANGED <<mode, inst, plan, cluster, added>> /\ phase = "drop"
      /\ DropNextNode \/ DropNextGroup \/ DropEnds
  BY DroppingFacts DEF shardVars
<1>1. CASE DropNextNode \/ DropEnds
  <2>1. /\ UNCHANGED <<at, stage>> /\ phase' \in {"drop", "done"}
        /\ Installed' => Installed
    BY <1>0, <1>1 DEF DropNextNode, DropEnds, ResultInv, Installed
  <2> QED
    BY <1>0, <2>1, CompletedFrame DEF CompletedInv
<1>2. CASE DropNextGroup /\ mode = "deploy"
  <2>1. /\ stage' = stage + 1 /\ phase' = "connect" /\ Installed /\ ~Installed'
        /\ stage \in 1..Len(plan) /\ at = cluster[plan[stage]] /\ Len(plan) \in Nat
    BY <1>0, <1>2, GroupsTyped DEF DropNextGroup, Installed, TypeOK, group
  <2>2. UpBefore(N + 1) /\ Apart(N + 1)
    BY <1>2, <2>1 DEF DeployedInv, CompletedInv
  <2>3. /\ \A n \in Node : inst[at[n]] = "up" /\ ~InCompleted(at[n])
        /\ \A m, n \in Node : m # n => at[m] # at[n]
    BY <2>2, NAssumption DEF UpBefore, Apart, Node
  <2>4. \A k \in 1..(stage' - 1) : k = stage \/ k \in 1..(stage - 1)
    BY <2>1
  <2>5. \A k \in 1..(stage' - 1), n \in Node : inst'[cluster'[plan'[k]][n]] = "up"
    BY <1>0, <1>2, <2>1, <2>3, <2>4 DEF CompletedInv
  <2>6. ASSUME NEW i \in 1..(stage' - 1), NEW j \in 1..(stage' - 1),
               NEW m \in Node, NEW n \in Node,
               cluster[plan[i]][m] = cluster[plan[j]][n]
        PROVE  i = j /\ m = n
    <3>1. CASE i \in 1..(stage - 1) /\ j \in 1..(stage - 1)
      BY <1>2, <2>6, <3>1 DEF CompletedInv
    <3>2. CASE i = stage /\ j = stage
      BY <2>1, <2>3, <2>6, <3>2
    <3>3. CASE i = stage /\ j \in 1..(stage - 1)
      BY <2>1, <2>3, <2>6, <3>3 DEF InCompleted
    <3>4. CASE i \in 1..(stage - 1) /\ j = stage
      BY <2>1, <2>3, <2>6, <3>4 DEF InCompleted
    <3> QED
      BY <2>4, <3>1, <3>2, <3>3, <3>4
  <2> QED
    BY <1>0, <2>1, <2>5, <2>6 DEF CompletedInv
<1>3. CASE mode # "deploy"
  BY <1>0, <1>3 DEF CompletedInv
<1> QED
  BY <1>0, <1>1, <1>2, <1>3

LEMMA CompletedKept ==
  ASSUME TypeOK, PlanInv, ResultInv, DeployedInv, CompletedInv, MongoStep
  PROVE  CompletedInv'
<1>1. CASE Beginning
  BY <1>1 DEF Beginning, Start, BeginAt, Goto, CompletedInv, Installed
<1>2. CASE Connecting \/ Checking
  <2>1. /\ UNCHANGED <<mode, at, plan, stage, cluster, added, inst>>
        /\ phase' \in {"connect", "checktmp", "scp", "done", "drop"}
        /\ phase' \in {"done", "drop"} => result' = "err"
    BY <1>2 DEF Connecting, Connect, Checking, RunFrame, NextNode, Return, Goto,
                mongoVars, groupVars, shardVars
  <2> QED
    BY <2>1, CompletedFrame DEF Installed
<1>3. CASE Copying
  <2>1. /\ UNCHANGED <<mode, at, plan, stage, cluster, added, inst>>
        /\ \/ phase' = "scp"
           \/ phase' = "checkenv" /\ cursor' = 1
           \/ phase' = "uninstall" /\ mode # "deploy"
           \/ phase' \in {"done", "drop"} /\ result' = "err"
    BY <1>3 DEF Copying, NextNode, Goto, mongoVars, groupVars, shardVars
  <2>2. phase' = "checkenv" => Apart(cursor')
    BY <2>1, NAssumption DEF Apart, Node
  <2> QED
    BY <2>1, <2>2, CompletedFrame DEF Installed
<1>4. CASE Looking \/ Installing
  BY <1>4, CompletedByInstall
<1>5. CASE Awaiting
  <2>1. /\ UNCHANGED <<mode, at, plan, stage, cluster, added, inst>> /\ phase = "post"
        /\ \/ phase' = "drop" /\ (plan = DeployPlan /\ group = MongosGroup => added # {})
           \/ phase' \in {"drop", "uninstall"} /\ result' = "err"
    BY <1>5 DEF Awaiting, RunFrame, FailInstallation, Goto, mongoVars, groupVars, shardVars
  <2>2. mode = "deploy" => Apart(N + 1)
    BY <2>1 DEF CompletedInv, Installed
  <2> QED
    BY <2>1, <2>2, CompletedFrame DEF Installed
<1>6. CASE MongosInitShard
  BY <1>6 DEF MongosInitShard, pipeVars, groupVars, CompletedInv, Installed, Apart, InCompleted,
              group
<1>7. CASE Removing
  BY <1>7, CompletedByRemoval
<1>8. CASE DropGroupTmpDir
  BY <1>8, CompletedByDrop
<1>9. CASE Environment
  <2>1. /\ UNCHANGED <<mode, at, plan, stage, cluster, added>>
        /\ \/ phase' = "done" /\ result' = "killed"
           \/ UNCHANGED <<phase, cursor, result>>
    BY <1>9 DEF Environment, Interrupt, LoseConnection, OtherInstalls, OtherFills, Return, Goto,
                mongoVars, groupVars, shardVars
  <2>2. \A s \in Slot : inst[s] = "up" => inst'[s] = "up"
    BY <1>9 DEF Environment, Interrupt, LoseConnection, OtherInstalls, OtherFills, TypeOK,
                PipelineTypeOK
  <2>3. CASE phase' = "done" /\ result' = "killed"
    BY <2>1, <2>2, <2>3, CompletedFrame DEF Installed
  <2>4. CASE UNCHANGED <<phase, cursor, result>>
    <3>1. Installed' <=> Installed
      BY <2>4 DEF Installed
    <3> QED
      BY <2>1, <2>2, <2>4, <3>1, CompletedFrame DEF CompletedInv
  <2> QED
    BY <2>1, <2>3, <2>4
<1> QED
  BY <1>1, <1>2, <1>3, <1>4, <1>5, <1>6, <1>7, <1>8, <1>9 DEF MongoStep

-------------------------------------------------------------------------------
(* Apart from the completed groups, only slots of the nodes from k on differ  *)
(* from what the run found, and no process there has lost its unit.           *)
NewFrom(k) ==
  \A s \in Slot : inst[s] # before.inst[s] =>
    \/ InCompleted(s)
    \/ inst[s] # "orphan" /\ \E n \in Node : n >= k /\ at[n] = s

GroupTraceInv ==
  mode = "deploy" /\ Undisturbed =>
    /\ phase \in Early \cup {"checkenv"} => NewFrom(N + 1)
    /\ phase \in {"install", "post"} => NewFrom(1)
    /\ phase = "drop" /\ result = "none" => NewFrom(1)
    /\ phase = "uninstall" => NewFrom(cursor)
    /\ phase \in {"drop", "done"} /\ result = "err" /\ ~keep => NewFrom(N + 1)

LEMMA Disturbances ==
  ASSUME TypeOK, Interrupt \/ OtherInstalls
  PROVE  ~Undisturbed'
<1>1. CASE Interrupt
  BY <1>1 DEF Interrupt, Mark, Undisturbed
<1>2. CASE OtherInstalls
  <2>1. others' = others + 1 /\ others \in Nat
    BY <1>2 DEF OtherInstalls, TypeOK, PipelineTypeOK
  <2> QED
    BY <2>1 DEF Undisturbed
<1> QED
  BY <1>1, <1>2

(* A step that leaves the slots and the groups alone. *)
LEMMA NewFromKept ==
  ASSUME UNCHANGED <<at, inst, before, plan, stage, cluster>>, NEW k \in Nat, NewFrom(k)
  PROVE  NewFrom(k)' /\ (k = N + 1 => NewFrom(1)')
<1>1. \A s : InCompleted(s)' <=> InCompleted(s)
  BY DEF InCompleted
<1>2. \A n \in Node : n \in Nat /\ n >= 1
  BY DEF Node
<1> QED
  BY <1>1, <1>2, NAssumption DEF NewFrom

LEMMA TraceByRemoval ==
  ASSUME TypeOK, PriorInv, CompletedInv, GroupTraceInv, Removing
  PROVE  GroupTraceInv'
<1> USE NAssumption
<1> SUFFICES ASSUME mode' = "deploy", Undisturbed' PROVE GroupTraceInv'
  BY DEF GroupTraceInv
<1>0. cursor \in Node /\ at[cursor] \in Slot /\ \A n \in Node : at[n] \in Slot
  BY HostAtTyped DEF TypeOK, PipelineTypeOK
<1>1. /\ UNCHANGED <<mode, keep, at, before, plan, stage, cluster, result>>
      /\ phase = "uninstall" /\ Undisturbed
  BY RemovingFacts DEF mongoVars, groupVars, Undisturbed
<1>2. PICK i \in InstState : /\ inst' = [inst EXCEPT ![at[cursor]] = i]
                             /\ [inst |-> i, ok |-> TRUE] \in UNInstallResults(inst[at[cursor]])
  BY RemovingFacts DEF Undisturbed
<1>3. NewFrom(cursor) /\ Apart(N + 1) /\ before.inst[at[cursor]] = "free"
  BY <1>0, <1>1 DEF GroupTraceInv, CompletedInv, PriorInv
<1>4. i = "free" \/ (i = inst[at[cursor]] /\ i \in {"free", "orphan"})
  BY <1>2 DEF UNInstallResults
<1>5. inst'[at[cursor]] = before.inst[at[cursor]]
  BY <1>0, <1>2, <1>3, <1>4 DEF NewFrom, Apart, Node, TypeOK, PipelineTypeOK
<1>6. \A s : InCompleted(s)' <=> InCompleted(s)
  BY <1>1 DEF InCompleted
<1>7. \A s \in Slot : inst'[s] # before'.inst[s] =>
        \/ InCompleted(s)'
        \/ inst'[s] # "orphan" /\ \E n \in Node : n >= cursor + 1 /\ at'[n] = s
  BY <1>0, <1>1, <1>2, <1>3, <1>5, <1>6 DEF NewFrom, Node, TypeOK, PipelineTypeOK
<1>8. CASE cursor < N /\ phase' = "uninstall" /\ cursor' = cursor + 1
  BY <1>7, <1>8 DEF GroupTraceInv, NewFrom, Early
<1>9. CASE phase' \in {"done", "drop"} /\ cursor = N
  <2>1. NewFrom(N + 1)'
    BY <1>7, <1>9 DEF NewFrom
  <2>2. NewFrom(1)'
    BY <1>0, <2>1 DEF NewFrom, Node
  <2> QED
    BY <1>9, <2>1, <2>2 DEF GroupTraceInv, Early
<1> QED
  BY <1>8, <1>9, RemovingFacts DEF Undisturbed

LEMMA TraceByInstall ==
  ASSUME TypeOK, GroupTraceInv, Installing
  PROVE  GroupTraceInv'
<1> USE NAssumption
<1>0. cursor \in Node /\ at[cursor] \in Slot /\ inst[at[cursor]] \in InstState
  BY HostAtTyped DEF TypeOK, PipelineTypeOK
<1>1. PICK i \in InstState :
        inst' = [inst EXCEPT ![at[cursor]] = i] /\ blemish' = (blemish \/ i = "orphan")
  <2>1. CASE NoShell(cursor)
    <3>1. PICK r \in {[inst |-> inst[at[cursor]], ok |-> FALSE]} :
            inst' = [inst EXCEPT ![at[cursor]] = r.inst] /\ Mark(r.inst = "orphan")
      BY <2>1, Zenon DEF Installing, Install
    <3>2. r.inst = inst[at[cursor]]
      BY <3>1
    <3> QED
      BY <1>0, <3>1, <3>2, Zenon DEF Mark
  <2>2. CASE ~NoShell(cursor)
    BY <1>0, <2>2, ResultsTyped DEF Installing, Install, Mark
  <2> QED
    BY <2>1, <2>2
<1>2. /\ phase' \in {"install", "post", "uninstall", "drop"}
      /\ phase' = "uninstall" => cursor' = 1
      /\ phase' = "drop" => keep /\ result' = "err"
  BY DEF Installing, Install, NextNode, FailInstallation, Goto
<1>3. /\ UNCHANGED <<mode, keep, at, before, others, plan, stage, cluster>> /\ phase = "install"
  BY DEF Installing, Install, mongoVars, groupVars
<1>4. \A s : InCompleted(s)' <=> InCompleted(s)
  BY <1>3 DEF InCompleted
<1>5. ASSUME NewFrom(1), i # "orphan"
      PROVE  NewFrom(1)'
  BY <1>0, <1>1, <1>3, <1>4, <1>5 DEF NewFrom, Node, TypeOK, PipelineTypeOK
<1> QED
  BY <1>1, <1>2, <1>3, <1>5 DEF GroupTraceInv, Undisturbed, Early

LEMMA TraceByDrop ==
  ASSUME TypeOK, ResultInv, GroupTraceInv, DropGroupTmpDir
  PROVE  GroupTraceInv'
<1> SUFFICES ASSUME mode' = "deploy", Undisturbed' PROVE GroupTraceInv'
  BY DEF GroupTraceInv
<1>1. /\ UNCHANGED <<mode, keep, inst, before, plan, cluster>> /\ phase = "drop" /\ Undisturbed
      /\ DropNextNode \/ DropNextGroup \/ DropEnds
  BY DroppingFacts DEF Undisturbed
<1>2. N + 1 \in Nat /\ 1 \in Nat
  BY NAssumption
<1>3. CASE DropNextNode \/ DropEnds
  <2>1. /\ UNCHANGED <<at, stage>> /\ phase' \in {"drop", "done"}
        /\ result' = "none" => result = "none"
        /\ result' = "err" => result = "err"
        /\ phase' = "done" => result' # "none"
    BY <1>1, <1>3 DEF DropNextNode, DropEnds
  <2> QED
    BY <1>1, <1>2, <2>1, NewFromKept DEF GroupTraceInv, Early
<1>4. CASE DropNextGroup
  <2>1. /\ stage' = stage + 1 /\ phase' = "connect" /\ result = "none"
        /\ stage \in 1..Len(plan) /\ Len(plan) \in Nat /\ at = cluster[plan[stage]]
    BY <1>4, GroupsTyped DEF DropNextGroup, TypeOK, group
  <2>2. NewFrom(1)
    BY <1>1, <2>1 DEF GroupTraceInv
  <2>3. \A s : (InCompleted(s) \/ \E n \in Node : at[n] = s) => InCompleted(s)'
    BY <1>1, <2>1 DEF InCompleted
  <2>4. NewFrom(N + 1)'
    BY <1>1, <2>2, <2>3 DEF NewFrom
  <2> QED
    BY <2>1, <2>4 DEF GroupTraceInv
<1> QED
  BY <1>1, <1>3, <1>4

LEMMA GroupTraceKept ==
  ASSUME TypeOK, ResultInv, PriorInv, CompletedInv, GroupTraceInv, MongoStep
  PROVE  GroupTraceInv'
<1>0. N + 1 \in Nat /\ 1 \in Nat
  BY NAssumption
<1>1. CASE Beginning
  BY <1>1 DEF Beginning, Start, BeginAt, Goto, GroupTraceInv, NewFrom
<1>2. CASE Connecting \/ Checking \/ Copying \/ Looking
  <2>1. /\ UNCHANGED <<mode, keep, at, inst, before, plan, stage, cluster, blemish, others>>
        /\ phase \in Early \cup {"checkenv"}
        /\ phase' \in {"done", "drop"} => result' = "err"
        /\ phase' = "uninstall" => mode # "deploy"
    BY <1>2 DEF Connecting, Connect, Checking, RunFrame, Copying, Looking, CheckEnv, NextNode,
                Return, Goto, mongoVars, groupVars, Early
  <2>2. phase' \in Early \cup {"checkenv", "install", "uninstall", "done", "drop"}
    BY <1>2 DEF Connecting, Connect, Checking, Copying, Looking, CheckEnv, NextNode,
                Return, Goto, Early
  <2>3. NewFrom(N + 1) => NewFrom(N + 1)' /\ NewFrom(1)'
    BY <1>0, <2>1, NewFromKept
  <2> QED
    BY <2>1, <2>2, <2>3 DEF GroupTraceInv, Undisturbed, Early
<1>3. CASE Installing
  BY <1>3, TraceByInstall
<1>4. CASE Awaiting
  <2>1. /\ UNCHANGED <<mode, keep, at, inst, before, plan, stage, cluster, blemish, others>>
        /\ phase = "post"
        /\ \/ phase' = "drop" /\ UNCHANGED result
           \/ phase' = "drop" /\ result' = "err" /\ keep
           \/ phase' = "uninstall" /\ cursor' = 1
    BY <1>4 DEF Awaiting, RunFrame, FailInstallation, Goto, mongoVars, groupVars
  <2>2. NewFrom(1) => NewFrom(1)'
    BY <1>0, <2>1, NewFromKept
  <2>3. result = "none"
    BY <2>1 DEF ResultInv, Later
  <2> QED
    BY <2>1, <2>2, <2>3 DEF GroupTraceInv, Undisturbed, Early
<1>5. CASE Removing
  BY <1>5, TraceByRemoval
<1>6. CASE DropGroupTmpDir
  BY <1>6, TraceByDrop
<1>7. CASE MongosInitShard \/ (Environment /\ (LoseConnection \/ OtherFills))
  <2>1. /\ UNCHANGED <<phase, cursor, result>> /\ (Undisturbed' => Undisturbed)
        /\ UNCHANGED <<mode, keep, at, inst, before, plan, stage, cluster>>
    BY <1>7 DEF MongosInitShard, Environment, LoseConnection, OtherFills, pipeVars, mongoVars,
                groupVars, Undisturbed, TypeOK, PipelineTypeOK
  <2>2. cursor \in Nat
    BY DEF TypeOK, PipelineTypeOK, Node
  <2>3. /\ NewFrom(N + 1) => NewFrom(N + 1)'
        /\ NewFrom(1) => NewFrom(1)'
        /\ NewFrom(cursor) => NewFrom(cursor)'
    BY <1>0, <2>1, <2>2, NewFromKept
  <2> QED
    BY <2>1, <2>3 DEF GroupTraceInv
<1>8. CASE Environment /\ (Interrupt \/ OtherInstalls)
  <2>1. ~Undisturbed'
    BY <1>8, Disturbances
  <2> QED
    BY <2>1 DEF GroupTraceInv
<1> QED
  BY <1>1, <1>2, <1>3, <1>4, <1>5, <1>6, <1>7, <1>8 DEF MongoStep, Environment

-------------------------------------------------------------------------------
(* A removal has emptied the slots of the groups it has been through, and     *)
(* those of this group up to where its UNInstall is.                          *)
GroupRemovalInv ==
  mode = "remove" /\ Undisturbed =>
    /\ \A s \in Slot : InCompleted(s) => inst[s] \in {"free", "orphan"}
    /\ phase = "uninstall" => GoneBefore(cursor)
    /\ phase = "drop" /\ result = "none" => GoneBefore(N + 1)
    /\ phase = "done" /\ result = "ok" => GoneBefore(N + 1)

LEMMA GoneByRemoval ==
  ASSUME TypeOK, GroupRemovalInv, Removing
  PROVE  GroupRemovalInv'
<1> USE NAssumption
<1> SUFFICES ASSUME mode' = "remove", Undisturbed' PROVE GroupRemovalInv'
  BY DEF GroupRemovalInv
<1>0. cursor \in Node /\ at[cursor] \in Slot /\ \A n \in Node : at[n] \in Slot
  BY HostAtTyped DEF TypeOK, PipelineTypeOK
<1>1. /\ UNCHANGED <<mode, at, plan, stage, cluster, result>>
      /\ phase = "uninstall" /\ Undisturbed
  BY RemovingFacts DEF mongoVars, groupVars, Undisturbed
<1>2. PICK i \in InstState : /\ inst' = [inst EXCEPT ![at[cursor]] = i]
                             /\ [inst |-> i, ok |-> TRUE] \in UNInstallResults(inst[at[cursor]])
  BY RemovingFacts DEF Undisturbed
<1>3. i \in {"free", "orphan"}
  BY <1>2 DEF UNInstallResults
<1>4. GoneBefore(cursor) /\ \A s \in Slot : InCompleted(s) => inst[s] \in {"free", "orphan"}
  BY <1>1 DEF GroupRemovalInv
<1>5. \A n \in Node : n <= cursor => inst'[at'[n]] \in {"free", "orphan"}
  BY <1>0, <1>1, <1>2, <1>3, <1>4 DEF GoneBefore, Node, TypeOK, PipelineTypeOK
<1>6. \A s : InCompleted(s)' <=> InCompleted(s)
  BY <1>1 DEF InCompleted
<1>7. \A s \in Slot : InCompleted(s)' => inst'[s] \in {"free", "orphan"}
  BY <1>0, <1>2, <1>3, <1>4, <1>6 DEF TypeOK, PipelineTypeOK
<1>8. CASE cursor < N /\ phase' = "uninstall" /\ cursor' = cursor + 1
  BY <1>0, <1>5, <1>7, <1>8 DEF GroupRemovalInv, GoneBefore, Node
<1>9. CASE phase' = "drop" /\ cursor = N
  BY <1>5, <1>7, <1>9 DEF GroupRemovalInv, GoneBefore, Node
<1> QED
  BY <1>1, <1>8, <1>9, RemovingFacts DEF Undisturbed

LEMMA GoneByDrop ==
  ASSUME TypeOK, ResultInv, GroupRemovalInv, DropGroupTmpDir
  PROVE  GroupRemovalInv'
<1> SUFFICES ASSUME mode' = "remove", Undisturbed' PROVE GroupRemovalInv'
  BY DEF GroupRemovalInv
<1>1. /\ UNCHANGED <<mode, inst, plan, cluster>> /\ phase = "drop" /\ Undisturbed
      /\ DropNextNode \/ DropNextGroup \/ DropEnds
  BY DroppingFacts DEF Undisturbed
<1>2. \A s \in Slot : InCompleted(s) => inst[s] \in {"free", "orphan"}
  BY <1>1 DEF GroupRemovalInv
<1>3. CASE DropNextNode \/ DropEnds
  <2>1. /\ UNCHANGED <<at, stage>> /\ phase' \in {"drop", "done"}
        /\ phase' = "drop" => result' = result
        /\ phase' = "done" /\ result' = "ok" => result = "none"
    BY <1>1, <1>3 DEF DropNextNode, DropEnds, ResultInv
  <2> QED
    BY <1>1, <1>2, <2>1 DEF GroupRemovalInv, InCompleted, GoneBefore
<1>4. CASE DropNextGroup
  <2>1. /\ stage' = stage + 1 /\ phase' = "connect" /\ result = "none"
        /\ stage \in 1..Len(plan) /\ Len(plan) \in Nat /\ at = cluster[plan[stage]]
    BY <1>4, GroupsTyped DEF DropNextGroup, TypeOK, group
  <2>2. \A n \in Node : inst[at[n]] \in {"free", "orphan"}
    BY <1>1, <2>1, NAssumption DEF GroupRemovalInv, GoneBefore, Node
  <2>3. \A s : InCompleted(s)' => InCompleted(s) \/ \E n \in Node : at[n] = s
    BY <1>1, <2>1 DEF InCompleted
  <2> QED
    BY <1>1, <1>2, <2>1, <2>2, <2>3 DEF GroupRemovalInv
<1> QED
  BY <1>1, <1>3, <1>4

LEMMA GroupRemovalKept ==
  ASSUME TypeOK, PlanInv, ResultInv, GroupRemovalInv, MongoStep
  PROVE  GroupRemovalInv'
<1> USE NAssumption
<1>1. CASE Beginning
  BY <1>1 DEF Beginning, Start, BeginAt, Goto, GroupRemovalInv, InCompleted
<1>2. CASE Connecting \/ Checking \/ Copying
  <2>1. /\ UNCHANGED <<mode, at, inst, plan, stage, cluster, blemish, others>>
        /\ phase' \in {"done", "drop"} => result' = "err"
        /\ phase' = "uninstall" => cursor' = 1
    BY <1>2 DEF Connecting, Connect, Checking, RunFrame, Copying, NextNode, Return, Goto,
                mongoVars, groupVars
  <2>2. cursor' = 1 => GoneBefore(cursor)'
    BY DEF GoneBefore, Node
  <2> QED
    BY <2>1, <2>2 DEF GroupRemovalInv, InCompleted, Undisturbed
<1>3. CASE Looking \/ Installing \/ Awaiting \/ MongosInitShard
  <2>1. phase \in Later /\ UNCHANGED mode
    BY <1>3 DEF Looking, CheckEnv, Installing, Install, Awaiting, RunFrame, MongosInitShard,
                pipeVars, Later
  <2>2. mode # "remove"
    BY <2>1 DEF PlanInv
  <2> QED
    BY <2>1, <2>2 DEF GroupRemovalInv
<1>4. CASE Removing
  BY <1>4, GoneByRemoval
<1>5. CASE DropGroupTmpDir
  BY <1>5, GoneByDrop
<1>6. CASE Environment /\ (LoseConnection \/ OtherFills)
  <2>1. /\ UNCHANGED <<phase, cursor, result>> /\ (Undisturbed' => Undisturbed)
        /\ UNCHANGED <<mode, at, inst, plan, stage, cluster>>
    BY <1>6 DEF Environment, LoseConnection, OtherFills, mongoVars, groupVars, Undisturbed,
                TypeOK, PipelineTypeOK
  <2> QED
    BY <2>1 DEF GroupRemovalInv, InCompleted, GoneBefore
<1>7. CASE Environment /\ (Interrupt \/ OtherInstalls)
  <2>1. ~Undisturbed'
    BY <1>7, Disturbances
  <2> QED
    BY <2>1 DEF GroupRemovalInv
<1> QED
  BY <1>1, <1>2, <1>3, <1>4, <1>5, <1>6, <1>7 DEF MongoStep, Environment

-------------------------------------------------------------------------------
(* The inductive invariant. *)
IInv ==
  /\ TypeOK /\ PlanInv /\ ResultInv /\ PriorInv /\ DeployedInv /\ NamedHomeInv
  /\ CompletedInv /\ GroupTraceInv /\ GroupRemovalInv

LEMMA InitIInv == Init => IInv
<1> USE NAssumption, PlacesAssumption, ShardsAssumption, ClustersAssumption
<1> SUFFICES ASSUME Init PROVE IInv
  OBVIOUS
<1>1. PipelineTypeOK
  <2>1. before \in Snapshot
    BY DEF Init, PipelineInit, Snapshot
  <2>2. /\ phase \in Phase /\ cursor \in Node /\ mode \in Mode /\ result \in Result
        /\ at \in [Node -> Slot] /\ lost \subseteq Node \X Channel
    BY DEF Init, PipelineInit, Node, Mode
  <2>3. keep \in BOOLEAN /\ blemish \in BOOLEAN
    BY Zenon DEF Init, PipelineInit
  <2>4. /\ tmp \in [Host -> TmpState] /\ inst \in [Slot -> InstState]
        /\ home \in [Host -> {"intact", "wiped"}] /\ others \in Nat /\ runs \in Nat
    BY DEF Init, PipelineInit
  <2> QED
    BY <2>1, <2>2, <2>3, <2>4 DEF PipelineTypeOK
<1>2. TypeOK
  <2>1. ReplicaSetPlan[1] = ConfigGroup /\ Len(ReplicaSetPlan) = 1
    BY DEF ReplicaSetPlan
  <2>2. named \in BOOLEAN
    BY Zenon DEF Init
  <2> QED
    BY <1>1, <2>1, <2>2 DEF Init, TypeOK, group
<1>3. PlanInv /\ ResultInv /\ PriorInv /\ DeployedInv /\ NamedHomeInv
  BY DEF Init, PipelineInit, PlanInv, ResultInv, PriorInv, DeployedInv, NamedHomeInv, HomeInv,
         Installed, Early, Later
<1>4. CompletedInv
  BY DEF Init, PipelineInit, CompletedInv, Installed
<1>5. GroupTraceInv /\ GroupRemovalInv
  BY DEF Init, PipelineInit, GroupTraceInv, GroupRemovalInv, InCompleted, Early
<1> QED
  BY <1>2, <1>3, <1>4, <1>5 DEF IInv

LEMMA NextIInv == IInv /\ [Next]_vars => IInv'
<1> SUFFICES ASSUME IInv, [Next]_vars PROVE IInv'
  OBVIOUS
<1>1. CASE Next
  <2>1. MongoStep
    BY <1>1, StepKinds DEF IInv
  <2>2. TypeOK' /\ ResultInv' /\ PlanInv' /\ PriorInv'
    BY <2>1, MongoTyped, MongoResultKept, PlanKept, MongoPriorKept DEF IInv
  <2>3. DeployedInv' /\ NamedHomeInv' /\ CompletedInv'
    BY <2>1, MongoDeployedKept, MongoHomeKept, CompletedKept DEF IInv
  <2>4. GroupTraceInv' /\ GroupRemovalInv'
    BY <2>1, GroupTraceKept, GroupRemovalKept DEF IInv
  <2> QED
    BY <2>2, <2>3, <2>4 DEF IInv
<1>2. CASE UNCHANGED vars
  <2> USE <1>2 DEF IInv, vars, pipeVars, mongoVars, groupVars, shardVars
  <2>1. TypeOK' /\ PlanInv' /\ ResultInv' /\ PriorInv'
    BY DEF TypeOK, PipelineTypeOK, PlanInv, ResultInv, PriorInv, group
  <2>2. DeployedInv' /\ NamedHomeInv'
    BY DEF DeployedInv, Installed, UpBefore, NamedHomeInv, HomeInv, HostAt
  <2>3. CompletedInv'
    BY DEF CompletedInv, Installed, Apart, InCompleted, group
  <2>4. GroupTraceInv' /\ GroupRemovalInv'
    BY DEF GroupTraceInv, GroupRemovalInv, NewFrom, GoneBefore, InCompleted, Undisturbed
  <2> QED
    BY <2>1, <2>2, <2>3, <2>4
<1> QED
  BY <1>1, <1>2

THEOREM Invariance == Spec => []IInv
  BY InitIInv, NextIInv, PTL DEF Spec

(* Every variable keeps its type; a run is always at a group of its plan, on *)
(* the slots its configuration gives that group.                              *)
THEOREM TypeCorrect == Spec => []TypeOK
<1>1. IInv => TypeOK
  BY DEF IInv
<1> QED
  BY <1>1, Invariance, PTL

(* MongoShardInit, MongoConfigInit and MSInstallandInit each check before    *)
(* they install: no group replaces or rolls back an instance that was there.  *)
THEOREM PriorSafe == Spec => []PriorInstancesKept
<1>1. IInv => PriorInstancesKept
  BY DEF IInv, PriorInv, PriorInstancesKept
<1> QED
  BY <1>1, Invariance, PTL

(* No later group's Install or UNInstall reaches into a completed group.     *)
THEOREM CompletedSafe == Spec => []CompletedGroupsKept
<1>1. IInv => CompletedGroupsKept
  BY DEF IInv, CompletedInv, CompletedGroupsKept, Completed
<1> QED
  BY <1>1, Invariance, PTL

(* Run returns nil only when each slot of each group runs an instance of its *)
(* own and mongos has been given at least one shard.                          *)
THEOREM SuccessCorrect == Spec => []SuccessMeansCluster
<1>1. ASSUME IInv, phase = "done", mode = "deploy", result = "ok"
      PROVE  /\ \A i \in 1..Len(plan), n \in Node : inst[cluster[plan[i]][n]] = "up"
             /\ \A i, j \in 1..Len(plan), m, n \in Node :
                  cluster[plan[i]][m] = cluster[plan[j]][n] => i = j /\ m = n
             /\ plan = DeployPlan => registered # {}
  <2>1. /\ stage = Len(plan) /\ Len(plan) \in Nat /\ Len(plan) >= 1
        /\ at = cluster[plan[stage]] /\ Installed
    BY <1>1, GroupsTyped DEF IInv, PlanInv, Installed, TypeOK, group
  <2>2. UpBefore(N + 1) /\ Apart(N + 1)
    BY <1>1, <2>1 DEF IInv, DeployedInv, CompletedInv
  <2>3. /\ \A n \in Node : inst[at[n]] = "up" /\ ~InCompleted(at[n])
        /\ \A m, n \in Node : m # n => at[m] # at[n]
    BY <2>2, NAssumption DEF UpBefore, Apart, Node
  <2>4. \A k \in 1..Len(plan) : k = stage \/ k \in 1..(stage - 1)
    BY <2>1
  <2>5. /\ \A k \in 1..(stage - 1), n \in Node : inst[cluster[plan[k]][n]] = "up"
        /\ \A i, j \in 1..(stage - 1), m, n \in Node :
             cluster[plan[i]][m] = cluster[plan[j]][n] => i = j /\ m = n
        /\ plan = DeployPlan /\ group = MongosGroup => added # {}
    BY <1>1, <2>1 DEF IInv, CompletedInv
  <2>6. \A i \in 1..Len(plan), n \in Node : inst[cluster[plan[i]][n]] = "up"
    BY <2>1, <2>3, <2>4, <2>5
  <2>7. ASSUME NEW i \in 1..Len(plan), NEW j \in 1..Len(plan), NEW m \in Node, NEW n \in Node,
               cluster[plan[i]][m] = cluster[plan[j]][n]
        PROVE  i = j /\ m = n
    <3>1. CASE i \in 1..(stage - 1) /\ j \in 1..(stage - 1)
      BY <2>5, <2>7, <3>1
    <3>2. CASE i = stage /\ j = stage
      BY <2>1, <2>3, <2>7, <3>2
    <3>3. CASE i = stage /\ j \in 1..(stage - 1)
      BY <2>1, <2>3, <2>7, <3>3 DEF InCompleted
    <3>4. CASE i \in 1..(stage - 1) /\ j = stage
      BY <2>1, <2>3, <2>7, <3>4 DEF InCompleted
    <3> QED
      BY <2>4, <3>1, <3>2, <3>3, <3>4
  <2>8. ASSUME plan = DeployPlan
        PROVE  registered # {}
    <3>1. group = MongosGroup
      BY <2>1, <2>8, DeployPlanFacts DEF group
    <3> QED
      BY <1>1, <2>5, <2>8, <3>1 DEF IInv, TypeOK
  <2> QED
    BY <2>6, <2>7, <2>8
<1>2. IInv => SuccessMeansCluster
  BY <1>1 DEF SuccessMeansCluster
<1> QED
  BY <1>2, Invariance, PTL

(* A group that fails is taken back whole, and nothing else is.              *)
THEOREM FailureClean == Spec => []FailureLeavesCompletedOnly
<1>1. ASSUME IInv, phase = "done", mode = "deploy", result = "err", ~keep, ~blemish, others = 0,
             NEW s \in Slot, inst[s] # before.inst[s]
      PROVE  \E g \in Completed : s \in Members(g)
  <2>1. NewFrom(N + 1)
    BY <1>1 DEF IInv, GroupTraceInv, Undisturbed
  <2>2. InCompleted(s)
    BY <1>1, <2>1, NAssumption DEF NewFrom, Node
  <2> QED
    BY <2>2 DEF InCompleted, Completed, Members
<1>2. IInv => FailureLeavesCompletedOnly
  BY <1>1 DEF FailureLeavesCompletedOnly
<1> QED
  BY <1>2, Invariance, PTL

(* RemoveCluster goes through mongos, config servers and every shard.        *)
THEOREM RemovalComplete == Spec => []RemovalReachesAllGroups
<1>1. ASSUME IInv, phase = "done", mode = "remove", result = "ok", ~blemish, others = 0,
             NEW i \in 1..Len(plan), NEW n \in Node
      PROVE  inst[cluster[plan[i]][n]] \in {"free", "orphan"}
  <2>1. stage = Len(plan) /\ Len(plan) \in Nat /\ at = cluster[plan[stage]]
    BY <1>1, GroupsTyped DEF IInv, PlanInv, TypeOK, group
  <2>2. /\ \A s \in Slot : InCompleted(s) => inst[s] \in {"free", "orphan"}
        /\ GoneBefore(N + 1)
    BY <1>1 DEF IInv, GroupRemovalInv, Undisturbed
  <2>3. CASE i = stage
    BY <2>1, <2>2, <2>3, NAssumption DEF GoneBefore, Node
  <2>4. CASE i \in 1..(stage - 1)
    <3>1. InCompleted(cluster[plan[i]][n])
      BY <2>4 DEF InCompleted
    <3> QED
      BY <1>1, <2>2, <3>1, CompletedTyped DEF IInv
  <2> QED
    BY <2>1, <2>3, <2>4
<1>2. IInv => RemovalReachesAllGroups
  BY <1>1 DEF RemovalReachesAllGroups
<1> QED
  BY <1>2, Invariance, PTL

(* Each group's DropTmpDir empties directories that the group's Scp made.    *)
THEOREM HomeSafe == Spec => []SuccessSparesHomes
<1>1. IInv => SuccessSparesHomes
  BY DEF IInv, NamedHomeInv, HomeInv, SuccessSparesHomes
<1> QED
  BY <1>1, Invariance, PTL
===============================================================================
