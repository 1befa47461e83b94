-------------------------- MODULE RedisClusterProofs --------------------------
(***************************************************************************)
(* Theorems about "dbup redis-cluster", for every number of nodes, masters *)
(* and hash slots.  A deployment takes steps of the pipeline, so that the  *)
(* pipeline's invariants hold of it; AddNode takes the same steps for one  *)
(* node, restated here with the new node's place in them.                  *)
(***************************************************************************)
EXTENDS RedisCluster, DeployPipelineProofs

USE DEF Phase, Result, runVars, hostVars, histVars

ManagerPhase == {"done", "connect", "checktmp", "scp", "checkenv", "install", "post",
                 "verify", "uninstall", "drop", "forget"}

(* The phases in which AddNode works. *)
Adding == mphase \notin {"done", "forget"}

-------------------------------------------------------------------------------
(* AddNode's pipeline has one node: every loop is left after its first round. *)
mHistVars == <<before, others, runs>>

NewConnect ==
  /\ mphase = "connect"
  /\ \/ mphase' = "checktmp" /\ UNCHANGED mresult
     \/ mphase' = "done" /\ mresult' = "err"
  /\ UNCHANGED <<mlost, hostVars, mHistVars, mblemish>>

NewCheckTmpDir ==
  /\ mphase = "checktmp"
  /\ \/ mphase' = "scp" /\ UNCHANGED mresult
     \/ mphase' = "done" /\ mresult' = "err"
  /\ UNCHANGED <<mlost, hostVars, mHistVars, mblemish>>

NewScp ==
  /\ mphase = "scp"
  /\ \E t \in TmpState : tmp' = [tmp EXCEPT ![SlotHost[newcomer]] = t]
  /\ \/ mphase' = "checkenv" /\ UNCHANGED mresult
     \/ mphase' = "drop" /\ mresult' = "err"
  /\ UNCHANGED <<mlost, home, inst, mHistVars, mblemish>>

NewCheckEnv ==
  /\ mphase = "checkenv"
  /\ \/ inst[newcomer] = "free" /\ mphase' = "install" /\ UNCHANGED mresult
     \/ mphase' = "drop" /\ mresult' = "err"
  /\ UNCHANGED <<mlost, hostVars, mHistVars, mblemish>>

NewInstall ==
  /\ mphase = "install"
  /\ \E i \in InstState : inst' = [inst EXCEPT ![newcomer] = i]
  /\ mblemish' \in BOOLEAN
  /\ \/ mphase' = "post" /\ UNCHANGED mresult
     \/ mphase' = "uninstall" /\ mresult' = "err"
  /\ UNCHANGED <<mlost, tmp, home, mHistVars>>

NewUNInstall ==
  /\ mphase = "uninstall"
  /\ \E i \in InstState : inst' = [inst EXCEPT ![newcomer] = i]
  /\ mblemish' \in BOOLEAN
  /\ mphase' = "drop"
  /\ UNCHANGED <<mresult, mlost, tmp, home, mHistVars>>

NewDropTmpDir ==
  /\ mphase = "drop"
  /\ tmp' \in [Host -> TmpState] /\ home' \in [Host -> {"intact", "wiped"}]
  /\ mblemish' \in BOOLEAN
  /\ mphase' = "done"
  /\ mresult' = IF mresult = "none" THEN "ok" ELSE mresult
  /\ UNCHANGED <<mlost, inst, mHistVars>>

NewStep ==
  \/ NewConnect \/ NewCheckTmpDir \/ NewScp \/ NewCheckEnv
  \/ NewInstall \/ NewUNInstall \/ NewDropTmpDir

LEMMA SameResults ==
  /\ \A t : M!ScpResults(t) = ScpResults(t) /\ M!AfterDropTmpDir(t) = AfterDropTmpDir(t)
  /\ \A i : M!InstallResults(i) = InstallResults(i) /\ M!UNInstallResults(i) = UNInstallResults(i)
<1>1. M!TmpState = TmpState /\ M!InstState = InstState
  BY DEF M!TmpState, TmpState, M!InstState, InstState
<1>2. \A t : M!ScpResults(t) = ScpResults(t)
  BY DEF M!ScpResults, ScpResults
<1>3. \A t : M!AfterDropTmpDir(t) = AfterDropTmpDir(t)
  BY DEF M!AfterDropTmpDir, AfterDropTmpDir, M!CdFails, CdFails
<1>4. \A i : M!InstallResults(i) = InstallResults(i)
  BY <1>1 DEF M!InstallResults, InstallResults, M!CheckEnvOK, CheckEnvOK
<1>5. \A i : M!UNInstallResults(i) = UNInstallResults(i)
  BY DEF M!UNInstallResults, UNInstallResults
<1> QED
  BY <1>2, <1>3, <1>4, <1>5

LEMMA NewSteps ==
  ASSUME TypeOK,
         \/ M!Connect \/ M!CheckTmpDir \/ M!Scp \/ M!CheckEnv
         \/ M!Install \/ M!UNInstall \/ M!DropTmpDir
  PROVE  NewStep
<1> USE DEF NewStep, mHistVars, M!runVars, M!hostVars, M!histVars
<1>0. newcomer \in Slot /\ SlotHost[newcomer] \in Host /\ <<newcomer>>[1] = newcomer
  BY PlacesAssumption DEF TypeOK
<1>a. tmp[SlotHost[newcomer]] \in TmpState /\ inst[newcomer] \in InstState
  BY <1>0 DEF TypeOK, PipelineTypeOK
<1>b. \A p : M!NextNode(p) => mphase' = p
  BY DEF M!NextNode
<1>c. /\ M!FailInstallation => mphase' = "uninstall" /\ mresult' = "err"
      /\ \A p : M!Goto(p) => mphase' = p
  BY DEF M!FailInstallation, M!Goto
<1>1. CASE M!Connect
  BY <1>1 DEF M!Connect, M!NextNode, M!Return, M!Goto, NewConnect
<1>2. CASE M!CheckTmpDir
  BY <1>2 DEF M!CheckTmpDir, M!CheckTmpDirElse, M!NextNode, M!Goto, NewCheckTmpDir
<1>3. CASE M!Scp
  <2>1. PICK r \in (IF M!NoSftp(1) THEN {[tmp |-> tmp[SlotHost[newcomer]], ok |-> FALSE]}
                                   ELSE ScpResults(tmp[SlotHost[newcomer]])) :
          /\ tmp' = [tmp EXCEPT ![SlotHost[newcomer]] = r.tmp]
          /\ \/ mphase' = "checkenv" /\ UNCHANGED mresult
             \/ mphase' = "drop" /\ mresult' = "err"
    BY <1>0, <1>3, <1>b, <1>c, SameResults, Zenon DEF M!Scp, M!ScpElse, M!HostAt
  <2>2. r.tmp \in TmpState
    BY <1>a, <2>1, ResultsTyped
  <2>3. mphase = "scp" /\ UNCHANGED <<mlost, home, inst, mHistVars, mblemish>>
    BY <1>3 DEF M!Scp, M!ScpElse
  <2> QED
    BY <2>1, <2>2, <2>3 DEF NewScp
<1>4. CASE M!CheckEnv
  BY <1>0, <1>4 DEF M!CheckEnv, M!CheckEnvOK, M!NextNode, M!Goto, NewCheckEnv
<1>5. CASE M!Install
  <2>1. PICK r \in (IF M!NoShell(1) THEN {[inst |-> inst[newcomer], ok |-> FALSE]}
                                   ELSE InstallResults(inst[newcomer])) :
          /\ inst' = [inst EXCEPT ![newcomer] = r.inst]
          /\ mblemish' = (mblemish \/ r.inst = "orphan")
          /\ \/ mphase' = "post" /\ UNCHANGED mresult
             \/ mphase' = "uninstall" /\ mresult' = "err"
    BY <1>0, <1>5, <1>b, <1>c, SameResults, Zenon DEF M!Install, M!Mark
  <2>2. r.inst \in InstState
    BY <1>a, <2>1, ResultsTyped
  <2>3. mphase = "install" /\ UNCHANGED <<mlost, tmp, home, mHistVars>>
    BY <1>5 DEF M!Install
  <2>4. mblemish' \in BOOLEAN
    BY <2>1, Zenon
  <2> QED
    BY <2>1, <2>2, <2>3, <2>4 DEF NewInstall
<1>6. CASE M!UNInstall
  <2>1. PICK r \in (IF M!NoShell(1) THEN {[inst |-> inst[newcomer], ok |-> FALSE]}
                                   ELSE UNInstallResults(inst[newcomer])) :
          /\ inst' = [inst EXCEPT ![newcomer] = r.inst]
          /\ mblemish' = (mblemish \/ ~r.ok)
          /\ mphase' = "drop"
    BY <1>0, <1>6, <1>b, SameResults, Zenon DEF M!UNInstall, M!UNInstallThen, M!Mark
  <2>2. r.inst \in InstState
    BY <1>a, <2>1, ResultsTyped
  <2>3. mphase = "uninstall" /\ UNCHANGED <<mresult, mlost, tmp, home, mHistVars>>
    BY <1>6 DEF M!UNInstall, M!UNInstallThen
  <2>4. mblemish' \in BOOLEAN
    BY <2>1, Zenon
  <2> QED
    BY <2>1, <2>2, <2>3, <2>4 DEF NewUNInstall
<1>7. CASE M!DropTmpDir
  <2>1. tmp' \in [Host -> TmpState] /\ home' \in [Host -> {"intact", "wiped"}]
    <3>1. CASE UNCHANGED <<tmp, home>>
      BY <3>1 DEF TypeOK, PipelineTypeOK
    <3>2. CASE /\ tmp'  = [tmp EXCEPT ![SlotHost[newcomer]] = AfterDropTmpDir(tmp[SlotHost[newcomer]])]
               /\ home' = [home EXCEPT ![SlotHost[newcomer]] =
                            IF M!CdFails(tmp[SlotHost[newcomer]]) THEN "wiped" ELSE @]
      BY <1>0, <1>a, <3>2, ResultsTyped DEF TypeOK, PipelineTypeOK, M!CdFails
    <3> QED
      BY <1>0, <1>7, <3>1, <3>2, SameResults DEF M!DropTmpDir, M!EmptyTmpDir, M!HostAt
  <2>2. mblemish' \in BOOLEAN
    BY <1>7 DEF M!DropTmpDir, M!EmptyTmpDir, M!Mark, TypeOK
  <2>3. /\ mphase = "drop" /\ mphase' = "done"
        /\ mresult' = IF mresult = "none" THEN "ok" ELSE mresult
        /\ UNCHANGED <<mlost, inst, mHistVars>>
    BY <1>7 DEF M!DropTmpDir, M!EmptyTmpDir, M!Return, M!Goto
  <2> QED
    BY <2>1, <2>2, <2>3 DEF NewDropTmpDir
<1> QED
  BY <1>1, <1>2, <1>3, <1>4, <1>5, <1>6, <1>7
-------------------------------------------------------------------------------
(* The machines' part, the manager's part and the cluster's part of TypeOK. *)
ManagerTyped ==
  /\ mphase \in ManagerPhase
  /\ newcomer \in Slot /\ role \in {"master", "slave"} /\ noRollback \in BOOLEAN
  /\ mresult \in Result /\ mlost \subseteq {1} \X Channel /\ mblemish \in BOOLEAN
  /\ todo \subseteq Slot /\ listed \subseteq Slot /\ dead \subseteq Slot
  /\ banned \in [Slot -> SUBSET Slot] /\ excused \in [Slot -> SUBSET Slot]

ClusterTyped ==
  /\ view \in [Slot -> SUBSET Slot] /\ owner \in [HashSlot -> Slot \cup {Nobody}]
  /\ \A s \in Slot : view[s] # {} => Up(s) /\ s \in view[s]
  /\ \A h \in HashSlot : owner[h] # Nobody => Up(owner[h])

LEMMA TypeParts == TypeOK <=> PipelineTypeOK /\ ManagerTyped /\ ClusterTyped
  BY DEF TypeOK, ManagerTyped, ManagerPhase, ClusterTyped

(* A deployment's own steps are steps of the pipeline. *)
LEMMA MainStep ==
  ASSUME TypeOK, Run \/ RemoveCluster \/ Deployment
  PROVE  PipelineNext /\ UNCHANGED managerVars
<1>1. CASE Run
  BY <1>1, Zenon DEF Run, PipelineNext, Mode
<1>2. CASE RemoveCluster
  BY <1>2, Zenon DEF RemoveCluster, PipelineNext, Mode
<1>3. CASE CreateCluster
  <2>1. /\ phase = "post" /\ UNCHANGED <<mode, keep, at, lost, hostVars, histVars>>
        /\ UNCHANGED managerVars
    BY <1>3, Zenon DEF CreateCluster
  <2>2. (Goto("drop") /\ UNCHANGED result) \/ FailInstallation
    BY <1>3, Zenon DEF CreateCluster
  <2>3. Goto("drop") => phase' = "drop" /\ cursor' = 1 /\ 1 \in Node
    BY NAssumption DEF Goto, Node
  <2> QED
    BY <2>1, <2>2, <2>3 DEF PipelineNext, ProductStep
<1>4. CASE /\ Connect \/ CheckTmpDir \/ Scp \/ CheckEnv \/ Install \/ UNInstall \/ DropTmpDir
           /\ KeepCluster /\ UNCHANGED managerVars
  BY <1>4, Zenon DEF PipelineNext, PipelineStep
<1> QED
  BY <1>1, <1>2, <1>3, <1>4, Zenon DEF Deployment

LEMMA KeepTyped ==
  ASSUME TypeOK, KeepCluster
  PROVE  ClusterTyped'
<1>1. view' \in [Slot -> SUBSET Slot]
  BY DEF KeepCluster, TypeOK
<1>2. owner' \in [HashSlot -> Slot \cup {Nobody}]
  BY DEF KeepCluster, TypeOK
<1>3. \A s \in Slot : view'[s] # {} => inst'[s] = "up" /\ s \in view'[s]
  BY DEF KeepCluster, TypeOK
<1>4. \A h \in HashSlot : owner'[h] # Nobody => inst'[owner'[h]] = "up"
  BY DEF KeepCluster, TypeOK
<1> QED
  BY <1>1, <1>2, <1>3, <1>4 DEF ClusterTyped, Up

LEMMA PlacesOfNodes ==
  ASSUME TypeOK
  PROVE  /\ {at[n] : n \in Node} \subseteq Slot
         /\ {at[n] : n \in 1..Masters} \subseteq {at[n] : n \in Node}
         /\ at[1] \in Slot
  BY NAssumption, MastersAssumption DEF TypeOK, PipelineTypeOK, Node

LEMMA CreateClusterTyped ==
  ASSUME TypeOK, CreateCluster
  PROVE  ClusterTyped'
<1> DEFINE all == {at[n] : n \in Node}
           masters == {at[n] : n \in 1..Masters}
<1>0. all \subseteq Slot /\ masters \subseteq all /\ at[1] \in Slot
  BY PlacesOfNodes
<1>a. UNCHANGED inst
  BY DEF CreateCluster
<1>1. CASE /\ \A s \in all : Up(s) /\ view[s] = {}
           /\ owner' \in [HashSlot -> masters]
           /\ view' = [s \in Slot |-> IF s \in all THEN all ELSE view[s]]
  <2> HIDE DEF all, masters
  <2>1. view' \in [Slot -> SUBSET Slot] /\ owner' \in [HashSlot -> Slot \cup {Nobody}]
    BY <1>0, <1>1 DEF TypeOK
  <2>2. \A s \in Slot : view'[s] # {} => inst'[s] = "up" /\ s \in view'[s]
    BY <1>0, <1>1, <1>a DEF TypeOK, Up
  <2>3. \A h \in HashSlot : owner'[h] # Nobody => inst'[owner'[h]] = "up"
    BY <1>0, <1>1, <1>a DEF TypeOK, Up
  <2> QED
    BY <2>1, <2>2, <2>3 DEF ClusterTyped, Up
<1>2. ASSUME NEW met \in SUBSET all, NEW given \in SUBSET HashSlot,
             view' = [s \in Slot |-> IF s \in met /\ Up(s) THEN met ELSE view[s]],
             owner' = [h \in HashSlot |-> IF h \in given /\ Up(at[1]) THEN at[1] ELSE owner[h]]
      PROVE  ClusterTyped'
  <2>0. met \subseteq Slot
    BY <1>0
  <2> HIDE DEF all, masters
  <2>1. view' \in [Slot -> SUBSET Slot] /\ owner' \in [HashSlot -> Slot \cup {Nobody}]
    BY <1>0, <2>0, <1>2 DEF TypeOK
  <2>2. \A s \in Slot : view'[s] # {} => inst'[s] = "up" /\ s \in view'[s]
    BY <1>2, <1>a DEF TypeOK, Up
  <2>3. \A h \in HashSlot : owner'[h] # Nobody => inst'[owner'[h]] = "up"
    BY <1>2, <1>a DEF TypeOK, Up
  <2> QED
    BY <2>1, <2>2, <2>3 DEF ClusterTyped, Up
<1> QED
  BY <1>1, <1>2, Zenon DEF CreateCluster

(* What a join or gossip makes an instance list has that instance in it. *)
LEMMA JoinTyped ==
  ASSUME TypeOK, NEW ok \in BOOLEAN, Join(ok), UNCHANGED <<inst, owner>>
  PROVE  ClusterTyped'
<1>1. PICK e \in Members \ {newcomer} :
        view' = [s \in Slot |->
          IF Up(s) /\ s \in view[e] \cup {newcomer} THEN view[e] \cup {newcomer} ELSE view[s]]
  BY Zenon DEF Join
<1>2. view[e] \cup {newcomer} \subseteq Slot
  BY <1>1 DEF TypeOK, Members
<1>3. view' \in [Slot -> SUBSET Slot] /\ owner' \in [HashSlot -> Slot \cup {Nobody}]
  BY <1>1, <1>2 DEF TypeOK
<1>4. \A s \in Slot : view'[s] # {} => inst'[s] = "up" /\ s \in view'[s]
  BY <1>1 DEF TypeOK, Up
<1>5. \A h \in HashSlot : owner'[h] # Nobody => inst'[owner'[h]] = "up"
  BY DEF TypeOK, Up
<1> QED
  BY <1>3, <1>4, <1>5 DEF ClusterTyped, Up

LEMMA MembersUp ==
  ASSUME TypeOK, NEW e \in Members
  PROVE  e \in Slot /\ Up(e) /\ e \in view[e] /\ view[e] \subseteq Slot
  BY DEF Members, TypeOK

(* A visit forgets some, never the member itself.                             *)
LEMMA VisitForgets ==
  ASSUME TypeOK, ClusterForget
  PROVE  \/ UNCHANGED view
         \/ \E s \in todo : \E gone \in SUBSET Slot :
              (gone # {} => Up(s) /\ s \notin gone) /\ view' = [view EXCEPT ![s] = @ \ gone]
<1>1. ASSUME NEW s \in todo, Up(s), Forgets(s)
      PROVE  \E gone \in SUBSET Slot :
               (gone # {} => Up(s) /\ s \notin gone) /\ view' = [view EXCEPT ![s] = @ \ gone]
  <2>1. PICK flagged \in SUBSET (view[s] \ {s}) : view' = [view EXCEPT ![s] = @ \ flagged]
    BY <1>1, Zenon DEF Forgets
  <2>2. flagged \in SUBSET Slot /\ s \notin flagged
    BY DEF TypeOK
  <2> QED
    BY <1>1, <2>1, <2>2, Zenon
<1> QED
  BY <1>1, Zenon DEF ClusterForget

LEMMA ClusterPreserved ==
  ASSUME TypeOK, [Next]_vars
  PROVE  ClusterTyped'
<1>1. CASE Run \/ RemoveCluster
  BY <1>1, KeepTyped DEF Run, RemoveCluster
<1>2. CASE Deployment
  BY <1>2, KeepTyped, CreateClusterTyped DEF Deployment
<1>3. CASE UNCHANGED <<inst, clusterVars>>
  <2>1. ClusterTyped
    BY DEF TypeOK, ClusterTyped
  <2> QED
    BY <1>3, <2>1 DEF ClusterTyped, clusterVars, Up
<1>4. CASE AddNode \/ AddNodeLosesConnection \/ UNCHANGED vars
  BY <1>3, <1>4 DEF AddNode, AddNodeLosesConnection, vars, pipeVars
<1>5. CASE ClusterAddNode
  <2>1. UNCHANGED <<inst, owner>>
    BY <1>5 DEF ClusterAddNode, pipeVars
  <2> QED
    BY <1>3, <1>5, <2>1, JoinTyped DEF ClusterAddNode, clusterVars
<1>6. CASE ClusterReBalance
  <2>1. PICK moved \in SUBSET HashSlot :
          /\ moved # {} => Up(newcomer) /\ Covered
          /\ owner' = [h \in HashSlot |-> IF h \in moved THEN newcomer ELSE owner[h]]
    BY <1>6, Zenon DEF ClusterReBalance
  <2>2. UNCHANGED <<inst, view>>
    BY <1>6 DEF ClusterReBalance, pipeVars
  <2> QED
    BY <2>1, <2>2 DEF ClusterTyped, TypeOK, Up
<1>7. CASE AddingNode /\ KeepCluster
  BY <1>7, KeepTyped
<1>8. CASE RedisClusterFix
  <2>1. UNCHANGED <<inst, view>>
    BY <1>8 DEF RedisClusterFix
  <2>2. CASE UNCHANGED owner
    BY <1>3, <2>1, <2>2 DEF clusterVars
  <2>3. ASSUME NEW e \in Members, NEW given, NEW f \in [HashSlot -> {s \in view[e] : Up(s)}],
               owner' = [h \in HashSlot |-> IF h \in given THEN f[h] ELSE owner[h]]
        PROVE  ClusterTyped'
    <3>1. \A h \in HashSlot : f[h] \in Slot /\ Up(f[h])
      BY MembersUp
    <3> QED
      BY <2>1, <2>3, <3>1 DEF ClusterTyped, TypeOK, Up
  <2> QED
    BY <1>8, <2>2, <2>3, ZenonT(30) DEF RedisClusterFix
<1>9. CASE ClusterForget
  <2>1. UNCHANGED <<inst, owner>>
    BY <1>9 DEF ClusterForget, fixSame, pipeVars
  <2>2. CASE UNCHANGED view
    BY <1>3, <2>1, <2>2 DEF clusterVars
  <2>3. ASSUME NEW s \in todo, NEW gone, gone # {} => Up(s) /\ s \notin gone,
               view' = [view EXCEPT ![s] = @ \ gone]
        PROVE  ClusterTyped'
    <3>1. s \in Slot /\ s \notin gone
      BY <2>3 DEF TypeOK
    <3>2. view' \in [Slot -> SUBSET Slot]
      BY <2>3, <3>1 DEF TypeOK
    <3>3. \A x \in Slot : view'[x] # {} => Up(x) /\ x \in view'[x]
      BY <2>3, <3>1 DEF TypeOK
    <3> QED
      BY <2>1, <3>2, <3>3 DEF ClusterTyped, TypeOK, Up
  <2>4. \/ UNCHANGED view
        \/ \E s \in todo : \E gone \in SUBSET Slot :
             (gone # {} => Up(s) /\ s \notin gone) /\ view' = [view EXCEPT ![s] = @ \ gone]
    BY <1>9, VisitForgets
  <2> QED
    BY <2>2, <2>3, <2>4
<1>10. CASE MemberDies
  BY <1>10, KeepTyped DEF MemberDies
<1>11. CASE Gossip
  <2>1. PICK s \in Members, e \in Members :
          view' = [view EXCEPT ![s] = @ \cup (view[e] \ banned[s])]
    BY <1>11, Zenon DEF Gossip
  <2>2. UNCHANGED <<inst, owner>>
    BY <1>11 DEF Gossip, pipeVars
  <2>3. s \in Slot /\ Up(s) /\ s \in view[s] /\ view[e] \subseteq Slot
    BY MembersUp
  <2>4. view' \in [Slot -> SUBSET Slot]
    BY <2>1, <2>3 DEF TypeOK
  <2>5. \A x \in Slot : view'[x] # {} => Up(x) /\ x \in view'[x]
    BY <2>1, <2>3 DEF TypeOK
  <2> QED
    BY <2>2, <2>4, <2>5 DEF ClusterTyped, TypeOK, Up
<1>12. CASE BanEnds
  BY <1>3, <1>12 DEF BanEnds, fixSame, pipeVars
<1> QED
  BY <1>1, <1>2, <1>4, <1>5, <1>6, <1>7, <1>8, <1>9, <1>10, <1>11, <1>12, Zenon DEF Next,
     AddingNode

(* What a step of AddNode changes. *)
LEMMA AddingStep ==
  ASSUME TypeOK, AddingNode
  PROVE  /\ UNCHANGED <<runVars, lost, blemish, newcomer, role, noRollback, fixVars>>
         /\ \/ NewStep /\ KeepCluster
            \/ (ClusterAddNode \/ ClusterReBalance) /\ UNCHANGED <<pipeVars, mlost, mblemish>>
<1>1. CASE ClusterAddNode \/ ClusterReBalance
  BY <1>1 DEF ClusterAddNode, ClusterReBalance, pipeVars
<1>2. CASE /\ UNCHANGED <<runVars, lost, blemish, newcomer, role, noRollback, fixVars>>
           /\ \/ M!Connect \/ M!CheckTmpDir \/ M!Scp \/ M!CheckEnv
              \/ M!Install \/ M!UNInstall \/ M!DropTmpDir
           /\ KeepCluster
  BY <1>2, NewSteps
<1> QED
  BY <1>1, <1>2, Zenon DEF AddingNode

(* ClusterAddNode and ClusterReBalance on the manager's variables. *)
LEMMA AddingOutcome ==
  ASSUME ClusterAddNode \/ ClusterReBalance
  PROVE  /\ mphase \in {"post", "verify"}
         /\ \/ mphase' \in {"verify", "drop"} /\ UNCHANGED mresult
            \/ mphase' = "uninstall" /\ mresult' = "err"
  BY DEF ClusterAddNode, ClusterReBalance, M!FailInstallation, M!Goto

LEMMA NewStepTyped ==
  ASSUME TypeOK, NewStep, UNCHANGED <<runVars, lost, blemish>>
  PROVE  PipelineTypeOK' /\ mphase' \in ManagerPhase /\ mresult' \in Result
         /\ mlost' \subseteq {1} \X Channel /\ mblemish' \in BOOLEAN
<1>0. newcomer \in Slot /\ SlotHost[newcomer] \in Host
  BY PlacesAssumption DEF TypeOK
<1>1. tmp' \in [Host -> TmpState]
  BY <1>0 DEF NewStep, NewConnect, NewCheckTmpDir, NewScp, NewCheckEnv, NewInstall,
              NewUNInstall, NewDropTmpDir, TypeOK, PipelineTypeOK
<1>2. inst' \in [Slot -> InstState]
  BY <1>0 DEF NewStep, NewConnect, NewCheckTmpDir, NewScp, NewCheckEnv, NewInstall,
              NewUNInstall, NewDropTmpDir, TypeOK, PipelineTypeOK
<1>3. home' \in [Host -> {"intact", "wiped"}]
  BY DEF NewStep, NewConnect, NewCheckTmpDir, NewScp, NewCheckEnv, NewInstall,
         NewUNInstall, NewDropTmpDir, TypeOK, PipelineTypeOK
<1>4. UNCHANGED <<mHistVars, mlost>>
  BY DEF NewStep, NewConnect, NewCheckTmpDir, NewScp, NewCheckEnv, NewInstall,
         NewUNInstall, NewDropTmpDir, mHistVars
<1>5. mphase' \in ManagerPhase /\ mresult' \in Result
  BY DEF NewStep, NewConnect, NewCheckTmpDir, NewScp, NewCheckEnv, NewInstall,
         NewUNInstall, NewDropTmpDir, TypeOK, ManagerPhase
<1>6. mblemish' \in BOOLEAN
  BY DEF NewStep, NewConnect, NewCheckTmpDir, NewScp, NewCheckEnv, NewInstall,
         NewUNInstall, NewDropTmpDir, TypeOK
<1> QED
  BY <1>1, <1>2, <1>3, <1>4, <1>5, <1>6 DEF TypeOK, PipelineTypeOK, mHistVars

LEMMA MachinesPreserved ==
  ASSUME TypeOK, [Next]_vars
  PROVE  PipelineTypeOK'
<1>1. CASE UNCHANGED pipeVars
  BY <1>1 DEF TypeOK, PipelineTypeOK, pipeVars
<1>2. CASE Run \/ RemoveCluster \/ Deployment
  BY <1>2, MainStep, PipelineTyped DEF TypeOK
<1>3. CASE AddNode
  <2>1. before' \in Snapshot
    BY <1>3 DEF AddNode, TypeOK, PipelineTypeOK, Snapshot
  <2> QED
    BY <1>3, <2>1 DEF AddNode, TypeOK, PipelineTypeOK
<1>4. CASE AddingNode
  BY <1>1, <1>4, AddingStep, NewStepTyped
<1>5. CASE AddNodeLosesConnection \/ RedisClusterFix
  BY <1>5 DEF AddNodeLosesConnection, RedisClusterFix, TypeOK, PipelineTypeOK
<1>6. CASE MemberDies
  <2>1. inst' \in [Slot -> InstState]
    BY <1>6, MembersUp DEF MemberDies, TypeOK, PipelineTypeOK, InstState
  <2> QED
    BY <1>6, <2>1 DEF MemberDies, TypeOK, PipelineTypeOK
<1> QED
  BY <1>1, <1>2, <1>3, <1>4, <1>5, <1>6, Zenon
     DEF Next, ClusterForget, Gossip, BanEnds, fixSame, vars

LEMMA NoOneTyped == NoOne \in [Slot -> SUBSET Slot]
  BY DEF NoOne

LEMMA EndTyped ==
  ASSUME NEW r \in Result, EndFix(r)
  PROVE  /\ mphase' = "done" /\ mresult' \in Result
         /\ todo' \subseteq Slot /\ listed' \subseteq Slot /\ dead' \subseteq Slot
         /\ banned' \in [Slot -> SUBSET Slot] /\ excused' \in [Slot -> SUBSET Slot]
  BY NoOneTyped DEF EndFix

LEMMA ManagerPreserved ==
  ASSUME TypeOK, [Next]_vars
  PROVE  ManagerTyped'
<1> USE DEF ManagerPhase
<1>1. CASE UNCHANGED managerVars
  BY <1>1 DEF TypeOK, ManagerTyped, managerVars, fixVars
<1>2. CASE Run \/ RemoveCluster \/ Deployment
  BY <1>1, <1>2, MainStep
<1>3. CASE AddNode
  <2>1. noRollback' \in BOOLEAN /\ mblemish' \in BOOLEAN
    BY <1>3, Zenon DEF AddNode
  <2>2. newcomer' \in Slot /\ role' \in {"master", "slave"} /\ mlost' = {}
    BY <1>3 DEF AddNode
  <2>3. mphase' \in ManagerPhase /\ mresult' \in Result
    BY <1>3 DEF AddNode
  <2>4. UNCHANGED fixVars
    BY <1>3 DEF AddNode
  <2> QED
    BY <2>1, <2>2, <2>3, <2>4 DEF TypeOK, ManagerTyped, fixVars
<1>4. CASE AddingNode
  <2>1. CASE ClusterAddNode \/ ClusterReBalance
    <3>1. UNCHANGED <<newcomer, role, noRollback, mlost, mblemish, fixVars>>
      BY <2>1 DEF ClusterAddNode, ClusterReBalance
    <3> QED
      BY <2>1, <3>1, AddingOutcome DEF TypeOK, ManagerTyped, fixVars
  <2>2. CASE NewStep
    BY <1>4, <2>2, AddingStep, NewStepTyped DEF TypeOK, ManagerTyped, fixVars
  <2> QED
    BY <1>4, <2>1, <2>2, AddingStep
<1>5. CASE AddNodeLosesConnection
  <2>1. mlost' \subseteq {1} \X Channel
    <3>1. PICK c \in {Channel, {"sftp"}, {"ssh"}} : mlost' = mlost \cup ({1} \X c)
      BY <1>5, Zenon DEF AddNodeLosesConnection
    <3> QED
      BY <3>1 DEF TypeOK, Channel
  <2> QED
    BY <1>5, <2>1 DEF AddNodeLosesConnection, fixVars, TypeOK, ManagerTyped
<1>6. CASE RedisClusterFix
  <2>1. CASE EndFix("err")
    BY <1>6, <2>1, EndTyped DEF RedisClusterFix, TypeOK, ManagerTyped
  <2>2. ASSUME NEW e \in Members, NEW flagged, todo' = view[e] \ flagged, listed' = todo',
               dead' = {s \in Slot : ~Up(s)}, banned' = NoOne, excused' = NoOne,
               mphase' = "forget", mresult' = "none"
        PROVE  ManagerTyped'
    <3>1. todo' \subseteq Slot
      BY <2>2, MembersUp
    <3> QED
      BY <1>6, <2>2, <3>1, NoOneTyped DEF RedisClusterFix, TypeOK, ManagerTyped
  <2> QED
    BY <1>6, <2>1, <2>2, Zenon DEF RedisClusterFix
<1>7. CASE ClusterForget
  <2>0. UNCHANGED <<newcomer, role, noRollback, mlost, mblemish>>
    BY <1>7 DEF ClusterForget, fixSame
  <2>1. CASE EndFix("err") \/ EndFix("ok")
    BY <2>0, <2>1, EndTyped DEF TypeOK, ManagerTyped
  <2>2. ASSUME NEW s \in todo, Forgets(s), todo' = todo \ {s},
               UNCHANGED <<mphase, mresult, listed, dead>>
        PROVE  ManagerTyped'
    <3>1. banned' \in [Slot -> SUBSET Slot] /\ excused' \in [Slot -> SUBSET Slot]
      BY <2>2 DEF Forgets, TypeOK
    <3> QED
      BY <2>0, <2>2, <3>1 DEF TypeOK, ManagerTyped
  <2> QED
    BY <1>7, <2>1, <2>2, Zenon DEF ClusterForget
<1>8. CASE BanEnds
  <2>1. banned' \in [Slot -> SUBSET Slot] /\ excused' \in [Slot -> SUBSET Slot]
    BY <1>8 DEF BanEnds, TypeOK
  <2> QED
    BY <1>8, <2>1 DEF BanEnds, fixSame, TypeOK, ManagerTyped
<1> QED
  BY <1>1, <1>2, <1>3, <1>4, <1>5, <1>6, <1>7, <1>8, Zenon DEF Next, MemberDies, Gossip, vars

LEMMA ClusterTypePreserved == TypeOK /\ [Next]_vars => TypeOK'
<1> SUFFICES ASSUME TypeOK, [Next]_vars PROVE TypeOK'
  OBVIOUS
<1>1. (PipelineTypeOK /\ ManagerTyped /\ ClusterTyped)' => TypeOK'
  BY DEF TypeOK, ManagerTyped, ManagerPhase, ClusterTyped
<1> QED
  BY <1>1, MachinesPreserved, ManagerPreserved, ClusterPreserved
-------------------------------------------------------------------------------
(* One command runs at a time. *)
ExclInv == phase # "done" => mphase = "done"

(* AddNode's result is open until the clean-up begins; a rollback is an error. *)
AddResultInv ==
  /\ mphase \in {"connect", "checktmp", "scp", "checkenv", "install", "post", "verify"} =>
       mresult = "none"
  /\ mphase = "uninstall" => mresult = "err"
  /\ mphase = "drop" => mresult \in {"none", "err"}

(* While no instance dies, a deployment leaves what ran when it began, and so *)
(* does AddNode, whose place was free then, once CheckEnv has passed it.      *)
CalmPriorInv == others = 0 => PriorInv

AddPriorInv ==
  Adding /\ others = 0 =>
    /\ \A s \in Slot : before.inst[s] # "free" => inst[s] = before.inst[s]
    /\ mphase \in {"install", "post", "verify", "uninstall"} => before.inst[newcomer] = "free"

(* The cluster is there from CreateCluster on. *)
Serves ==
  /\ \A n \in Node : view[at[n]] = {at[m] : m \in Node}
  /\ \A h \in HashSlot : \E n \in 1..Masters : owner[h] = at[n]

ServesInv ==
  phase = "drop" /\ mode = "deploy" /\ result = "none" /\ others = 0 => Serves

(* The new node is a member from ClusterAddNode on, and a new master holds    *)
(* hash slots from ClusterReBalance on.                                       *)
Joined ==
  Up(newcomer) /\ \E e \in Members \ {newcomer} : newcomer \in view[e] /\ e \in view[newcomer]

JoinedInv ==
  mphase \in {"verify", "drop"} /\ mresult = "none" /\ others = 0 =>
    /\ Joined
    /\ mphase = "drop" /\ role = "master" => Covered /\ \E h \in HashSlot : owner[h] = newcomer

(* A member the fix has visited lists no dead one but those it is excused     *)
(* for; the others it goes on banning, so gossip does not bring them back.  A *)
(* member that dies meanwhile is one more than those that were down.          *)
Down == {s \in Slot : ~Up(s)}

Rid(s) == view[s] \cap dead \subseteq excused[s] /\ dead \subseteq excused[s] \cup banned[s]

FixInv ==
  mphase = "forget" =>
    /\ dead \subseteq Down
    /\ dead = Down => Covered
    /\ \A s \in listed \ todo : Rid(s)

IInv ==
  /\ TypeOK /\ ExclInv /\ ResultInv /\ AddResultInv /\ CalmPriorInv /\ AddPriorInv
  /\ ServesInv /\ JoinedInv /\ FixInv

-------------------------------------------------------------------------------
(* The steps that belong to neither command. *)
OtherStep ==
  \/ AddNodeLosesConnection \/ RedisClusterFix \/ ClusterForget \/ MemberDies
  \/ Gossip \/ BanEnds

LEMMA OtherFrame ==
  ASSUME OtherStep \/ AddNode
  PROVE  UNCHANGED <<runVars, lost, blemish>>
  BY DEF OtherStep, AddNodeLosesConnection, RedisClusterFix, ClusterForget, fixSame, MemberDies,
         Gossip, BanEnds, AddNode, pipeVars

LEMMA NextSplit ==
  ASSUME [Next]_vars
  PROVE  \/ Run \/ RemoveCluster \/ Deployment
         \/ AddNode \/ AddingNode \/ OtherStep \/ UNCHANGED vars
  BY Zenon DEF Next, OtherStep

(* A deployment begins when no other command runs. *)
LEMMA MainPhase ==
  ASSUME TypeOK, Run \/ RemoveCluster \/ Deployment
  PROVE  phase = "done" => mphase = "done"
<1>1. CASE Run \/ RemoveCluster
  BY <1>1 DEF Run, RemoveCluster
<1>2. CASE Deployment
  BY <1>2 DEF Deployment, CreateCluster, Connect, CheckTmpDir, CheckTmpDirElse, Scp, ScpElse,
              CheckEnv, Install, UNInstall, UNInstallThen, DropTmpDir, EmptyTmpDir
<1> QED
  BY <1>1, <1>2

LEMMA AddingPhase ==
  ASSUME TypeOK, AddingNode
  PROVE  mphase \notin {"done", "forget"}
<1>1. CASE NewStep
  BY <1>1 DEF NewStep, NewConnect, NewCheckTmpDir, NewScp, NewCheckEnv, NewInstall,
              NewUNInstall, NewDropTmpDir
<1>2. CASE ClusterAddNode \/ ClusterReBalance
  BY <1>2, AddingOutcome
<1> QED
  BY <1>1, <1>2, AddingStep

LEMMA ExclPreserved ==
  ASSUME TypeOK, ExclInv, [Next]_vars
  PROVE  ExclInv'
<1>1. CASE Run \/ RemoveCluster \/ Deployment
  <2>1. UNCHANGED mphase
    BY <1>1, MainStep DEF managerVars
  <2>2. mphase = "done"
    BY <1>1, MainPhase DEF ExclInv
  <2> QED
    BY <2>1, <2>2 DEF ExclInv
<1>2. CASE AddNode \/ RedisClusterFix
  BY <1>2 DEF AddNode, RedisClusterFix, EndFix, ExclInv
<1>3. CASE AddingNode
  BY <1>3, AddingPhase, AddingStep DEF ExclInv
<1>4. CASE OtherStep /\ ~RedisClusterFix
  <2>1. mphase = "done" => mphase' = "done"
    BY <1>4 DEF OtherStep, AddNodeLosesConnection, ClusterForget, EndFix, MemberDies, Gossip,
       BanEnds,
                 managerVars
  <2> QED
    BY <1>4, <2>1, OtherFrame DEF ExclInv
<1>5. CASE UNCHANGED vars
  BY <1>5 DEF vars, pipeVars, managerVars, ExclInv
<1> QED
  BY <1>1, <1>2, <1>3, <1>4, <1>5, NextSplit

LEMMA ResultsPreserved ==
  ASSUME TypeOK, ResultInv, [Next]_vars
  PROVE  ResultInv'
<1>1. CASE Run \/ RemoveCluster \/ Deployment
  BY <1>1, MainStep, ResultPreserved DEF TypeOK
<1>2. CASE UNCHANGED runVars
  BY <1>2 DEF ResultInv
<1> QED
  BY <1>1, <1>2, NextSplit, OtherFrame, AddingStep DEF vars, pipeVars

LEMMA AddResultPreserved ==
  ASSUME TypeOK, AddResultInv, [Next]_vars
  PROVE  AddResultInv'
<1>1. CASE UNCHANGED <<mphase, mresult>>
  BY <1>1 DEF AddResultInv
<1>2. CASE Run \/ RemoveCluster \/ Deployment
  BY <1>1, <1>2, MainStep DEF managerVars
<1>3. CASE AddNode \/ RedisClusterFix \/ ClusterForget
  BY <1>3 DEF AddNode, RedisClusterFix, ClusterForget, EndFix, AddResultInv
<1>4. CASE AddingNode
  <2>1. CASE ClusterAddNode \/ ClusterReBalance
    BY <2>1, AddingOutcome DEF AddResultInv
  <2>2. CASE NewStep
    BY <2>2 DEF AddResultInv, NewStep, NewConnect, NewCheckTmpDir, NewScp, NewCheckEnv,
                NewInstall, NewUNInstall, NewDropTmpDir
  <2> QED
    BY <1>4, <2>1, <2>2, AddingStep
<1> QED
  BY <1>1, <1>2, <1>3, <1>4, NextSplit
     DEF OtherStep, AddNodeLosesConnection, MemberDies, Gossip, BanEnds, managerVars, vars

(* Other users and dying members are only counted up. *)
LEMMA CalmBefore ==
  ASSUME TypeOK, [Next]_vars, others' = 0
  PROVE  others = 0 /\ UNCHANGED others
<1>1. CASE Run \/ RemoveCluster
  BY <1>1 DEF Run, RemoveCluster, Begin, BeginAt
<1>2. CASE Deployment
  BY <1>2 DEF Deployment, CreateCluster, Connect, CheckTmpDir, CheckTmpDirElse, Scp, ScpElse,
     CheckEnv,
              Install, UNInstall, UNInstallThen, DropTmpDir, EmptyTmpDir
<1>3. CASE AddingNode
  <2>1. CASE NewStep
    BY <2>1 DEF NewStep, NewConnect, NewCheckTmpDir, NewScp, NewCheckEnv, NewInstall,
                NewUNInstall, NewDropTmpDir, mHistVars
  <2> QED
    BY <1>3, <2>1, AddingStep DEF pipeVars
<1>4. CASE AddNode \/ OtherStep \/ UNCHANGED vars
  BY <1>4 DEF AddNode, OtherStep, AddNodeLosesConnection, RedisClusterFix, ClusterForget, fixSame,
              MemberDies, Gossip, BanEnds, vars, pipeVars, TypeOK, PipelineTypeOK
<1> QED
  BY <1>1, <1>2, <1>3, <1>4, NextSplit
-------------------------------------------------------------------------------
(* Running instances. *)
LEMMA CalmPriorPreserved ==
  ASSUME TypeOK, ExclInv, CalmPriorInv, AddPriorInv, AddPriorInv', [Next]_vars
  PROVE  CalmPriorInv'
<1> SUFFICES ASSUME others' = 0 PROVE PriorInv'
  BY DEF CalmPriorInv
<1>0. others = 0 /\ PriorInv
  BY CalmBefore DEF CalmPriorInv
<1>1. CASE Run \/ RemoveCluster \/ Deployment
  BY <1>0, <1>1, MainStep, PriorPreserved DEF TypeOK
<1>2. CASE UNCHANGED <<runVars, inst, before>>
  BY <1>0, <1>2 DEF PriorInv
<1>3. CASE AddNode
  BY <1>3 DEF AddNode, PriorInv
<1>4. CASE AddingNode
  <2>1. phase = "done" /\ UNCHANGED runVars
    BY <1>4, AddingPhase, AddingStep DEF ExclInv
  <2>2. CASE NewStep
    <3>1. CASE NewInstall \/ NewUNInstall
      <4>1. Adding /\ before.inst[newcomer] = "free" /\ UNCHANGED before
        BY <1>0, <3>1 DEF NewInstall, NewUNInstall, AddPriorInv, Adding, mHistVars
      <4>2. \A s \in Slot : s # newcomer => inst'[s] = inst[s]
        BY <3>1 DEF NewInstall, NewUNInstall, TypeOK, PipelineTypeOK
      <4>3. \A s \in Slot : before.inst[s] # "free" => inst[s] = before.inst[s]
        BY <1>0, <4>1 DEF AddPriorInv
      <4> QED
        BY <2>1, <4>1, <4>2, <4>3 DEF PriorInv
    <3>2. CASE ~(NewInstall \/ NewUNInstall)
      BY <1>2, <2>1, <2>2, <3>2 DEF NewStep, NewConnect, NewCheckTmpDir, NewScp, NewCheckEnv,
                                    NewDropTmpDir, mHistVars
    <3> QED
      BY <3>1, <3>2
  <2> QED
    BY <1>2, <1>4, <2>2, AddingStep DEF pipeVars
<1>5. CASE OtherStep
  <2>1. UNCHANGED <<inst, before>>
    BY <1>0, <1>5, CalmBefore
       DEF OtherStep, AddNodeLosesConnection, RedisClusterFix, ClusterForget, fixSame, MemberDies,
           Gossip, BanEnds, pipeVars, TypeOK, PipelineTypeOK
  <2> QED
    BY <1>2, <1>5, <2>1, OtherFrame
<1> QED
  BY <1>1, <1>2, <1>3, <1>4, <1>5, NextSplit DEF vars, pipeVars

LEMMA AddPriorPreserved ==
  ASSUME TypeOK, ExclInv, AddPriorInv, [Next]_vars
  PROVE  AddPriorInv'
<1> SUFFICES ASSUME Adding', others' = 0
             PROVE  (/\ \A s \in Slot : before.inst[s] # "free" => inst[s] = before.inst[s]
                     /\ mphase \in {"install", "post", "verify", "uninstall"} =>
                          before.inst[newcomer] = "free")'
  BY DEF AddPriorInv
<1>0. others = 0
  BY CalmBefore
<1>1. CASE UNCHANGED <<mphase, newcomer, inst, before>>
  BY <1>0, <1>1 DEF AddPriorInv, Adding
<1>2. CASE Run \/ RemoveCluster \/ Deployment
  <2>1. mphase' = "done"
    <3>1. CASE phase = "done"
      BY <1>2, <3>1, MainPhase, MainStep DEF managerVars
    <3>2. CASE phase # "done"
      BY <1>2, MainStep, <3>2 DEF managerVars, ExclInv
    <3> QED
      BY <3>1, <3>2
  <2> QED
    BY <2>1 DEF Adding
<1>3. CASE AddNode
  BY <1>3 DEF AddNode
<1>4. CASE AddingNode
  <2>0. Adding
    BY <1>4, AddingPhase DEF Adding
  <2>1. CASE ClusterAddNode \/ ClusterReBalance
    BY <1>0, <1>4, <2>0, <2>1, AddingOutcome DEF AddPriorInv, ClusterAddNode, ClusterReBalance,
       pipeVars
  <2>2. CASE NewInstall \/ NewUNInstall
    <3>1. before.inst[newcomer] = "free" /\ UNCHANGED <<before, newcomer>>
      BY <1>0, <1>4, <2>0, <2>2, AddingStep DEF NewInstall, NewUNInstall, AddPriorInv, mHistVars
    <3>2. \A s \in Slot : s # newcomer => inst'[s] = inst[s]
      BY <2>2 DEF NewInstall, NewUNInstall, TypeOK, PipelineTypeOK
    <3> QED
      BY <1>0, <2>0, <3>1, <3>2 DEF AddPriorInv
  <2>3. CASE NewConnect \/ NewCheckTmpDir \/ NewScp \/ NewDropTmpDir
    BY <1>0, <1>4, <2>0, <2>3, AddingStep
       DEF AddPriorInv, NewConnect, NewCheckTmpDir, NewScp, NewDropTmpDir, Adding, mHistVars
  <2>4. CASE NewCheckEnv
    <3>1. UNCHANGED <<inst, before, newcomer>> /\ newcomer \in Slot
      BY <1>4, <2>4, AddingStep DEF NewCheckEnv, mHistVars, TypeOK
    <3>2. mphase' \in {"install", "drop", "uninstall"} /\ (mphase' = "install" => inst[newcomer] = "free")
      BY <2>4 DEF NewCheckEnv
    <3> QED
      BY <1>0, <2>0, <2>4, <3>1, <3>2 DEF AddPriorInv, NewCheckEnv
  <2> QED
    BY <1>4, <2>1, <2>2, <2>3, <2>4, AddingStep DEF NewStep
<1>5. CASE OtherStep
  <2>1. UNCHANGED <<inst, before>>
    BY <1>0, <1>5, CalmBefore
       DEF OtherStep, AddNodeLosesConnection, RedisClusterFix, ClusterForget, fixSame, MemberDies,
           Gossip, BanEnds, pipeVars, TypeOK, PipelineTypeOK
  <2>2. CASE RedisClusterFix \/ ClusterForget
    BY <2>2 DEF RedisClusterFix, ClusterForget, EndFix, Adding
  <2> QED
    BY <1>1, <1>5, <2>1, <2>2
       DEF OtherStep, AddNodeLosesConnection, MemberDies, Gossip, BanEnds, fixSame, pipeVars,
           managerVars
<1> QED
  BY <1>1, <1>2, <1>3, <1>4, <1>5, NextSplit DEF vars, pipeVars, managerVars

-------------------------------------------------------------------------------
(* The cluster of a deployment. *)
LEMMA CreateClusterServes ==
  ASSUME TypeOK, CreateCluster, result' = "none"
  PROVE  Serves'
<1> DEFINE all == {at[n] : n \in Node}
           masters == {at[n] : n \in 1..Masters}
<1>0. all \subseteq Slot /\ masters \subseteq all
  BY PlacesOfNodes
<1>1. /\ owner' \in [HashSlot -> masters]
      /\ view' = [s \in Slot |-> IF s \in all THEN all ELSE view[s]]
      /\ UNCHANGED at
  BY Zenon DEF CreateCluster, FailInstallation
<1>2. at' = at
  BY <1>1
<1>3. \A n \in Node : view'[at[n]] = all
  BY <1>0, <1>1
<1>4. \A n \in Node : view'[at'[n]] = {at'[m] : m \in Node}
  BY <1>2, <1>3, Zenon
<1>5. \A h \in HashSlot : \E n \in 1..Masters : owner'[h] = at'[n]
  BY <1>1, <1>2
<1> QED
  BY <1>4, <1>5 DEF Serves

LEMMA ServesPreserved ==
  ASSUME TypeOK, ExclInv, ResultInv, ServesInv, [Next]_vars
  PROVE  ServesInv'
<1> SUFFICES ASSUME phase' = "drop", mode' = "deploy", result' = "none", others' = 0
             PROVE  Serves'
  BY DEF ServesInv
<1>0. others = 0
  BY CalmBefore
<1>1. CASE Run \/ RemoveCluster
  BY <1>1 DEF Run, RemoveCluster, Begin, BeginAt, Goto
<1>2. CASE CreateCluster
  BY <1>2, CreateClusterServes
<1>3. CASE Connect \/ CheckTmpDir \/ Scp \/ CheckEnv \/ Install
  BY <1>3 DEF Connect, CheckTmpDir, CheckTmpDirElse, Scp, ScpElse, CheckEnv, Install, NextNode,
              Return, Goto, FailInstallation
<1>4. CASE UNInstall
  BY <1>4 DEF UNInstall, UNInstallThen, ResultInv
<1>5. CASE DropTmpDir /\ KeepCluster
  <2>1. phase = "drop" /\ UNCHANGED <<mode, at, inst, result>>
    BY <1>5 DEF DropTmpDir, EmptyTmpDir, Return, Goto
  <2>2. Serves
    BY <1>0, <2>1 DEF ServesInv
  <2>3. UNCHANGED <<view, owner>>
    <3>1. \A s \in Slot : inst[s] # "up" => view[s] = {}
      BY DEF TypeOK, Up
    <3>2. view' = view
      BY <1>5, <2>1, <3>1 DEF KeepCluster, TypeOK
    <3>3. owner' = owner
      BY <1>5, <2>1 DEF KeepCluster, TypeOK, Up
    <3> QED
      BY <3>2, <3>3
  <2> QED
    BY <2>1, <2>2, <2>3 DEF Serves
<1>6. CASE Gossip
  <2>1. UNCHANGED <<runVars, owner>> /\ Serves
    BY <1>0, <1>6 DEF Gossip, pipeVars, ServesInv
  <2>2. PICK s \in Members, e \in Members :
          /\ e \in view[s] /\ ~(view[e] \ banned[s] \subseteq view[s])
          /\ view' = [view EXCEPT ![s] = @ \cup (view[e] \ banned[s])]
    BY <1>6, Zenon DEF Gossip
  <2>3. \A n \in Node : at[n] \in Slot /\ at[n] # s
    <3>1. SUFFICES ASSUME NEW n \in Node, at[n] = s PROVE FALSE
      BY HostAtTyped DEF TypeOK
    <3>2. view[s] = {at[m] : m \in Node}
      BY <2>1, <3>1 DEF Serves
    <3>3. view[e] = {at[m] : m \in Node}
      BY <2>1, <2>2, <3>2 DEF Serves
    <3> QED
      BY <2>2, <3>2, <3>3
  <2>4. \A n \in Node : view'[at[n]] = view[at[n]]
    BY <2>2, <2>3 DEF TypeOK
  <2>5. at' = at /\ owner' = owner
    BY <2>1 DEF runVars
  <2>6. \A n \in Node : view'[at'[n]] = {at'[m] : m \in Node}
    BY <2>1, <2>4, <2>5 DEF Serves
  <2>7. \A h \in HashSlot : \E n \in 1..Masters : owner'[h] = at'[n]
    BY <2>1, <2>5 DEF Serves
  <2> QED
    BY <2>6, <2>7 DEF Serves
<1>7. CASE AddNode \/ AddingNode \/ RedisClusterFix \/ ClusterForget
  <2>1. phase = "done"
    BY <1>7, AddingPhase DEF AddNode, RedisClusterFix, ClusterForget, ExclInv
  <2> QED
    BY <1>7, <2>1, OtherFrame, AddingStep DEF OtherStep
<1>8. CASE AddNodeLosesConnection \/ BanEnds \/ UNCHANGED vars
  BY <1>0, <1>8 DEF AddNodeLosesConnection, BanEnds, fixSame, vars, pipeVars, clusterVars,
     ServesInv, Serves
<1>9. CASE MemberDies
  BY <1>0, <1>9, CalmBefore DEF MemberDies
<1> QED
  BY <1>1, <1>2, <1>3, <1>4, <1>5, <1>6, <1>7, <1>8, <1>9, NextSplit DEF Deployment, OtherStep
-------------------------------------------------------------------------------
(* The node AddNode adds. *)
LEMMA JoinJoins ==
  ASSUME TypeOK, Join(TRUE), UNCHANGED <<inst, newcomer>>
  PROVE  Joined'
<1>1. PICK e \in Members \ {newcomer} :
        /\ Up(newcomer)
        /\ view' = [s \in Slot |->
             IF Up(s) /\ s \in view[e] \cup {newcomer} THEN view[e] \cup {newcomer} ELSE view[s]]
  BY Zenon DEF Join
<1>2. e \in Slot /\ Up(e) /\ e \in view[e] /\ newcomer \in Slot
  BY <1>1, MembersUp DEF TypeOK
<1>3. view'[e] = view[e] \cup {newcomer} /\ view'[newcomer] = view[e] \cup {newcomer}
  BY <1>1, <1>2
<1>4. e \in Members' \ {newcomer'} /\ Up(newcomer)'
  BY <1>1, <1>2, <1>3 DEF Members, Up
<1> QED
  BY <1>2, <1>3, <1>4 DEF Joined

(* A joined node stays joined while the instances run and lists only grow. *)
LEMMA StaysJoined ==
  ASSUME TypeOK, Joined, UNCHANGED <<inst, newcomer>>, \A s \in Slot : view[s] \subseteq view'[s]
  PROVE  Joined'
<1>1. PICK e \in Members \ {newcomer} : newcomer \in view[e] /\ e \in view[newcomer]
  BY DEF Joined
<1>2. e \in Slot /\ newcomer \in Slot
  BY DEF Members, TypeOK
<1>3. e \in Members' \ {newcomer'} /\ Up(newcomer)'
  BY <1>1, <1>2 DEF Members, Joined, Up
<1>4. newcomer' \in view'[e] /\ e \in view'[newcomer']
  BY <1>1, <1>2
<1> QED
  BY <1>3, <1>4 DEF Joined

LEMMA KeepUnchanged ==
  ASSUME TypeOK, KeepCluster, UNCHANGED inst
  PROVE  UNCHANGED <<view, owner>>
<1>1. \A s \in Slot : inst[s] # "up" => view[s] = {}
  BY DEF TypeOK, Up
<1>2. view' = view
  BY <1>1 DEF KeepCluster, TypeOK
<1>3. owner' = owner
  BY DEF KeepCluster, TypeOK, Up
<1> QED
  BY <1>2, <1>3

(* A new master that holds hash slots. *)
Filled == Covered /\ \E h \in HashSlot : owner[h] = newcomer

LEMMA ReBalanceFills ==
  ASSUME TypeOK, ClusterReBalance, mphase' = "drop"
  PROVE  Filled'
<1>1. PICK moved \in SUBSET HashSlot :
        /\ moved # {} /\ Covered
        /\ owner' = [h \in HashSlot |-> IF h \in moved THEN newcomer ELSE owner[h]]
  BY Zenon DEF ClusterReBalance, M!FailInstallation, M!Goto
<1>2. newcomer # Nobody /\ UNCHANGED newcomer
  BY HashSlotAssumption DEF TypeOK, ClusterReBalance
<1>3. \A h \in HashSlot : owner'[h] # Nobody
  BY <1>1, <1>2 DEF Covered
<1>4. \E h \in HashSlot : owner'[h] = newcomer'
  BY <1>1, <1>2
<1> QED
  BY <1>3, <1>4 DEF Filled, Covered

JoinedWhen ==
  mphase \in {"verify", "drop"} /\ mresult = "none" /\ others = 0 =>
    Joined /\ (mphase = "drop" /\ role = "master" => Filled)

LEMMA JoinedForms == JoinedInv <=> JoinedWhen
  BY DEF JoinedInv, JoinedWhen, Filled

LEMMA JoinedPreserved ==
  ASSUME TypeOK, ExclInv, AddResultInv, JoinedWhen, [Next]_vars
  PROVE  JoinedWhen'
<1> SUFFICES ASSUME mphase' \in {"verify", "drop"}, mresult' = "none", others' = 0
             PROVE  (Joined /\ (mphase = "drop" /\ role = "master" => Filled))'
  BY DEF JoinedWhen
<1>0. others = 0
  BY CalmBefore
<1>1. CASE UNCHANGED <<mphase, mresult, role, newcomer, inst, owner>>
           /\ \A s \in Slot : view[s] \subseteq view'[s]
  <2>1. Joined' /\ (mphase = "drop" /\ role = "master" => Filled)
    BY <1>0, <1>1, StaysJoined DEF JoinedWhen
  <2> QED
    BY <1>1, <2>1 DEF Filled, Covered
<1>2. CASE UNCHANGED <<mphase, mresult, role, newcomer, inst, view, owner>>
  BY <1>1, <1>2
<1>3. CASE Run \/ RemoveCluster \/ Deployment
  <2>1. mphase' = "done"
    BY <1>3, MainStep, MainPhase DEF managerVars, ExclInv
  <2> QED
    BY <2>1
<1>4. CASE AddNode \/ RedisClusterFix \/ ClusterForget
  BY <1>4 DEF AddNode, RedisClusterFix, ClusterForget, EndFix
<1>5. CASE ClusterAddNode
  <2>1. Join(TRUE) /\ UNCHANGED <<inst, newcomer, role>> /\ (role = "master" => mphase' = "verify")
    BY <1>5 DEF ClusterAddNode, M!FailInstallation, M!Goto, pipeVars
  <2> QED
    BY <2>1, JoinJoins
<1>6. CASE ClusterReBalance
  <2>1. mphase = "verify" /\ mphase' = "drop" /\ UNCHANGED <<inst, view, newcomer, role, mresult>>
    BY <1>6 DEF ClusterReBalance, M!FailInstallation, M!Goto, pipeVars
  <2> QED
    BY <1>0, <1>6, <2>1, StaysJoined, ReBalanceFills DEF JoinedWhen
<1>7. CASE AddingNode /\ NewStep
  BY <1>7 DEF NewStep, NewConnect, NewCheckTmpDir, NewScp, NewCheckEnv, NewInstall, NewUNInstall,
              NewDropTmpDir, AddResultInv
<1>8. CASE AddNodeLosesConnection \/ MemberDies \/ BanEnds \/ UNCHANGED vars
  BY <1>0, <1>2, <1>8, CalmBefore
     DEF AddNodeLosesConnection, MemberDies, BanEnds, fixSame, vars, pipeVars, clusterVars,
         managerVars
<1>9. CASE Gossip
  <2>1. PICK s \in Members, e \in Members :
          view' = [view EXCEPT ![s] = @ \cup (view[e] \ banned[s])]
    BY <1>9, Zenon DEF Gossip
  <2>2. \A x \in Slot : view[x] \subseteq view'[x]
    BY <2>1 DEF TypeOK
  <2> QED
    BY <1>1, <1>9, <2>2 DEF Gossip, pipeVars, managerVars
<1> QED
  BY <1>3, <1>4, <1>5, <1>6, <1>7, <1>8, <1>9, NextSplit, AddingStep DEF OtherStep

-------------------------------------------------------------------------------
(* The members a fix has visited. *)
LEMMA FixPreserved ==
  ASSUME TypeOK, ExclInv, FixInv, [Next]_vars
  PROVE  FixInv'
<1> SUFFICES ASSUME mphase' = "forget"
             PROVE  (/\ dead \subseteq Down
                     /\ dead = Down => Covered
                     /\ \A s \in listed \ todo : Rid(s))'
  BY DEF FixInv
<1>1. CASE Run \/ RemoveCluster \/ Deployment
  <2>1. mphase' = "done"
    BY <1>1, MainStep, MainPhase DEF managerVars, ExclInv
  <2> QED
    BY <2>1
<1>2. CASE AddNode
  BY <1>2 DEF AddNode
<1>3. CASE AddingNode
  <2>1. CASE NewStep
    BY <2>1 DEF NewStep, NewConnect, NewCheckTmpDir, NewScp, NewCheckEnv, NewInstall,
                NewUNInstall, NewDropTmpDir
  <2> QED
    BY <1>3, <2>1, AddingOutcome, AddingStep
<1>4. CASE AddNodeLosesConnection
  BY <1>4 DEF AddNodeLosesConnection, clusterVars, fixVars, FixInv, Rid, Down, Covered, Up
<1>5. CASE RedisClusterFix
  <2> DEFINE reached(e) == {s \in view[e] : Up(s)}
             unheld(e) == {h \in HashSlot : owner[h] \notin reached(e)}
  <2>0. ~EndFix("err")
    BY DEF EndFix
  <2>a. PICK e \in Members : \E given \in SUBSET unheld(e), f \in [HashSlot -> reached(e)] :
          /\ owner' = [h \in HashSlot |-> IF h \in given THEN f[h] ELSE owner[h]]
          /\ \/ given = unheld(e) /\ listed' = todo' /\ dead' = {s \in Slot : ~Up(s)}
             \/ EndFix("err")
    BY <1>5, <2>0, Zenon DEF RedisClusterFix
  <2>b. PICK given \in SUBSET unheld(e), f \in [HashSlot -> reached(e)] :
          /\ owner' = [h \in HashSlot |-> IF h \in given THEN f[h] ELSE owner[h]]
          /\ \/ given = unheld(e) /\ listed' = todo' /\ dead' = {s \in Slot : ~Up(s)}
             \/ EndFix("err")
    BY <2>a, Zenon
  <2>1. /\ f \in [HashSlot -> reached(e)]
        /\ owner' = [h \in HashSlot |-> IF h \in unheld(e) THEN f[h] ELSE owner[h]]
        /\ listed' = todo' /\ dead' = {s \in Slot : ~Up(s)}
    BY <2>0, <2>b
  <2>2. dead' = Down' /\ listed' \ todo' = {}
    BY <1>5, <2>1 DEF RedisClusterFix, Down, Up
  <2>3. view[e] \subseteq Slot
    BY MembersUp
  <2>4. Covered'
    BY <2>1, <2>3, HashSlotAssumption DEF Covered
  <2> QED
    BY <2>2, <2>4
<1>6. CASE ClusterForget
  <2>1. UNCHANGED <<inst, owner>> /\ mphase = "forget"
    BY <1>6 DEF ClusterForget, fixSame, pipeVars
  <2>2. PICK s \in todo : Forgets(s) /\ todo' = todo \ {s} /\ UNCHANGED <<listed, dead>>
    BY <1>6, Zenon DEF ClusterForget, EndFix
  <2>3. PICK flagged \in SUBSET (view[s] \ {s}) :
          /\ view' = [view EXCEPT ![s] = @ \ flagged]
          /\ banned' = [banned EXCEPT ![s] = flagged]
          /\ excused' = [excused EXCEPT ![s] = dead \ flagged]
    BY <2>2, Zenon DEF Forgets
  <2>4. Rid(s)'
    BY <2>2, <2>3 DEF Rid, TypeOK
  <2>5. ASSUME NEW x \in listed \ todo, x # s PROVE Rid(x)'
    BY <2>1, <2>2, <2>3, <2>5 DEF Rid, FixInv, TypeOK
  <2>6. \A x \in listed' \ todo' : Rid(x)'
    BY <2>2, <2>4, <2>5, Zenon
  <2> QED
    BY <2>1, <2>2, <2>6 DEF FixInv, Down, Covered, Up
<1>7. CASE MemberDies
  <2>1. PICK s \in Members : inst' = [inst EXCEPT ![s] = "files"]
    BY <1>7 DEF MemberDies
  <2>2. s \in Down' /\ s \notin Down /\ Down \subseteq Down'
    BY <2>1, MembersUp DEF Down, Up, TypeOK, PipelineTypeOK
  <2>3. UNCHANGED managerVars /\ \A x \in Slot : view'[x] \subseteq view[x]
    BY <1>7 DEF MemberDies, KeepCluster
  <2>4. \A x \in listed \ todo : Rid(x)'
    BY <2>3 DEF managerVars, fixVars, FixInv, Rid, TypeOK
  <2> QED
    BY <2>2, <2>3, <2>4 DEF FixInv, managerVars, fixVars
<1>8. CASE Gossip
  <2>1. PICK s \in Members, e \in Members :
          view' = [view EXCEPT ![s] = @ \cup (view[e] \ banned[s])]
    BY <1>8, Zenon DEF Gossip
  <2>2. UNCHANGED <<inst, owner, mphase, fixVars>>
    BY <1>8 DEF Gossip, pipeVars, managerVars
  <2>3. \A x \in listed \ todo : Rid(x)'
    BY <2>1, <2>2 DEF fixVars, FixInv, Rid, TypeOK
  <2> QED
    BY <2>2, <2>3 DEF fixVars, FixInv, Down, Covered, Up
<1>10. CASE BanEnds
  <2>1. PICK s \in Slot : \E g :
          /\ banned' = [banned EXCEPT ![s] = @ \ {g}]
          /\ excused' = [excused EXCEPT ![s] = @ \cup {g}]
    BY <1>10, Zenon DEF BanEnds
  <2>2. UNCHANGED <<inst, view, owner, mphase, todo, listed, dead>>
    BY <1>10 DEF BanEnds, fixSame, pipeVars, clusterVars
  <2>3. \A x \in listed \ todo : Rid(x)'
    BY <2>1, <2>2 DEF FixInv, Rid, TypeOK
  <2> QED
    BY <2>2, <2>3 DEF FixInv, Down, Covered, Up
<1>9. CASE UNCHANGED vars
  BY <1>9 DEF vars, pipeVars, clusterVars, managerVars, fixVars, FixInv, Rid, Down, Covered, Up
<1> QED
  BY <1>1, <1>2, <1>3, <1>4, <1>5, <1>6, <1>7, <1>8, <1>9, <1>10, NextSplit
     DEF OtherStep
-------------------------------------------------------------------------------
LEMMA InitIInv == Init => IInv
<1> USE NAssumption, PlacesAssumption
<1> SUFFICES ASSUME Init PROVE IInv
  OBVIOUS
<1>1. PipelineTypeOK
  <2>1. before \in Snapshot
    BY DEF Init, PipelineInit, Snapshot
  <2>2. /\ phase \in Phase /\ cursor \in Node /\ mode \in Mode /\ result \in Result
        /\ at \in [Node -> Slot] /\ lost \subseteq Node \X Channel
    BY DEF Init, PipelineInit, Node, Mode
  <2>3. keep \in BOOLEAN /\ blemish \in BOOLEAN
    BY Zenon DEF Init, PipelineInit
  <2>4. /\ tmp \in [Host -> TmpState] /\ inst \in [Slot -> InstState]
        /\ home \in [Host -> {"intact", "wiped"}] /\ others \in Nat /\ runs \in Nat
    BY DEF Init, PipelineInit
  <2> QED
    BY <2>1, <2>2, <2>3, <2>4 DEF PipelineTypeOK
<1>2. ManagerTyped
  <2>1. noRollback \in BOOLEAN /\ mblemish \in BOOLEAN
    BY Zenon DEF Init
  <2> QED
    BY <2>1, NoOneTyped DEF Init, ManagerTyped, ManagerPhase
<1>3. ClusterTyped
  BY DEF Init, ClusterTyped
<1>4. ExclInv /\ ResultInv /\ AddResultInv /\ CalmPriorInv
  BY DEF Init, PipelineInit, ExclInv, ResultInv, AddResultInv, CalmPriorInv, PriorInv, Early,
     Later
<1>5. AddPriorInv /\ ServesInv /\ JoinedInv /\ FixInv
  BY DEF Init, PipelineInit, AddPriorInv, Adding, ServesInv, JoinedInv, FixInv
<1> QED
  BY <1>1, <1>2, <1>3, <1>4, <1>5, TypeParts DEF IInv

LEMMA NextIInv == IInv /\ [Next]_vars => IInv'
<1> SUFFICES ASSUME IInv, [Next]_vars PROVE IInv'
  OBVIOUS
<1>1. TypeOK' /\ ExclInv' /\ ResultInv' /\ AddResultInv'
  BY ClusterTypePreserved, ExclPreserved, ResultsPreserved, AddResultPreserved DEF IInv
<1>2. AddPriorInv'
  BY AddPriorPreserved DEF IInv
<1>3. CalmPriorInv'
  BY <1>2, CalmPriorPreserved DEF IInv
<1>4. ServesInv' /\ FixInv'
  BY ServesPreserved, FixPreserved DEF IInv
<1>5. JoinedInv'
  <2>1. JoinedWhen'
    BY JoinedForms, JoinedPreserved DEF IInv
  <2> QED
    BY <2>1 DEF JoinedInv, JoinedWhen, Filled
<1> QED
  BY <1>1, <1>2, <1>3, <1>4, <1>5 DEF IInv

(* The inductive invariant holds throughout. *)
THEOREM Invariance == Spec => []IInv
  BY InitIInv, NextIInv, PTL DEF Spec

(* Every variable keeps its type; a member that is listed by itself runs, and *)
(* no hash slot is held by an instance that does not run.                     *)
THEOREM TypeCorrect == Spec => []TypeOK
<1>1. IInv => TypeOK
  BY DEF IInv
<1> QED
  BY <1>1, Invariance, PTL

(* CheckEnv refuses an occupied place before anything is installed there, and *)
(* its refusal is never rolled back, in a deployment and in AddNode.          *)
THEOREM RunningSafe == Spec => []RunningInstancesSurvive
<1>1. IInv => RunningInstancesSurvive
  <2> SUFFICES ASSUME IInv, mode = "deploy", others = 0, NEW s \in Slot, before.inst[s] = "up"
               PROVE  Up(s)
    BY DEF RunningInstancesSurvive
  <2> QED
    BY DEF IInv, CalmPriorInv, PriorInv, Up
<1> QED
  BY <1>1, Invariance, PTL

(* A deployment returns nil only after redis-cli --cluster create has met all *)
(* the nodes and shared out all hash slots, and nothing takes that back before *)
(* Run returns.                                                                *)
THEOREM DeployedServes == Spec => DeployedClusterServes
<1>1. IInv /\ [Next]_vars =>
        [phase # "done" /\ phase' = "done" /\ mode = "deploy" /\ result' = "ok" /\ others = 0 =>
           /\ \A n \in Node : view[at[n]] = {at[m] : m \in Node}
           /\ \A h \in HashSlot : \E n \in 1..Masters : owner[h] = at[n]]_vars
  <2> SUFFICES ASSUME IInv, [Next]_vars,
                      phase # "done", phase' = "done", mode = "deploy", result' = "ok", others = 0
               PROVE  Serves
    BY DEF Serves
  <2>1. ~UNCHANGED phase
    OBVIOUS
  <2>2. CASE Run \/ RemoveCluster \/ Deployment
    <3>1. DropTmpDir /\ result = "none"
      <4>1. CASE Run \/ RemoveCluster
        BY <4>1 DEF Run, RemoveCluster, Begin, BeginAt
      <4>2. CASE Connect \/ CheckTmpDir \/ Scp \/ CheckEnv \/ Install \/ UNInstall
        BY <2>1, <4>2 DEF Connect, CheckTmpDir, CheckTmpDirElse, Scp, ScpElse, CheckEnv, Install,
           UNInstall,
                          UNInstallThen, NextNode, Return, Goto, FailInstallation, IInv
      <4>3. CASE CreateCluster
        BY <4>3 DEF CreateCluster, Goto, FailInstallation
      <4>4. CASE DropTmpDir
        BY <4>4 DEF DropTmpDir, EmptyTmpDir, Return, Goto, IInv, ResultInv
      <4> QED
        BY <2>2, <4>1, <4>2, <4>3, <4>4 DEF Deployment
    <3> QED
      BY <3>1 DEF DropTmpDir, EmptyTmpDir, IInv, ServesInv
  <2>3. CASE ~(Run \/ RemoveCluster \/ Deployment)
    BY <2>1, <2>3, NextSplit, OtherFrame, AddingStep DEF IInv, vars, pipeVars
  <2> QED
    BY <2>2, <2>3
<1> QED
  BY <1>1, Invariance, PTL DEF Spec, DeployedClusterServes

(* AddNode returns nil only for a node that a member lists and that lists it; *)
(* a new master holds hash slots then, and every hash slot is held.           *)
THEOREM AddedServes == Spec => AddedNodeServes
<1>1. IInv /\ [Next]_vars =>
        [mphase \notin {"done", "forget"} /\ mphase' = "done" /\ mresult' = "ok" /\ others = 0 =>
           /\ Up(newcomer)
           /\ \E e \in Members \ {newcomer} : newcomer \in view[e] /\ e \in view[newcomer]
           /\ role = "master" => Covered /\ \E h \in HashSlot : owner[h] = newcomer]_vars
  <2> SUFFICES ASSUME IInv, [Next]_vars, mphase \notin {"done", "forget"}, mphase' = "done",
                      mresult' = "ok", others = 0
               PROVE  Joined /\ (role = "master" => Filled)
    BY DEF Joined, Filled
  <2>1. CASE AddingNode
    <3>1. NewStep
      BY <2>1, AddingStep, AddingOutcome DEF IInv
    <3>2. mphase = "drop" /\ mresult = "none"
      BY <3>1 DEF NewStep, NewConnect, NewCheckTmpDir, NewScp, NewCheckEnv, NewInstall,
                  NewUNInstall, NewDropTmpDir, IInv, AddResultInv
    <3> QED
      BY <3>2 DEF IInv, JoinedInv, Joined, Filled
  <2>2. CASE Run \/ RemoveCluster \/ Deployment
    BY <2>2, MainStep DEF IInv, managerVars
  <2>3. CASE AddNode \/ OtherStep \/ UNCHANGED vars
    BY <2>3 DEF AddNode, OtherStep, AddNodeLosesConnection, RedisClusterFix, ClusterForget,
                EndFix, MemberDies, Gossip, BanEnds, vars, managerVars
  <2> QED
    BY <2>1, <2>2, <2>3, NextSplit
<1> QED
  BY <1>1, Invariance, PTL DEF Spec, AddedNodeServes

(* The loop of RedisClusterFix ends without an error only when every member   *)
(* it listed has been asked and has forgotten every dead one it showed as     *)
(* failing or disconnected, gossip has not brought one back that is still     *)
(* banned, and every hash slot has a holder.                                  *)
THEOREM FixCorrect == Spec => FixKicksOut
<1>1. IInv /\ [Next]_vars =>
        [mphase = "forget" /\ mphase' = "done" /\ mresult' = "ok" /\ dead = {s \in Slot : ~Up(s)} =>
           Covered /\ \A s \in listed : view[s] \cap dead \subseteq excused[s]]_vars
  <2> SUFFICES ASSUME IInv, [Next]_vars, mphase = "forget", mphase' = "done", mresult' = "ok",
                      dead = Down
               PROVE  Covered /\ \A s \in listed : view[s] \cap dead \subseteq excused[s]
    BY DEF Down
  <2>1. ClusterForget
    <3>1. CASE Run \/ RemoveCluster \/ Deployment
      BY <3>1, MainStep DEF IInv, managerVars
    <3>2. CASE AddingNode
      BY <3>2, AddingPhase DEF IInv
    <3>3. CASE AddNode \/ RedisClusterFix \/ AddNodeLosesConnection \/ MemberDies \/ Gossip
               \/ BanEnds \/ UNCHANGED vars
      BY <3>3 DEF AddNode, AddNodeLosesConnection, RedisClusterFix, MemberDies, Gossip, BanEnds,
                  vars, managerVars
    <3> QED
      BY <3>1, <3>2, <3>3, NextSplit DEF OtherStep
  <2>2. todo = {}
    BY <2>1, Zenon DEF ClusterForget, EndFix
  <2> QED
    BY <2>2 DEF IInv, FixInv, Rid
<1> QED
  BY <1>1, Invariance, PTL DEF Spec, FixKicksOut
===============================================================================
