--------------------------- MODULE RedisDeployProofs ---------------------------
(***************************************************************************)
(* Theorems about "redis deploy" and "redis remove-deploy", for every      *)
(* number of nodes and every set of machines.  Every step of RedisDeploy   *)
(* is a step of the pipeline or leaves its variables alone, so the         *)
(* pipeline's invariants hold of it; what is left to prove is about link.  *)
(***************************************************************************)
EXTENDS RedisDeploy, DeployPipelineProofs

USE DEF Phase, Result, runVars, hostVars, histVars

LEMMA StepIsPipelineStep ==
  ASSUME TypeOK, [Next]_vars
  PROVE  PipelineNext \/ UNCHANGED pipeVars
<1>1. CASE Run \/ RemoveDeploy
  BY <1>1, Zenon DEF Run, RemoveDeploy, PipelineNext, Mode
<1>2. CASE ReplicaSlave
  <2>1. UNCHANGED <<mode, keep, at, lost, hostVars, histVars>> /\ phase = "post"
    BY <1>2 DEF ReplicaSlave
  <2>2. CASE NextSlave("verify") /\ UNCHANGED result
    <3>1. phase' \in {"post", "verify"} /\ cursor' \in Node
      BY <2>1, <2>2, NAssumption DEF NextSlave, Slave, Goto, TypeOK, PipelineTypeOK, Node
    <3> QED
      BY <2>1, <2>2, <3>1 DEF PipelineNext, ProductStep
  <2>3. CASE FailInstallation
    BY <2>1, <2>3 DEF PipelineNext, ProductStep
  <2> QED
    BY <1>2, <2>2, <2>3 DEF ReplicaSlave
<1>3. CASE CheckSlaves
  <2>1. UNCHANGED <<mode, keep, at, lost, hostVars, histVars>> /\ phase = "verify"
    BY <1>3 DEF CheckSlaves
  <2>2. CASE NextSlave("drop") /\ UNCHANGED result
    <3>1. phase' \in {"verify", "drop"} /\ cursor' \in Node /\ (phase' = "drop" => cursor' = 1)
      BY <2>1, <2>2, NAssumption DEF NextSlave, Slave, Goto, TypeOK, PipelineTypeOK, Node
    <3> QED
      BY <2>1, <2>2, <3>1 DEF PipelineNext, ProductStep
  <2>3. CASE FailInstallation
    BY <2>1, <2>3 DEF PipelineNext, ProductStep
  <2> QED
    BY <1>3, <2>2, <2>3 DEF CheckSlaves
<1>4. CASE UNCHANGED pipeVars
  BY <1>4
<1> QED
  BY <1>1, <1>2, <1>3, <1>4
     DEF Next, Program, Environment, LinkChanges, PipelineNext, PipelineStep, vars

LEMMA LinkTyped ==
  ASSUME TypeOK, [Next]_vars
  PROVE  link' \in [Slot -> LinkState]
<1>1. CASE KeepLinks
  BY <1>1 DEF KeepLinks, TypeOK, LinkState
<1>2. CASE ReplicaSlave
  BY <1>2 DEF ReplicaSlave, TypeOK, LinkState
<1>3. CASE LinkChanges
  BY <1>3 DEF LinkChanges, TypeOK, LinkState
<1>4. CASE UNCHANGED link
  BY <1>4 DEF TypeOK
<1> QED
  BY <1>1, <1>2, <1>3, <1>4
     DEF Next, Run, RemoveDeploy, Program, Environment, CheckSlaves, vars

-------------------------------------------------------------------------------
(* The slaves before k have been pointed at the master. *)
LinkedBefore(k) == \A n \in 2..N : n < k => link[at[n]] # "none"

LinkInv ==
  /\ phase \in {"post", "verify"} => cursor < N
  /\ mode = "deploy" =>
       /\ phase = "post" => LinkedBefore(Slave)
       /\ Installed /\ phase # "post" => LinkedBefore(N + 1)

(* The configuration's no-rollback is not read. *)
KeepInv == keep = FALSE

(* The inductive invariant: the parts proved for the pipeline, and the links. *)
IInv ==
  /\ TypeOK /\ PriorInv /\ ForeignInv /\ ResultInv /\ HomeInv /\ DeployedInv /\ LinkInv
  /\ TraceInv /\ CopyInv /\ RemovalInv /\ KeepInv

(* In the phases LinkInv speaks of, a step that keeps links keeps those of the *)
(* slaves, because every slave runs.                                           *)
LEMMA KeptLinks ==
  ASSUME TypeOK, KeepLinks, UNCHANGED at, \A n \in Node : inst'[at[n]] = "up"
  PROVE  \A n \in 2..N : link'[at'[n]] = link[at[n]]
<1>1. \A n \in 2..N : n \in Node /\ at[n] \in Slot
  BY HostAtTyped DEF TypeOK, Node
<1> QED
  BY <1>1 DEF KeepLinks

LEMMA LinkPreserved ==
  ASSUME IInv, [Next]_vars, DeployedInv'
  PROVE  LinkInv'
<1> USE NAssumption, SlavesAssumption
<1>0. cursor \in Node /\ (\A n \in Node : at[n] \in Slot) /\ 2..N \subseteq Node
  BY HostAtTyped DEF IInv, TypeOK, PipelineTypeOK, Node
<1>1. CASE Run \/ RemoveDeploy
  BY <1>1 DEF Run, RemoveDeploy, Begin, BeginAt, Goto, LinkInv, Installed
<1>2. CASE Connect \/ CheckTmpDir
  BY <1>2 DEF Connect, CheckTmpDir, CheckTmpDirElse, NextNode, Return, Goto, LinkInv, Installed
<1>3. CASE Scp
  BY <1>3 DEF Scp, ScpElse, NextNode, Goto, LinkInv, Installed
<1>4. CASE CheckEnv
  BY <1>4 DEF CheckEnv, NextNode, Goto, LinkInv, Installed
<1>5. CASE Install
  <2>1. CASE FailInstallation
    BY <2>1 DEF FailInstallation, Goto, LinkInv, Installed
  <2>2. CASE NextNode("post")
    <3>1. phase' \in {"install", "post"} /\ (phase' = "post" => cursor' = 1)
      BY <1>5, <2>2 DEF Install, NextNode
    <3> QED
      BY <1>5, <3>1 DEF Install, LinkInv, Installed, LinkedBefore, Slave
  <2> QED
    BY <1>5, <2>1, <2>2 DEF Install
<1>6. CASE UNInstall
  <2>1. phase' \in {"uninstall", "drop"} /\ UNCHANGED <<mode, result>>
    BY <1>6 DEF UNInstall, UNInstallThen, NextNode
  <2>2. mode = "deploy" => result = "err"
    BY <1>6 DEF UNInstall, UNInstallThen, IInv, ResultInv
  <2> QED
    BY <2>1, <2>2 DEF LinkInv, Installed
<1>7. CASE DropTmpDir /\ KeepLinks
  <2>1. phase' \in {"drop", "done"} /\ (Installed' => Installed) /\ phase = "drop"
    BY <1>7 DEF DropTmpDir, EmptyTmpDir, Return, Goto, Installed, IInv, ResultInv
  <2>2. CASE mode = "deploy" /\ Installed'
    <3>1. LinkedBefore(N + 1)
      BY <2>1, <2>2 DEF IInv, LinkInv
    <3>2. \A n \in Node : inst'[at[n]] = "up"
      BY <1>7, <2>2 DEF DropTmpDir, EmptyTmpDir, DeployedInv, Installed, UpBefore, Node
    <3>3. \A n \in 2..N : link'[at'[n]] = link[at[n]]
      BY <1>7, <3>2, KeptLinks DEF DropTmpDir, EmptyTmpDir, IInv
    <3> QED
      BY <2>1, <3>1, <3>3 DEF LinkInv, LinkedBefore
  <2> QED
    BY <1>7, <2>1, <2>2 DEF DropTmpDir, EmptyTmpDir, LinkInv
<1>8. CASE Interrupt
  BY <1>8 DEF Interrupt, Return, Goto, LinkInv, Installed
<1>9. CASE (LoseConnection \/ OtherInstalls \/ OtherFills) /\ KeepLinks
  <2>1. UNCHANGED runVars
    BY <1>9 DEF LoseConnection, OtherInstalls, OtherFills
  <2>2. CASE mode = "deploy" /\ Installed
    <3>1. \A n \in Node : inst'[at[n]] = "up"
      BY <2>1, <2>2 DEF DeployedInv, Installed, UpBefore, Node
    <3>2. \A n \in 2..N : link'[at'[n]] = link[at[n]]
      BY <1>9, <2>1, <3>1, KeptLinks DEF IInv
    <3> QED
      BY <2>1, <3>2 DEF IInv, LinkInv, LinkedBefore, Installed, Slave
  <2> QED
    BY <2>1, <2>2 DEF IInv, LinkInv, Installed
<1>10. CASE LinkChanges
  <2>1. \A s \in Slot : link[s] # "none" => link'[s] # "none"
    BY <1>10 DEF LinkChanges, IInv, TypeOK
  <2> QED
    BY <1>0, <1>10, <2>1 DEF LinkChanges, pipeVars, IInv, LinkInv, Installed, LinkedBefore, Slave
<1>11. CASE ReplicaSlave
  <2>1. CASE FailInstallation
    BY <2>1 DEF FailInstallation, Goto, LinkInv, Installed
  <2>2. CASE link' = [link EXCEPT ![at[Slave]] = "set"] /\ NextSlave("verify")
    <3>1. phase = "post" /\ UNCHANGED <<mode, at>> /\ cursor < N
      BY <1>11 DEF ReplicaSlave, IInv, LinkInv
    <3>2. mode = "deploy" => \A n \in 2..N : n <= Slave => link'[at[n]] # "none"
      BY <1>0, <2>2, <3>1 DEF IInv, LinkInv, LinkedBefore, TypeOK, Slave, Node
    <3>3. CASE Slave < N
      BY <1>0, <2>2, <3>1, <3>2, <3>3 DEF NextSlave, LinkInv, LinkedBefore, Slave, Node
    <3>4. CASE ~(Slave < N)
      <4>1. phase' = "verify" /\ cursor' = 1 /\ Slave = N
        BY <1>0, <2>2, <3>1, <3>4 DEF NextSlave, Goto, Slave, Node
      <4> QED
        BY <3>1, <3>2, <4>1 DEF LinkInv, LinkedBefore
    <3> QED
      BY <3>3, <3>4
  <2> QED
    BY <1>11, <2>1, <2>2 DEF ReplicaSlave
<1>12. CASE CheckSlaves
  <2>1. CASE FailInstallation
    BY <2>1 DEF FailInstallation, Goto, LinkInv, Installed
  <2>2. CASE NextSlave("drop")
    <3>1. /\ phase = "verify" /\ UNCHANGED <<mode, at, link>>
          /\ phase' \in {"verify", "drop"} /\ (phase' = "verify" => cursor' < N)
      BY <1>0, <1>12, <2>2 DEF CheckSlaves, NextSlave, Goto, Slave, Node
    <3> QED
      BY <3>1 DEF IInv, LinkInv, LinkedBefore, Installed
  <2> QED
    BY <1>12, <2>1, <2>2 DEF CheckSlaves
<1>13. CASE UNCHANGED vars
  BY <1>13 DEF vars, pipeVars, IInv, LinkInv, Installed, LinkedBefore, Slave
<1> QED
  BY <1>1, <1>2, <1>3, <1>4, <1>5, <1>6, <1>7, <1>8, <1>9, <1>10, <1>11, <1>12, <1>13
     DEF Next, Program, Environment

-------------------------------------------------------------------------------
LEMMA InitIInv == Init => IInv
<1> USE NAssumption, PlacesAssumption
<1> SUFFICES ASSUME Init PROVE IInv
  OBVIOUS
<1>1. TypeOK
  <2>1. before \in Snapshot
    BY DEF Init, PipelineInit, Snapshot
  <2>2. /\ phase \in Phase /\ cursor \in Node /\ mode \in Mode /\ result \in Result
        /\ at \in [Node -> Slot] /\ lost \subseteq Node \X Channel
    BY DEF Init, PipelineInit, Node, Mode
  <2>3. keep \in BOOLEAN /\ blemish \in BOOLEAN
    BY Zenon DEF Init, PipelineInit
  <2>4. /\ tmp \in [Host -> TmpState] /\ inst \in [Slot -> InstState]
        /\ home \in [Host -> {"intact", "wiped"}] /\ others \in Nat /\ runs \in Nat
        /\ link \in [Slot -> LinkState]
    BY DEF Init, PipelineInit, LinkState
  <2> QED
    BY <2>1, <2>2, <2>3, <2>4 DEF TypeOK, PipelineTypeOK
<1>2. PriorInv /\ ForeignInv /\ ResultInv /\ HomeInv /\ DeployedInv /\ LinkInv
  BY DEF Init, PipelineInit, PriorInv, ForeignInv, ResultInv, HomeInv, DeployedInv, LinkInv,
         Installed, Early, Later
<1>3. TraceInv /\ CopyInv /\ RemovalInv
  BY DEF Init, PipelineInit, TraceInv, CopyInv, RemovalInv, CopiedFrom, Early, Later
<1>4. KeepInv
  BY DEF Init, PipelineInit, KeepInv
<1> QED
  BY <1>1, <1>2, <1>3, <1>4 DEF IInv

LEMMA KeepPreserved ==
  ASSUME KeepInv, [Next]_vars
  PROVE  KeepInv'
<1>1. CASE Run \/ RemoveDeploy
  BY <1>1, Zenon DEF Run, RemoveDeploy, Begin, BeginAt, KeepInv
<1>2. CASE Connect \/ CheckTmpDir \/ Scp \/ CheckEnv \/ Install
  BY <1>2 DEF Connect, CheckTmpDir, CheckTmpDirElse, Scp, ScpElse, CheckEnv, Install, KeepInv
<1>3. CASE UNInstall \/ DropTmpDir \/ ReplicaSlave \/ CheckSlaves
  BY <1>3 DEF UNInstall, UNInstallThen, DropTmpDir, EmptyTmpDir, ReplicaSlave, CheckSlaves,
              KeepInv
<1>4. CASE Interrupt \/ LoseConnection \/ OtherInstalls \/ OtherFills
  BY <1>4 DEF Interrupt, LoseConnection, OtherInstalls, OtherFills, KeepInv
<1>5. CASE UNCHANGED pipeVars
  BY <1>5 DEF pipeVars, KeepInv
<1> QED
  BY <1>1, <1>2, <1>3, <1>4, <1>5 DEF Next, Program, Environment, LinkChanges, vars

LEMMA NextIInv == IInv /\ [Next]_vars => IInv'
<1> SUFFICES ASSUME IInv, [Next]_vars PROVE IInv'
  OBVIOUS
<1>1. CASE PipelineNext
  <2>1. /\ PipelineTypeOK' /\ PriorInv' /\ ForeignInv' /\ ResultInv' /\ HomeInv'
        /\ DeployedInv'
    BY <1>1, PipelineTyped, PriorPreserved, ForeignPreserved, ResultPreserved,
       HomePreserved, DeployedPreserved DEF IInv, TypeOK
  <2>2. TraceInv' /\ CopyInv' /\ RemovalInv'
    BY <1>1, TracePreserved, CopyPreserved, RemovalPreserved DEF IInv, TypeOK
  <2> QED
    BY <2>1, <2>2, LinkTyped, LinkPreserved, KeepPreserved DEF IInv, TypeOK
<1>2. CASE UNCHANGED pipeVars
  <2>1. PipelineTypeOK' /\ PriorInv' /\ ResultInv'
    BY <1>2 DEF IInv, TypeOK, pipeVars, PipelineTypeOK, PriorInv, ResultInv
  <2>2. ForeignInv' /\ HomeInv'
    BY <1>2 DEF IInv, pipeVars, ForeignInv, HomeInv, Passed, Emptied, HostAt, NoSftp
  <2>3. DeployedInv'
    BY <1>2 DEF IInv, pipeVars, DeployedInv, Installed, UpBefore
  <2>4. TraceInv' /\ RemovalInv'
    BY <1>2 DEF IInv, pipeVars, TraceInv, ChangedFrom, RemovalInv, GoneBefore, Undisturbed
  <2>5. CopyInv'
    BY <1>2 DEF IInv, pipeVars, CopyInv, CopiedFrom, Checked, HostAt, NoSftp, Undisturbed
  <2> QED
    BY <2>1, <2>2, <2>3, <2>4, <2>5, LinkTyped, LinkPreserved, KeepPreserved
       DEF IInv, TypeOK
<1> QED
  BY <1>1, <1>2, StepIsPipelineStep DEF IInv

(* The inductive invariant holds throughout. *)
THEOREM Invariance == Spec => []IInv
  BY InitIInv, NextIInv, PTL DEF Spec

(* Every variable keeps its type: the cursor stays inside the node list, and *)
(* every remote command leaves its place in one of the states RemoteHost      *)
(* knows.                                                                     *)
THEOREM TypeCorrect == Spec => []TypeOK
<1>1. IInv => TypeOK
  BY DEF IInv
<1> QED
  BY <1>1, Invariance, PTL

(* Run's rollback and installation only work in slots that were free when    *)
(* the run began.                                                             *)
THEOREM PriorSafe == Spec => []PriorInstancesUntouched
<1>1. IInv => PriorInstancesUntouched
  BY DEF IInv, PriorInv, PriorInstancesUntouched, Occupied
<1> QED
  BY <1>1, Invariance, PTL

(* CheckTmpDir before the defer keeps DropTmpDir away from other people's    *)
(* files, unless the sftp channels of all nodes there are on a machine have   *)
(* broken: then, and only then, it may empty somebody's directory.            *)
THEOREM ForeignSafe == Spec => []ForeignFilesKept
<1>1. IInv => ForeignFilesKept
  BY DEF IInv, ForeignInv, Emptied, ForeignFilesKept
<1> QED
  BY <1>1, Invariance, PTL

(* Run returns nil only when every node runs in a slot of its own and every  *)
(* slave has been pointed at the master.                                      *)
THEOREM SuccessCorrect == Spec => []SuccessMeansDeployed
<1>1. IInv => SuccessMeansDeployed
  <2> SUFFICES ASSUME IInv, phase = "done", mode = "deploy", result = "ok"
               PROVE  /\ \A n \in Node : inst[at[n]] = "up"
                      /\ \A n \in 2..N : link[at[n]] # "none"
                      /\ \A m, n \in Node : m # n => at[m] # at[n]
    BY DEF SuccessMeansDeployed
  <2>1. UpBefore(N + 1) /\ LinkedBefore(N + 1)
    BY DEF IInv, DeployedInv, LinkInv, Installed
  <2> QED
    BY <2>1, NAssumption DEF UpBefore, LinkedBefore, Node
<1> QED
  BY <1>1, Invariance, PTL

(* Where Scp has been, DropTmpDir's cd works: a run that succeeds deletes    *)
(* nothing in a home directory.                                               *)
THEOREM HomeSafe == Spec => []SuccessSparesHome
<1>1. IInv => SuccessSparesHome
  BY DEF IInv, HomeInv, SuccessSparesHome
<1> QED
  BY <1>1, Invariance, PTL

(* Run's rollback and its deferred DropTmpDir take back, between them, all   *)
(* that a failed deployment has done, when each of their commands works.      *)
THEOREM FailureClean == Spec => []FailureLeavesNoTrace
<1>1. IInv => FailureLeavesNoTrace
  BY FailureLeft DEF IInv, TypeOK, KeepInv, FailureLeavesNoTrace, Undisturbed
<1> QED
  BY <1>1, Invariance, PTL

(* The UNInstall loop of RemoveDeploy leaves out no node of the file.        *)
THEOREM RemovalComplete == Spec => []RemovalIsComplete
<1>1. IInv => RemovalIsComplete
  BY NAssumption DEF IInv, RemovalInv, RemovalIsComplete, GoneBefore, Undisturbed, Node
<1> QED
  BY <1>1, Invariance, PTL

(* The deployment implements its promise, whatever fails and whoever else    *)
(* works on the machines.                                                     *)
THEOREM Implementation == Spec => PromiseKept
<1>1. Init => Promise!Init
  BY InitPromise DEF Init
<1>2. IInv /\ [Next]_vars => [Promise!Next]_Promise!vars
  <2> SUFFICES ASSUME IInv, [Next]_vars PROVE [Promise!Next]_Promise!vars
    OBVIOUS
  <2>1. CASE PipelineNext
    BY <2>1, StepPromise DEF IInv, TypeOK
  <2>2. CASE UNCHANGED pipeVars
    BY <2>2 DEF pipeVars, Promise!vars
  <2> QED
    BY <2>1, <2>2, StepIsPipelineStep DEF IInv
<1> QED
  BY <1>1, <1>2, Invariance, PTL DEF Spec, PromiseKept, Promise!Spec
===============================================================================
