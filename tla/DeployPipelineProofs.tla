------------------------- MODULE DeployPipelineProofs -------------------------
(***************************************************************************)
(* Invariants of the deployment pipeline, for every number of nodes, every *)
(* set of machines and every layout.  They are stated for PipelineNext, in *)
(* which the steps a product adds in its two phases are any steps that     *)
(* leave the machines alone, so that the modules of the products can cite  *)
(* them.                                                                   *)
(***************************************************************************)
EXTENDS DeployPipeline, TLAPS

(* What the product's own phases may do to the pipeline's variables. *)
ProductStep ==
  /\ phase \in {"post", "verify"}
  /\ \/ /\ phase' \in {"post", "verify", "drop"}
        /\ cursor' \in Node /\ (phase' = "drop" => cursor' = 1)
        /\ UNCHANGED result
     \/ FailInstallation
  /\ UNCHANGED <<mode, keep, at, lost, hostVars, histVars>>

PipelineNext ==
  \/ \E m \in Mode, nr \in BOOLEAN : Begin(m, nr)
  \/ PipelineStep
  \/ ProductStep

(* The phases in which Scp has not yet been through, and those after it. *)
Early == {"connect", "checktmp", "scp"}
Later == {"checkenv", "install", "post", "verify"}

-------------------------------------------------------------------------------
(* What a remote command leaves behind is a state of the place it works on. *)
LEMMA ResultsTyped ==
  /\ \A t \in TmpState : \A r \in ScpResults(t) : r.tmp \in TmpState
  /\ \A t \in TmpState : AfterDropTmpDir(t) \in TmpState
  /\ \A i \in InstState : \A r \in InstallResults(i) : r.inst \in InstState
  /\ \A i \in InstState : \A r \in UNInstallResults(i) : r.inst \in InstState
<1>1. ASSUME NEW t \in TmpState, NEW r \in ScpResults(t)
      PROVE  r.tmp \in TmpState
  <2> DEFINE copied == IF t = "foreign" THEN "foreign" ELSE "ours"
  <2>1. \/ r = [tmp |-> "file", ok |-> FALSE]
        \/ r = [tmp |-> copied, ok |-> TRUE]
        \/ r = [tmp |-> copied, ok |-> FALSE]
        \/ r = [tmp |-> t, ok |-> FALSE]
    BY <1>1 DEF ScpResults
  <2>2. copied \in TmpState
    BY DEF TmpState
  <2> HIDE DEF copied
  <2> QED
    BY <2>1, <2>2 DEF TmpState
<1>2. \A t \in TmpState : AfterDropTmpDir(t) \in TmpState
  BY DEF AfterDropTmpDir, TmpState, CdFails
<1>3. ASSUME NEW i \in InstState, NEW r \in InstallResults(i)
      PROVE  r.inst \in InstState
  <2>1. CASE r \in {[inst |-> j, ok |-> FALSE] : j \in InstState}
    <3>1. PICK j \in InstState : r = [inst |-> j, ok |-> FALSE]
      BY <2>1
    <3> QED
      BY <3>1
  <2>2. CASE r = [inst |-> "up", ok |-> TRUE]
    BY <2>2 DEF InstState
  <2>3. CASE r = [inst |-> i, ok |-> FALSE]
    BY <2>3
  <2> QED
    BY <1>3, <2>1, <2>2, <2>3, Zenon DEF InstallResults
<1>4. ASSUME NEW i \in InstState, NEW r \in UNInstallResults(i)
      PROVE  r.inst \in InstState
  <2>1. \/ r = [inst |-> i, ok |-> TRUE]
        \/ r = [inst |-> i, ok |-> FALSE]
        \/ r = [inst |-> "free", ok |-> TRUE]
        \/ r = [inst |-> "free", ok |-> FALSE]
        \/ r = [inst |-> "files", ok |-> FALSE]
    BY <1>4 DEF UNInstallResults
  <2> QED
    BY <2>1 DEF InstState
<1> QED
  BY <1>1, <1>2, <1>3, <1>4

(* The loops stay inside 1..N. *)
LEMMA NextNodeTyped ==
  ASSUME NEW after \in Phase, PipelineTypeOK, NextNode(after)
  PROVE  phase' \in Phase /\ cursor' \in Node
  BY NAssumption DEF NextNode, PipelineTypeOK, Node

LEMMA GotoTyped ==
  ASSUME NEW p \in Phase, Goto(p)
  PROVE  phase' \in Phase /\ cursor' \in Node
  BY NAssumption DEF Goto, Node

LEMMA FailTyped ==
  ASSUME FailInstallation
  PROVE  phase' \in {"drop", "uninstall"} /\ cursor' \in Node /\ result' = "err"
  BY NAssumption DEF FailInstallation, Goto, Node

LEMMA HostAtTyped ==
  ASSUME PipelineTypeOK, NEW n \in Node
  PROVE  at[n] \in Slot /\ HostAt(n) \in Host
  BY PlacesAssumption DEF PipelineTypeOK, HostAt

USE DEF Phase, Result, runVars, hostVars, histVars

(* Install and UNInstall work in the slot of the node they are at. *)
LEMMA OneSlotChanges ==
  ASSUME PipelineTypeOK, Install \/ UNInstall
  PROVE  \E i \in InstState : inst' = [inst EXCEPT ![at[cursor]] = i]
<1>1. inst[at[cursor]] \in InstState
  BY HostAtTyped DEF PipelineTypeOK
<1>2. CASE NoShell(cursor)
  <2>1. PICK r \in {[inst |-> inst[at[cursor]], ok |-> FALSE]} :
          inst' = [inst EXCEPT ![at[cursor]] = r.inst]
    BY <1>2, Zenon DEF Install, UNInstall, UNInstallThen
  <2>2. r.inst = inst[at[cursor]]
    BY <2>1
  <2> QED
    BY <1>1, <2>1, <2>2, Zenon
<1>3. CASE ~NoShell(cursor) /\ Install
  BY <1>1, <1>3, ResultsTyped, Zenon DEF Install
<1>4. CASE ~NoShell(cursor) /\ UNInstall
  BY <1>1, <1>4, ResultsTyped, Zenon DEF UNInstall, UNInstallThen
<1> QED
  BY <1>2, <1>3, <1>4

(* Type correctness of every pipeline step. *)
LEMMA PipelineTyped ==
  ASSUME PipelineTypeOK, PipelineNext
  PROVE  PipelineTypeOK'
<1>0. cursor \in Node /\ at[cursor] \in Slot /\ HostAt(cursor) \in Host
  BY HostAtTyped DEF PipelineTypeOK
<1>1. ASSUME NEW m \in Mode, NEW nr \in BOOLEAN, Begin(m, nr)
      PROVE  PipelineTypeOK'
  <2>1. phase' \in Phase /\ cursor' \in Node
    BY <1>1, GotoTyped DEF Begin, BeginAt
  <2>2. at' \in [Node -> Slot]
    BY <1>1, PlacesAssumption DEF Begin, BeginAt
  <2>3. before' \in Snapshot
    BY <1>1 DEF Begin, BeginAt, PipelineTypeOK, Snapshot
  <2>4. mode' \in Mode /\ keep' \in BOOLEAN /\ result' \in Result /\ blemish' \in BOOLEAN
    BY <1>1, Zenon DEF Begin, BeginAt
  <2>5. lost' \subseteq Node \X Channel /\ runs' \in Nat
    BY <1>1 DEF Begin, BeginAt, PipelineTypeOK
  <2>6. UNCHANGED <<tmp, home, inst, others>>
    BY <1>1 DEF Begin, BeginAt
  <2> QED
    BY <2>1, <2>2, <2>3, <2>4, <2>5, <2>6 DEF PipelineTypeOK
<1>2. CASE Connect
  BY <1>2, NextNodeTyped, GotoTyped DEF Connect, PipelineTypeOK, Return
<1>3. CASE CheckTmpDir
  BY <1>3, NextNodeTyped, GotoTyped DEF CheckTmpDir, CheckTmpDirElse, PipelineTypeOK, Return
<1>4. CASE Scp
  BY <1>0, <1>4, NextNodeTyped, GotoTyped, ResultsTyped DEF Scp, ScpElse, PipelineTypeOK
<1>5. CASE CheckEnv
  BY <1>5, NextNodeTyped, GotoTyped DEF CheckEnv, PipelineTypeOK
<1>6. CASE Install
  BY <1>0, <1>6, NextNodeTyped, FailTyped, ResultsTyped DEF Install, PipelineTypeOK, Mark
<1>7. CASE UNInstall
  BY <1>0, <1>7, NextNodeTyped, ResultsTyped DEF UNInstall, UNInstallThen, PipelineTypeOK, Mark
<1>8. CASE DropTmpDir
  <2>1. phase' \in Phase /\ cursor' \in Node /\ result' \in Result
    BY <1>8, NAssumption DEF DropTmpDir, EmptyTmpDir, PipelineTypeOK, Return, Goto, Node
  <2>2. tmp' \in [Host -> TmpState] /\ home' \in [Host -> {"intact", "wiped"}]
    <3>1. CASE UNCHANGED <<tmp, home>>
      BY <3>1 DEF PipelineTypeOK
    <3>2. CASE /\ tmp'  = [tmp EXCEPT ![HostAt(cursor)] = AfterDropTmpDir(tmp[HostAt(cursor)])]
               /\ home' = [home EXCEPT ![HostAt(cursor)] =
                            IF CdFails(tmp[HostAt(cursor)]) THEN "wiped" ELSE @]
      BY <1>0, <3>2, ResultsTyped DEF PipelineTypeOK, CdFails
    <3> QED
      BY <1>8, <3>1, <3>2 DEF DropTmpDir, EmptyTmpDir
  <2>3. blemish' \in BOOLEAN
    BY <1>8 DEF DropTmpDir, EmptyTmpDir, PipelineTypeOK, Mark
  <2> QED
    BY <1>8, <2>1, <2>2, <2>3 DEF DropTmpDir, EmptyTmpDir, PipelineTypeOK
<1>9. CASE Interrupt
  BY <1>9, GotoTyped DEF Interrupt, PipelineTypeOK, Return, Mark
<1>10. CASE LoseConnection
  <2>1. PICK n \in Node, c \in {Channel, {"sftp"}, {"ssh"}} : lost' = lost \cup ({n} \X c)
    BY <1>10 DEF LoseConnection
  <2>2. lost' \subseteq Node \X Channel
    BY <2>1 DEF PipelineTypeOK, Channel
  <2> QED
    BY <1>10, <2>2 DEF LoseConnection, PipelineTypeOK
<1>11. CASE OtherInstalls
  BY <1>11 DEF OtherInstalls, PipelineTypeOK, InstState
<1>12. CASE OtherFills
  BY <1>12 DEF OtherFills, PipelineTypeOK, TmpState
<1>13. CASE ProductStep
  BY <1>13, FailTyped DEF ProductStep, PipelineTypeOK
<1> QED
  BY <1>1, <1>2, <1>3, <1>4, <1>5, <1>6, <1>7, <1>8, <1>9, <1>10, <1>11, <1>12,
     <1>13 DEF PipelineNext, PipelineStep

-------------------------------------------------------------------------------
(* CheckEnv has found free the slots of the nodes it has passed, so whatever *)
(* Install and UNInstall change was not occupied when the run began.         *)
PriorInv ==
  mode = "deploy" =>
    /\ \A s \in Slot : before.inst[s] # "free" => inst[s] = before.inst[s]
    /\ phase = "checkenv" =>
         \A n \in Node : n < cursor => before.inst[at[n]] = "free"
    /\ phase \in {"install", "post", "verify", "uninstall"} =>
         \A n \in Node : before.inst[at[n]] = "free"

LEMMA PriorPreserved ==
  ASSUME PipelineTypeOK, PriorInv, PipelineNext
  PROVE  PriorInv'
<1>0. cursor \in Node /\ at[cursor] \in Slot /\ \A n \in Node : at[n] \in Slot
  BY HostAtTyped DEF PipelineTypeOK
<1>1. ASSUME NEW m \in Mode, NEW nr \in BOOLEAN, Begin(m, nr)
      PROVE  PriorInv'
  BY <1>1 DEF Begin, BeginAt, PriorInv, Goto
<1>2. CASE Connect
  BY <1>2 DEF Connect, PriorInv, NextNode, Return, Goto
<1>3. CASE CheckTmpDir
  BY <1>3 DEF CheckTmpDir, CheckTmpDirElse, PriorInv, NextNode, Return, Goto
<1>4. CASE Scp
  <2>1. \/ phase' \in {"scp", "uninstall", "drop"}
        \/ phase' = "checkenv" /\ cursor' = 1
    BY <1>4 DEF Scp, ScpElse, NextNode, Goto
  <2>2. mode = "deploy" => phase' # "uninstall"
    BY <1>4 DEF Scp, ScpElse, NextNode, Goto
  <2> QED
    BY <1>4, <2>1, <2>2, NAssumption DEF Scp, ScpElse, PriorInv, Node
<1>5. CASE CheckEnv
  <2>1. CASE inst[at[cursor]] = "free" /\ NextNode("install")
    <3>1. mode = "deploy" => before.inst[at[cursor]] = "free"
      BY <1>0, <2>1 DEF PriorInv
    <3>2. cursor < N => cursor' = cursor + 1 /\ phase' = "checkenv"
      BY <1>5, <2>1 DEF CheckEnv, NextNode
    <3>3. ~(cursor < N) => cursor = N /\ phase' = "install"
      BY <1>0, <2>1, NAssumption DEF NextNode, Node
    <3> QED
      BY <1>0, <1>5, <3>1, <3>2, <3>3, NAssumption DEF CheckEnv, PriorInv, Node
  <2>2. CASE Goto("drop")
    BY <1>5, <2>2 DEF CheckEnv, PriorInv, Goto
  <2> QED
    BY <1>5, <2>1, <2>2 DEF CheckEnv, CheckEnvOK
<1>6. CASE Install
  <2>1. phase' \in {"install", "post", "drop", "uninstall"}
    BY <1>6 DEF Install, NextNode, FailInstallation, Goto
  <2>2. PICK i : inst' = [inst EXCEPT ![at[cursor]] = i]
    BY <1>6 DEF Install
  <2> QED
    BY <1>0, <1>6, <2>1, <2>2 DEF Install, PriorInv, PipelineTypeOK
<1>7. CASE UNInstall
  <2>1. phase' \in {"uninstall", "drop"}
    BY <1>7 DEF UNInstall, UNInstallThen, NextNode, Goto
  <2>2. PICK i : inst' = [inst EXCEPT ![at[cursor]] = i]
    BY <1>7 DEF UNInstall, UNInstallThen
  <2> QED
    BY <1>0, <1>7, <2>1, <2>2 DEF UNInstall, UNInstallThen, PriorInv, PipelineTypeOK
<1>8. CASE DropTmpDir
  BY <1>8 DEF DropTmpDir, EmptyTmpDir, PriorInv, Return, Goto
<1>9. CASE Interrupt
  BY <1>9 DEF Interrupt, PriorInv, Return, Goto
<1>10. CASE LoseConnection
  BY <1>10 DEF LoseConnection, PriorInv
<1>11. CASE OtherInstalls
  BY <1>11 DEF OtherInstalls, PriorInv, PipelineTypeOK
<1>12. CASE OtherFills
  BY <1>12 DEF OtherFills, PriorInv
<1>13. CASE ProductStep
  BY <1>13 DEF ProductStep, PriorInv, FailInstallation, Goto
<1> QED
  BY <1>1, <1>2, <1>3, <1>4, <1>5, <1>6, <1>7, <1>8, <1>9, <1>10, <1>11, <1>12,
     <1>13 DEF PipelineNext, PipelineStep

-------------------------------------------------------------------------------
(* A node that CheckTmpDir has passed had no files of somebody else's when   *)
(* the run began, or its sftp channel has broken.  Without that channel Scp  *)
(* copies nothing there, but DropTmpDir may still empty the directory.       *)
Passed(n) == NoSftp(n) \/ before.tmp[HostAt(n)] \notin {"foreign", "file"}

Emptied(h) ==
  /\ before.tmp[h] = "foreign" /\ tmp[h] = "empty"
  /\ \E n \in Node : HostAt(n) = h
  /\ \A n \in Node : HostAt(n) = h => NoSftp(n)

ForeignInv ==
  /\ \A h \in Host : before.tmp[h] \in {"foreign", "file"} => tmp[h] = before.tmp[h] \/ Emptied(h)
  /\ phase = "checktmp" => \A n \in Node : n < cursor => Passed(n)
  /\ phase \notin {"done", "connect", "checktmp"} => \A n \in Node : Passed(n)

LEMMA ForeignPreserved ==
  ASSUME PipelineTypeOK, ForeignInv, PipelineNext
  PROVE  ForeignInv'
<1>0. cursor \in Node /\ \A n \in Node : HostAt(n) \in Host
  BY HostAtTyped DEF PipelineTypeOK
<1>1. ASSUME NEW m \in Mode, NEW nr \in BOOLEAN, Begin(m, nr)
      PROVE  ForeignInv'
  BY <1>1 DEF Begin, BeginAt, ForeignInv, Goto
<1>a. ASSUME UNCHANGED <<at, before>>, lost \subseteq lost'
      PROVE  /\ \A n \in Node : Passed(n) => Passed(n)'
             /\ UNCHANGED tmp => \A h \in Host : Emptied(h) => Emptied(h)'
  BY <1>a DEF Passed, Emptied, HostAt, NoSftp
<1>2. CASE Connect
  <2>1. \A h \in Host : Emptied(h) => Emptied(h)'
    BY <1>2, <1>a DEF Connect
  <2> QED
    BY <1>2, <2>1, NAssumption DEF Connect, ForeignInv, NextNode, Return, Goto, Node
<1>3. CASE CheckTmpDir
  <2>1. /\ \A n \in Node : Passed(n) => Passed(n)'
        /\ \A h \in Host : Emptied(h) => Emptied(h)'
    BY <1>3, <1>a DEF CheckTmpDir, CheckTmpDirElse
  <2>2. CASE /\ NoSftp(cursor) \/ CheckTmpDirOK(tmp[HostAt(cursor)])
             /\ NextNode("scp")
    <3>1. Passed(cursor)
      <4>1. CASE CheckTmpDirOK(tmp[HostAt(cursor)])
        BY <1>0, <4>1 DEF Passed, Emptied, ForeignInv, CheckTmpDirOK
      <4> QED
        BY <2>2, <4>1 DEF Passed
    <3>2. cursor < N => cursor' = cursor + 1 /\ phase' = "checktmp"
      BY <1>3, <2>2 DEF CheckTmpDir, CheckTmpDirElse, NextNode
    <3>3. ~(cursor < N) => cursor = N /\ phase' = "scp"
      BY <1>0, <2>2, NAssumption DEF NextNode, Node
    <3> QED
      BY <1>0, <1>3, <2>1, <3>1, <3>2, <3>3, NAssumption DEF CheckTmpDir, CheckTmpDirElse,
         ForeignInv, Node
  <2>3. CASE Goto("done")
    BY <1>3, <2>1, <2>3 DEF CheckTmpDir, CheckTmpDirElse, ForeignInv, Goto
  <2> QED
    BY <1>3, <2>2, <2>3 DEF CheckTmpDir, CheckTmpDirElse
<1>4. CASE Scp
  <2>1. \A n \in Node : Passed(n) => Passed(n)'
    BY <1>4, <1>a DEF Scp, ScpElse
  <2>2. phase' \notin {"done", "connect", "checktmp"}
    BY <1>4 DEF Scp, ScpElse, NextNode, Goto
  <2>3. PICK t \in TmpState :
          /\ tmp' = [tmp EXCEPT ![HostAt(cursor)] = t]
          /\ NoSftp(cursor) \/ tmp[HostAt(cursor)] \in {"foreign", "file"}
               => t = tmp[HostAt(cursor)]
    <3>1. tmp[HostAt(cursor)] \in TmpState
      BY <1>0 DEF PipelineTypeOK
    <3>2. ASSUME NEW r \in ScpResults(tmp[HostAt(cursor)])
          PROVE  /\ r.tmp \in TmpState
                 /\ tmp[HostAt(cursor)] \in {"foreign", "file"} => r.tmp = tmp[HostAt(cursor)]
      BY <3>1, <3>2, ResultsTyped DEF ScpResults
    <3>3. CASE NoSftp(cursor)
      <4>1. PICK r \in {[tmp |-> tmp[HostAt(cursor)], ok |-> FALSE]} :
              tmp' = [tmp EXCEPT ![HostAt(cursor)] = r.tmp]
        BY <1>4, <3>3, Zenon DEF Scp, ScpElse
      <4>2. r.tmp = tmp[HostAt(cursor)]
        BY <4>1
      <4> QED
        BY <3>1, <4>1, <4>2, Zenon
    <3>4. CASE ~NoSftp(cursor)
      <4>1. PICK r \in ScpResults(tmp[HostAt(cursor)]) :
              tmp' = [tmp EXCEPT ![HostAt(cursor)] = r.tmp]
        BY <1>4, <3>4 DEF Scp, ScpElse
      <4> QED
        BY <3>2, <3>4, <4>1
    <3> QED
      BY <3>3, <3>4
  <2>4. UNCHANGED <<at, before, lost>>
    BY <1>4 DEF Scp, ScpElse
  <2>5. ASSUME NEW h \in Host, before.tmp[h] \in {"foreign", "file"}
        PROVE  tmp'[h] = before.tmp[h] \/ Emptied(h)'
    <3>1. tmp'[h] = tmp[h]
      BY <1>0, <2>3, <2>5 DEF ForeignInv, Emptied, PipelineTypeOK
    <3> QED
      BY <2>4, <2>5, <3>1 DEF ForeignInv, Emptied, HostAt, NoSftp
  <2> QED
    BY <2>1, <2>2, <2>4, <2>5, <1>4 DEF Scp, ScpElse, ForeignInv
<1>5. CASE CheckEnv
  BY <1>5, <1>a DEF CheckEnv, ForeignInv, NextNode, Goto
<1>6. CASE Install
  BY <1>6, <1>a DEF Install, ForeignInv, NextNode, FailInstallation, Goto
<1>7. CASE UNInstall
  BY <1>7, <1>a DEF UNInstall, UNInstallThen, ForeignInv, NextNode, Goto
<1>8. CASE DropTmpDir
  <2>1. \A n \in Node : Passed(n) => Passed(n)'
    BY <1>8, <1>a DEF DropTmpDir, EmptyTmpDir
  <2>2. phase' \in {"done", "drop"}
    BY <1>8 DEF DropTmpDir, EmptyTmpDir, Return, Goto
  <2>3. UNCHANGED <<at, before, lost>>
    BY <1>8 DEF DropTmpDir, EmptyTmpDir
  <2>4. \/ UNCHANGED tmp
        \/ tmp' = [tmp EXCEPT ![HostAt(cursor)] = AfterDropTmpDir(tmp[HostAt(cursor)])]
    BY <1>8 DEF DropTmpDir, EmptyTmpDir
  <2>5. ASSUME NEW h \in Host, before.tmp[h] \in {"foreign", "file"}
        PROVE  tmp'[h] = before.tmp[h] \/ Emptied(h)'
    <3>1. CASE tmp'[h] = tmp[h]
      BY <2>3, <2>5, <3>1 DEF ForeignInv, Emptied, HostAt, NoSftp
    <3>2. CASE tmp'[h] # tmp[h]
      <4>1. h = HostAt(cursor) /\ tmp'[h] = AfterDropTmpDir(tmp[h])
        BY <1>0, <2>4, <3>2 DEF PipelineTypeOK
      <4>2. tmp'[h] = "empty" /\ tmp[h] # "file"
        BY <3>2, <4>1 DEF AfterDropTmpDir, CdFails
      <4>3. before.tmp[h] = "foreign"
        BY <2>5, <4>2 DEF ForeignInv, Emptied
      <4>4. \A n \in Node : HostAt(n) = h => NoSftp(n)
        BY <1>8, <2>5 DEF ForeignInv, Passed, DropTmpDir, EmptyTmpDir
      <4> QED
        BY <1>0, <2>3, <4>1, <4>2, <4>3, <4>4 DEF Emptied, HostAt, NoSftp
    <3> QED
      BY <3>1, <3>2
  <2> QED
    BY <1>8, <2>1, <2>2, <2>3, <2>5 DEF DropTmpDir, EmptyTmpDir, ForeignInv
<1>9. CASE Interrupt
  BY <1>9, <1>a DEF Interrupt, ForeignInv, Return, Goto
<1>10. CASE LoseConnection
  BY <1>10, <1>a DEF LoseConnection, ForeignInv
<1>11. CASE OtherInstalls
  BY <1>11, <1>a DEF OtherInstalls, ForeignInv
<1>12. CASE OtherFills
  <2>1. PICK g \in Host : /\ tmp[g] \in {"absent", "empty", "ours"}
                         /\ tmp' = [tmp EXCEPT ![g] = "foreign"]
    BY <1>12 DEF OtherFills
  <2>2. UNCHANGED <<phase, cursor, at, before, lost>>
    BY <1>12 DEF OtherFills
  <2>3. ASSUME NEW h \in Host, before.tmp[h] \in {"foreign", "file"}
        PROVE  tmp'[h] = before.tmp[h] \/ Emptied(h)'
    BY <2>1, <2>2, <2>3 DEF ForeignInv, Emptied, HostAt, NoSftp, PipelineTypeOK
  <2> QED
    BY <1>a, <2>2, <2>3 DEF ForeignInv
<1>13. CASE ProductStep
  BY <1>13, <1>a DEF ProductStep, ForeignInv, FailInstallation, Goto
<1> QED
  BY <1>1, <1>2, <1>3, <1>4, <1>5, <1>6, <1>7, <1>8, <1>9, <1>10, <1>11, <1>12,
     <1>13 DEF PipelineNext, PipelineStep

-------------------------------------------------------------------------------
(* The result is open until the clean-up begins; a rollback is an error.     *)
ResultInv ==
  /\ phase \in Early \cup Later => result = "none"
  /\ phase \in {"uninstall", "drop"} => result \in {"none", "err"}
  /\ phase = "uninstall" /\ mode = "deploy" => result = "err"

LEMMA ResultPreserved ==
  ASSUME PipelineTypeOK, ResultInv, PipelineNext
  PROVE  ResultInv'
<1>1. ASSUME NEW m \in Mode, NEW nr \in BOOLEAN, Begin(m, nr)
      PROVE  ResultInv'
  BY <1>1 DEF Begin, BeginAt, ResultInv, Goto
<1>2. CASE Connect \/ CheckTmpDir \/ CheckEnv
  BY <1>2 DEF Connect, CheckTmpDir, CheckTmpDirElse, CheckEnv, ResultInv, NextNode, Return, Goto,
     Early, Later
<1>3. CASE Scp
  BY <1>3 DEF Scp, ScpElse, ResultInv, NextNode, Goto, Early, Later
<1>4. CASE Install \/ ProductStep
  BY <1>4 DEF Install, ProductStep, ResultInv, NextNode, FailInstallation, Goto, Early, Later
<1>5. CASE UNInstall
  BY <1>5 DEF UNInstall, UNInstallThen, ResultInv, NextNode, Early, Later
<1>6. CASE DropTmpDir \/ Interrupt
  BY <1>6 DEF DropTmpDir, EmptyTmpDir, Interrupt, ResultInv, Return, Goto, Early, Later
<1>7. CASE LoseConnection \/ OtherInstalls \/ OtherFills
  BY <1>7 DEF LoseConnection, OtherInstalls, OtherFills, ResultInv
<1> QED
  BY <1>1, <1>2, <1>3, <1>4, <1>5, <1>6, <1>7 DEF PipelineNext, PipelineStep

-------------------------------------------------------------------------------
(* The nodes before k run, each in a slot of its own. *)
UpBefore(k) ==
  /\ \A n \in Node : n < k => inst[at[n]] = "up"
  /\ \A m, n \in Node : m < k /\ n < k /\ m # n => at[m] # at[n]

(* Install has gone through on every node and nothing was rolled back. *)
Installed ==
  \/ phase \in {"post", "verify"}
  \/ phase = "drop" /\ result = "none"
  \/ phase = "done" /\ result = "ok"

DeployedInv ==
  mode = "deploy" =>
    /\ phase = "install" => UpBefore(cursor)
    /\ Installed => UpBefore(N + 1)

LEMMA DeployedPreserved ==
  ASSUME PipelineTypeOK, ResultInv, DeployedInv, PipelineNext
  PROVE  DeployedInv'
<1>0. cursor \in Node /\ at[cursor] \in Slot /\ \A n \in Node : at[n] \in Slot
  BY HostAtTyped DEF PipelineTypeOK
<1>1. ASSUME NEW m \in Mode, NEW nr \in BOOLEAN, Begin(m, nr)
      PROVE  DeployedInv'
  BY <1>1 DEF Begin, BeginAt, DeployedInv, Installed, Goto
<1>2. CASE Connect \/ CheckTmpDir
  BY <1>2 DEF Connect, CheckTmpDir, CheckTmpDirElse, DeployedInv, Installed, NextNode, Return,
     Goto
<1>3. CASE Scp
  BY <1>3 DEF Scp, ScpElse, DeployedInv, Installed, NextNode, Goto
<1>4. CASE CheckEnv
  <2>1. ~Installed' /\ (phase' = "install" => cursor' = 1)
    BY <1>4 DEF CheckEnv, Installed, NextNode, Goto
  <2> QED
    BY <1>4, <2>1, NAssumption DEF DeployedInv, UpBefore, Node
<1>5. CASE Install
  <2>1. CASE FailInstallation
    BY <2>1 DEF FailInstallation, DeployedInv, Installed, Goto
  <2>2. CASE ~FailInstallation /\ mode = "deploy"
    <3>1. /\ inst[at[cursor]] = "free" /\ inst' = [inst EXCEPT ![at[cursor]] = "up"]
          /\ NextNode("post")
      <4>1. ~NoShell(cursor)
        BY <1>5, <2>2 DEF Install
      <4>2. PICK r \in InstallResults(inst[at[cursor]]) :
              /\ inst' = [inst EXCEPT ![at[cursor]] = r.inst]
              /\ IF r.ok THEN NextNode("post") /\ UNCHANGED result ELSE FailInstallation
        BY <1>5, <4>1 DEF Install
      <4>3. r.ok /\ NextNode("post")
        BY <2>2, <4>2
      <4>4. inst[at[cursor]] = "free" /\ r.inst = "up"
        BY <4>3 DEF InstallResults, CheckEnvOK
      <4> QED
        BY <4>2, <4>3, <4>4
    <3>2. UpBefore(cursor)
      BY <1>5, <2>2 DEF DeployedInv, Install
    <3>3. /\ \A n \in Node : n <= cursor => inst'[at[n]] = "up"
          /\ \A m, n \in Node : m <= cursor /\ n <= cursor /\ m # n => at[m] # at[n]
      BY <1>0, <3>1, <3>2 DEF UpBefore, PipelineTypeOK, Node
    <3>4. UNCHANGED <<at, result, mode>>
      BY <1>5, <2>2 DEF Install
    <3>5. CASE cursor < N
      <4>1. phase' = "install" /\ cursor' = cursor + 1
        BY <1>5, <3>1, <3>5 DEF Install, NextNode
      <4> QED
        BY <1>0, <3>3, <3>4, <4>1 DEF DeployedInv, Installed, UpBefore, Node
    <3>6. CASE ~(cursor < N)
      <4>1. phase' = "post" /\ cursor = N
        BY <1>0, <3>1, <3>6, NAssumption DEF NextNode, Node
      <4> QED
        BY <3>3, <3>4, <4>1, NAssumption DEF DeployedInv, UpBefore, Node
    <3> QED
      BY <3>5, <3>6
  <2> QED
    BY <1>5, <2>1, <2>2 DEF Install, DeployedInv
<1>6. CASE UNInstall
  BY <1>6 DEF UNInstall, UNInstallThen, ResultInv, DeployedInv, Installed, NextNode
<1>7. CASE DropTmpDir
  <2>1. Installed' => Installed
    BY <1>7 DEF DropTmpDir, EmptyTmpDir, ResultInv, Installed, Return, Goto
  <2>2. phase' # "install"
    BY <1>7 DEF DropTmpDir, EmptyTmpDir, Return, Goto
  <2> QED
    BY <1>7, <2>1, <2>2 DEF DropTmpDir, EmptyTmpDir, DeployedInv, UpBefore
<1>8. CASE Interrupt
  BY <1>8 DEF Interrupt, DeployedInv, Installed, Return, Goto
<1>9. CASE LoseConnection \/ OtherFills
  BY <1>9 DEF LoseConnection, OtherFills, DeployedInv, Installed, UpBefore
<1>10. CASE OtherInstalls
  <2>1. \A n \in Node : inst[at[n]] = "up" => inst'[at[n]] = "up"
    BY <1>0, <1>10 DEF OtherInstalls, PipelineTypeOK
  <2> QED
    BY <1>10, <2>1 DEF OtherInstalls, DeployedInv, Installed, UpBefore
<1>11. CASE ProductStep
  BY <1>11 DEF ProductStep, DeployedInv, Installed, UpBefore, FailInstallation, Goto
<1> QED
  BY <1>1, <1>2, <1>3, <1>4, <1>5, <1>6, <1>7, <1>8, <1>9, <1>10, <1>11
     DEF PipelineNext, PipelineStep

-------------------------------------------------------------------------------
(* Until DropTmpDir runs, and for as long as the run has not failed, the     *)
(* home directories are as they were and "cd" works where Scp has been.      *)
HomeInv ==
  /\ phase \in Early => home = before.home
  /\ phase = "scp" => \A n \in Node : n < cursor => ~CdFails(tmp[HostAt(n)])
  /\ phase \in Later \/ (phase \in {"uninstall", "drop"} /\ result = "none") =>
       home = before.home /\ \A n \in Node : ~CdFails(tmp[HostAt(n)])
  /\ phase = "done" /\ result = "ok" => home = before.home

LEMMA ScpMakesDirectory ==
  ASSUME NEW t \in TmpState, NEW r \in ScpResults(t)
  PROVE  /\ r.ok => ~CdFails(r.tmp)
         /\ ~CdFails(t) => ~CdFails(r.tmp)
  BY DEF ScpResults, CdFails, TmpState

LEMMA HomePreserved ==
  ASSUME PipelineTypeOK, ResultInv, HomeInv, PipelineNext
  PROVE  HomeInv'
<1>0. cursor \in Node /\ \A n \in Node : HostAt(n) \in Host
  BY HostAtTyped DEF PipelineTypeOK
<1>1. ASSUME NEW m \in Mode, NEW nr \in BOOLEAN, Begin(m, nr)
      PROVE  HomeInv'
  BY <1>1 DEF Begin, BeginAt, HomeInv, Goto, Early, Later
<1>2. CASE Connect \/ CheckTmpDir
  BY <1>2, NAssumption
     DEF Connect, CheckTmpDir, CheckTmpDirElse, HomeInv, ResultInv, NextNode, Return, Goto,
        Early, Later, Node
<1>3. CASE Scp
  <2>0. UNCHANGED <<at, home, before>> /\ phase = "scp" /\ home = before.home
    BY <1>3 DEF Scp, ScpElse, HomeInv, Early
  <2>1. CASE Goto("drop") /\ result' = "err"
    BY <2>0, <2>1 DEF HomeInv, Goto, Early, Later
  <2>2. CASE ~(Goto("drop") /\ result' = "err")
    <3>1. PICK r \in ScpResults(tmp[HostAt(cursor)]) :
            /\ r.ok
            /\ tmp' = [tmp EXCEPT ![HostAt(cursor)] = r.tmp]
            /\ NextNode(IF mode = "deploy" THEN "checkenv" ELSE "uninstall")
      <4>1. CASE NoSftp(cursor)
        BY <1>3, <2>2, <4>1 DEF Scp, ScpElse
      <4>2. CASE ~NoSftp(cursor)
        BY <1>3, <2>2, <4>2, Zenon DEF Scp, ScpElse
      <4> QED
        BY <4>1, <4>2
    <3>2. \A n \in Node : n <= cursor => ~CdFails(tmp'[HostAt(n)])
      <4>1. tmp[HostAt(cursor)] \in TmpState
        BY <1>0 DEF PipelineTypeOK
      <4>2. ~CdFails(r.tmp)
        BY <3>1, <4>1, ScpMakesDirectory
      <4> QED
        BY <1>0, <2>0, <3>1, <4>2 DEF HomeInv, PipelineTypeOK, Node
    <3>3. HostAt(cursor)' = SlotHost[at[cursor']] /\ \A n \in Node : HostAt(n)' = HostAt(n)
      BY <2>0 DEF HostAt
    <3>4. CASE cursor < N
      <4>1. phase' = "scp" /\ cursor' = cursor + 1
        BY <2>0, <3>1, <3>4 DEF NextNode
      <4> QED
        BY <1>0, <2>0, <3>2, <3>3, <4>1 DEF HomeInv, Early, Later, Node
    <3>5. CASE ~(cursor < N)
      <4>1. phase' \in {"checkenv", "uninstall"} /\ \A n \in Node : n <= cursor
        BY <1>0, <3>1, <3>5, NAssumption DEF NextNode, Node
      <4> QED
        BY <2>0, <3>2, <3>3, <4>1 DEF HomeInv, Early, Later
    <3> QED
      BY <3>4, <3>5
  <2> QED
    BY <2>1, <2>2
<1>4. CASE CheckEnv
  BY <1>4 DEF CheckEnv, HomeInv, NextNode, Goto, Early, Later, HostAt
<1>5. CASE Install
  BY <1>5 DEF Install, HomeInv, NextNode, FailInstallation, Goto, Early, Later, HostAt
<1>6. CASE UNInstall
  BY <1>6 DEF UNInstall, UNInstallThen, HomeInv, NextNode, Early, Later, HostAt
<1>7. CASE DropTmpDir
  <2>0. UNCHANGED <<at, before>> /\ phase = "drop"
    BY <1>7 DEF DropTmpDir, EmptyTmpDir
  <2>1. phase' \in {"done", "drop"} /\ (phase' = "drop" => result' = result)
        /\ (phase' = "done" /\ result' = "ok" => result = "none")
    BY <1>7 DEF DropTmpDir, EmptyTmpDir, ResultInv, Return, Goto
  <2>2. CASE result = "none"
    <3>1. ~CdFails(tmp[HostAt(cursor)])
      BY <1>0, <2>0, <2>2 DEF HomeInv
    <3>2. home' = home
      BY <1>7, <3>1 DEF DropTmpDir, EmptyTmpDir, PipelineTypeOK
    <3>3. \A n \in Node : ~CdFails(tmp'[HostAt(n)])
      BY <1>0, <1>7, <2>0, <2>2 DEF DropTmpDir, EmptyTmpDir, HomeInv, PipelineTypeOK, CdFails,
         AfterDropTmpDir
    <3> QED
      BY <2>0, <2>1, <2>2, <3>2, <3>3 DEF HomeInv, HostAt, Early, Later
  <2>3. CASE result # "none"
    BY <2>1, <2>3 DEF HomeInv, Early, Later
  <2> QED
    BY <2>2, <2>3
<1>8. CASE Interrupt
  BY <1>8 DEF Interrupt, HomeInv, Return, Goto, Early, Later
<1>9. CASE LoseConnection \/ OtherInstalls
  BY <1>9 DEF LoseConnection, OtherInstalls, HomeInv, HostAt
<1>10. CASE OtherFills
  <2>1. \A h \in Host : ~CdFails(tmp[h]) => ~CdFails(tmp'[h])
    BY <1>10 DEF OtherFills, CdFails, PipelineTypeOK
  <2> QED
    BY <1>0, <1>10, <2>1 DEF OtherFills, HomeInv, HostAt
<1>11. CASE ProductStep
  BY <1>11 DEF ProductStep, HomeInv, FailInstallation, Goto, Early, Later, HostAt
<1> QED
  BY <1>1, <1>2, <1>3, <1>4, <1>5, <1>6, <1>7, <1>8, <1>9, <1>10, <1>11
     DEF PipelineNext, PipelineStep

-------------------------------------------------------------------------------
(* What is left of a run in which every clean-up command worked and nobody   *)
(* else changed a machine.                                                   *)
Undisturbed == ~blemish /\ others = 0

(* Only slots of the nodes from k on differ from what the run found, and no   *)
(* process there has lost its unit.                                           *)
ChangedFrom(k) ==
  \A s \in Slot : inst[s] # before.inst[s] =>
    inst[s] # "orphan" /\ \E n \in Node : n >= k /\ at[n] = s

TraceInv ==
  mode = "deploy" /\ Undisturbed =>
    /\ phase \in Early \cup {"checkenv"} => ChangedFrom(N + 1)
    /\ phase \in {"install", "post", "verify"} => ChangedFrom(1)
    /\ phase = "uninstall" => ChangedFrom(cursor)
    /\ phase \in {"drop", "done"} /\ result = "err" /\ ~keep => ChangedFrom(N + 1)

LEMMA CheckTmpDirFrame ==
  ASSUME CheckTmpDir
  PROVE  /\ UNCHANGED <<mode, keep, at, hostVars, histVars>>
         /\ phase' \in {"checktmp", "scp", "done"}
  BY DEF CheckTmpDir, CheckTmpDirElse, NextNode, Goto

LEMMA TracePreserved ==
  ASSUME PipelineTypeOK, PriorInv, ResultInv, TraceInv, PipelineNext
  PROVE  TraceInv'
<1> USE NAssumption
<1>0. /\ cursor \in Node /\ at[cursor] \in Slot /\ \A n \in Node : at[n] \in Slot
      /\ N + 1 \in Nat /\ \A n \in Node : n \in Nat /\ n >= 1 /\ n <= N
  BY HostAtTyped DEF PipelineTypeOK, Node
<1>a. ASSUME UNCHANGED <<at, inst, before>>, NEW k \in Nat, ChangedFrom(k)
      PROVE  ChangedFrom(k)' /\ (k = N + 1 => ChangedFrom(1)')
  BY <1>0, <1>a DEF ChangedFrom
<1>1. ASSUME NEW m \in Mode, NEW nr \in BOOLEAN, Begin(m, nr)
      PROVE  TraceInv'
  BY <1>1 DEF Begin, BeginAt, TraceInv, ChangedFrom, Goto, Early
<1>2. CASE Connect
  BY <1>0, <1>2, <1>a
     DEF Connect, TraceInv, Undisturbed, NextNode, Return, Goto, Early
<1>3. CASE CheckTmpDir
  <2>1. phase = "checktmp"
    BY <1>3 DEF CheckTmpDir, CheckTmpDirElse
  <2> QED
    BY <1>0, <1>3, <1>a, <2>1, CheckTmpDirFrame DEF TraceInv, Undisturbed, Early
<1>4. CASE Scp
  <2>1. /\ UNCHANGED <<mode, keep, at, inst, histVars>> /\ phase = "scp"
        /\ phase' \in {"scp", "checkenv", "uninstall", "drop"}
        /\ mode = "deploy" => phase' # "uninstall"
    BY <1>4 DEF Scp, ScpElse, NextNode, Goto
  <2> QED
    BY <1>0, <1>a, <2>1 DEF TraceInv, Undisturbed, Early
<1>5. CASE CheckEnv
  <2>1. phase' \in {"checkenv", "install", "drop"}
    BY <1>5 DEF CheckEnv, NextNode, Goto
  <2> QED
    BY <1>0, <1>5, <1>a, <2>1 DEF CheckEnv, TraceInv, Undisturbed, Early
<1>6. CASE Install
  <2>1. PICK i \in InstState :
          inst' = [inst EXCEPT ![at[cursor]] = i] /\ blemish' = (blemish \/ i = "orphan")
    <3>1. inst[at[cursor]] \in InstState
      BY <1>0 DEF PipelineTypeOK
    <3>2. CASE NoShell(cursor)
      <4>1. PICK r \in {[inst |-> inst[at[cursor]], ok |-> FALSE]} :
              inst' = [inst EXCEPT ![at[cursor]] = r.inst] /\ Mark(r.inst = "orphan")
        BY <1>6, <3>2, Zenon DEF Install
      <4>2. r.inst = inst[at[cursor]]
        BY <4>1
      <4> QED
        BY <3>1, <4>1, <4>2, Zenon DEF Mark
    <3>3. CASE ~NoShell(cursor)
      BY <1>6, <3>1, <3>3, ResultsTyped DEF Install, Mark
    <3> QED
      BY <3>2, <3>3
  <2>2. /\ phase' \in {"install", "post", "uninstall", "drop"}
        /\ phase' = "uninstall" => cursor' = 1
        /\ phase' = "drop" => keep
    BY <1>6 DEF Install, NextNode, FailInstallation, Goto
  <2>3. /\ UNCHANGED <<mode, keep, at, before, others>> /\ phase = "install"
    BY <1>6 DEF Install
  <2>4. ASSUME ChangedFrom(1), i # "orphan"
        PROVE  ChangedFrom(1)'
    BY <1>0, <2>1, <2>3, <2>4 DEF ChangedFrom, PipelineTypeOK
  <2> QED
    BY <2>1, <2>2, <2>3, <2>4 DEF TraceInv, Undisturbed, Early
<1>7. CASE UNInstall /\ mode = "deploy" /\ Undisturbed'
  <2>1. /\ UNCHANGED <<mode, keep, at, before, others>> /\ phase = "uninstall"
    BY <1>7 DEF UNInstall, UNInstallThen
  <2>2. PICK r \in UNInstallResults(inst[at[cursor]]) :
          r.ok /\ inst' = [inst EXCEPT ![at[cursor]] = r.inst]
    <3>1. \A r : Mark(~r.ok) => r.ok
      BY <1>7 DEF Undisturbed, Mark
    <3>2. CASE NoShell(cursor)
      <4>1. PICK r \in {[inst |-> inst[at[cursor]], ok |-> FALSE]} : Mark(~r.ok)
        BY <1>7, <3>2, Zenon DEF UNInstall, UNInstallThen
      <4> QED
        BY <3>1, <4>1
    <3>3. CASE ~NoShell(cursor)
      BY <1>7, <3>1, <3>3, Zenon DEF UNInstall, UNInstallThen
    <3> QED
      BY <3>2, <3>3
  <2>3. ~blemish /\ NextNode("drop")
    BY <1>7 DEF UNInstall, UNInstallThen, Undisturbed, Mark
  <2>4. ChangedFrom(cursor) /\ before.inst[at[cursor]] = "free"
    BY <1>0, <1>7, <2>1, <2>3 DEF TraceInv, Undisturbed, PriorInv
  <2>5. inst'[at[cursor]] = before.inst[at[cursor]]
    BY <1>0, <2>2, <2>4 DEF UNInstallResults, ChangedFrom, PipelineTypeOK
  <2>6. \A s \in Slot : inst'[s] # before'.inst[s] =>
          inst'[s] # "orphan" /\ \E n \in Node : n >= cursor + 1 /\ at'[n] = s
    BY <1>0, <2>1, <2>2, <2>4, <2>5 DEF ChangedFrom, PipelineTypeOK
  <2>7. CASE cursor < N
    BY <2>1, <2>3, <2>6, <2>7 DEF NextNode, TraceInv, ChangedFrom, Early
  <2>8. CASE ~(cursor < N)
    <3>1. phase' = "drop" /\ cursor = N
      BY <1>0, <2>3, <2>8 DEF NextNode, Node
    <3> QED
      BY <2>6, <3>1 DEF TraceInv, ChangedFrom, Early
  <2> QED
    BY <2>7, <2>8
<1>8. CASE DropTmpDir
  <2>1. /\ UNCHANGED <<mode, keep, at, inst, before, others>> /\ phase = "drop"
        /\ phase' \in {"drop", "done"} /\ (result' = "err" => result = "err")
    BY <1>8 DEF DropTmpDir, EmptyTmpDir, Return, Goto
  <2>2. ~blemish' => ~blemish
    BY <1>8 DEF DropTmpDir, EmptyTmpDir, Mark
  <2> QED
    BY <1>0, <1>a, <2>1, <2>2 DEF TraceInv, Undisturbed, Early
<1>9. CASE Interrupt
  BY <1>9 DEF Interrupt, Mark, TraceInv, Undisturbed
<1>10. CASE LoseConnection \/ OtherFills
  BY <1>0, <1>10, <1>a DEF LoseConnection, OtherFills, TraceInv, Undisturbed, PipelineTypeOK
<1>11. CASE OtherInstalls
  BY <1>11 DEF OtherInstalls, TraceInv, Undisturbed, PipelineTypeOK
<1>12. CASE ProductStep
  <2>1. /\ UNCHANGED <<mode, keep, at, inst, before, others, blemish>>
        /\ phase \in {"post", "verify"}
        /\ \/ phase' \in {"post", "verify"}
           \/ phase' = "drop" /\ result' = "none"
           \/ phase' = "drop" /\ keep
           \/ phase' = "uninstall" /\ cursor' = 1
    BY <1>12 DEF ProductStep, FailInstallation, Goto, ResultInv, Later
  <2> QED
    BY <1>a, <2>1 DEF TraceInv, Undisturbed, Early
<1> QED
  BY <1>1, <1>2, <1>3, <1>4, <1>5, <1>6, <1>7, <1>8, <1>9, <1>10, <1>11, <1>12
     DEF PipelineNext, PipelineStep, UNInstall, UNInstallThen, TraceInv

-------------------------------------------------------------------------------
(* The check of node n has seen a temporary directory that may be used, or    *)
(* its sftp channel has broken.                                               *)
Checked(n) == NoSftp(n) \/ CheckTmpDirOK(before.tmp[HostAt(n)])

(* Where the temporary directory is not as it was found, it was emptied, or   *)
(* could be used and is still to be emptied when DropTmpDir reaches node k.    *)
CopiedFrom(k) ==
  \A h \in Host :
    \/ tmp[h] \in {before.tmp[h], "empty"}
    \/ /\ CheckTmpDirOK(before.tmp[h]) /\ tmp[h] = "ours"
       /\ \E n \in Node : n >= k /\ HostAt(n) = h

CopyInv ==
  Undisturbed =>
    /\ phase \in {"connect", "checktmp"} => \A h \in Host : tmp[h] = before.tmp[h]
    /\ phase = "checktmp" => \A n \in Node : n < cursor => Checked(n)
    /\ phase \notin {"done", "connect", "checktmp"} => \A n \in Node : Checked(n)
    /\ phase \in {"scp", "uninstall"} \cup Later => CopiedFrom(1)
    /\ phase = "drop" => CopiedFrom(cursor)
    /\ phase = "done" => CopiedFrom(N + 1)

(* A step that leaves the temporary directories alone, in a phase between    *)
(* CheckTmpDir and DropTmpDir, keeps CopyInv.                                *)
LEMMA CopyKept ==
  ASSUME CopyInv, UNCHANGED <<at, tmp, before, others>>, lost \subseteq lost',
         ~blemish' => ~blemish,
         phase \in {"uninstall"} \cup Later,
         phase' \in {"uninstall", "drop"} \cup Later, phase' = "drop" => cursor' = 1
  PROVE  CopyInv'
<1> SUFFICES ASSUME Undisturbed'
             PROVE  (\A n \in Node : Checked(n)') /\ CopiedFrom(1)'
  BY DEF CopyInv, Later, CopiedFrom
<1>1. (\A n \in Node : Checked(n)) /\ CopiedFrom(1)
  BY DEF CopyInv, Undisturbed, Later
<1> QED
  BY <1>1 DEF Checked, CopiedFrom, HostAt, NoSftp

LEMMA CopyPreserved ==
  ASSUME PipelineTypeOK, CopyInv, PipelineNext
  PROVE  CopyInv'
<1> USE NAssumption
<1>0. /\ cursor \in Node /\ HostAt(cursor) \in Host /\ \A n \in Node : HostAt(n) \in Host
      /\ \A n \in Node : n \in Nat /\ n >= 1 /\ n <= N
  BY HostAtTyped DEF PipelineTypeOK, Node
<1>1. ASSUME NEW m \in Mode, NEW nr \in BOOLEAN, Begin(m, nr)
      PROVE  CopyInv'
  BY <1>1 DEF Begin, BeginAt, CopyInv, CopiedFrom, Goto, Later
<1>2. CASE Connect
  <2>1. /\ UNCHANGED <<at, lost, tmp, before, blemish, others>> /\ phase = "connect"
        /\ phase' \in {"connect", "checktmp", "done"} /\ (phase' = "checktmp" => cursor' = 1)
    BY <1>2 DEF Connect, NextNode, Return, Goto
  <2> QED
    BY <1>0, <2>1 DEF CopyInv, Undisturbed, CopiedFrom, Later
<1>3. CASE CheckTmpDir
  <2>1. /\ UNCHANGED <<at, lost, tmp, before, blemish, others>> /\ phase = "checktmp"
        /\ \/ phase' = "done"
           \/ /\ NoSftp(cursor) \/ CheckTmpDirOK(tmp[HostAt(cursor)])
              /\ NextNode("scp")
    BY <1>3 DEF CheckTmpDir, CheckTmpDirElse, Goto
  <2>2. \A n \in Node : Checked(n)' <=> Checked(n)
    BY <2>1 DEF Checked, HostAt, NoSftp
  <2>3. CASE phase' = "done"
    BY <2>1, <2>3 DEF CopyInv, Undisturbed, CopiedFrom, Later
  <2>4. CASE /\ NoSftp(cursor) \/ CheckTmpDirOK(tmp[HostAt(cursor)])
             /\ NextNode("scp")
    <3>1. Undisturbed => \A n \in Node : n <= cursor => Checked(n)
      BY <1>0, <2>1, <2>4 DEF CopyInv, Checked, Node
    <3>2. CASE cursor < N
      <4>1. phase' = "checktmp" /\ cursor' = cursor + 1
        BY <2>1, <2>4, <3>2 DEF NextNode
      <4> QED
        BY <1>0, <2>1, <2>2, <3>1, <4>1 DEF CopyInv, Undisturbed, Later, Node
    <3>3. CASE ~(cursor < N)
      <4>1. phase' = "scp" /\ cursor = N
        BY <1>0, <2>4, <3>3 DEF NextNode, Node
      <4> QED
        BY <1>0, <2>1, <2>2, <3>1, <4>1 DEF CopyInv, Undisturbed, CopiedFrom, Later
    <3> QED
      BY <3>2, <3>3
  <2> QED
    BY <2>1, <2>3, <2>4
<1>4. CASE Scp
  <2>1. /\ UNCHANGED <<at, lost, before, blemish, others>> /\ phase = "scp"
        /\ phase' \in {"scp", "checkenv", "uninstall", "drop"}
        /\ phase' = "drop" => cursor' = 1
    BY <1>4 DEF Scp, ScpElse, NextNode, Goto
  <2>2. CASE Undisturbed
    <3>1. CopiedFrom(1) /\ \A n \in Node : Checked(n)
      BY <2>1, <2>2 DEF CopyInv
    <3>2. PICK t : /\ tmp' = [tmp EXCEPT ![HostAt(cursor)] = t]
                   /\ \/ t = tmp[HostAt(cursor)]
                      \/ t = "ours" /\ CheckTmpDirOK(before.tmp[HostAt(cursor)])
      <4>1. CASE NoSftp(cursor)
        <5>1. PICK r \in {[tmp |-> tmp[HostAt(cursor)], ok |-> FALSE]} :
                tmp' = [tmp EXCEPT ![HostAt(cursor)] = r.tmp]
          BY <1>4, <4>1, Zenon DEF Scp, ScpElse
        <5>2. r.tmp = tmp[HostAt(cursor)]
          BY <5>1
        <5> QED
          BY <5>1, <5>2, Zenon
      <4>2. CASE ~NoSftp(cursor)
        <5>1. PICK r \in ScpResults(tmp[HostAt(cursor)]) :
                tmp' = [tmp EXCEPT ![HostAt(cursor)] = r.tmp]
          BY <1>4, <4>2, Zenon DEF Scp, ScpElse
        <5>2. CheckTmpDirOK(before.tmp[HostAt(cursor)])
          BY <1>0, <3>1, <4>2 DEF Checked
        <5>3. tmp[HostAt(cursor)] \notin {"foreign", "file"}
          BY <1>0, <3>1, <5>2 DEF CopiedFrom, CheckTmpDirOK
        <5>4. r.tmp \in {tmp[HostAt(cursor)], "ours"}
          BY <5>1, <5>3 DEF ScpResults
        <5> QED
          BY <5>1, <5>2, <5>4, Zenon
      <4> QED
        BY <4>1, <4>2
    <3>3. CopiedFrom(1)'
      BY <1>0, <2>1, <3>1, <3>2 DEF CopiedFrom, HostAt, PipelineTypeOK
    <3>4. \A n \in Node : Checked(n)'
      BY <2>1, <3>1 DEF Checked, HostAt, NoSftp
    <3>5. phase' = "drop" => CopiedFrom(cursor)'
      BY <2>1, <3>3 DEF CopiedFrom
    <3> QED
      BY <2>1, <3>3, <3>4, <3>5 DEF CopyInv
  <2> QED
    BY <2>1, <2>2 DEF CopyInv, Undisturbed
<1>5. CASE CheckEnv
  BY <1>5, CopyKept DEF CheckEnv, NextNode, Goto, Later
<1>6. CASE Install
  <2>1. ~blemish' => ~blemish
    BY <1>6 DEF Install, Mark
  <2> QED
    BY <1>6, <2>1, CopyKept DEF Install, FailInstallation, NextNode, Goto, Later
<1>7. CASE UNInstall
  <2>1. ~blemish' => ~blemish
    BY <1>7 DEF UNInstall, UNInstallThen, Mark
  <2> QED
    BY <1>7, <2>1, CopyKept DEF UNInstall, UNInstallThen, NextNode, Goto, Later
<1>8. CASE DropTmpDir
  <2>0. ~blemish' => ~blemish
    BY <1>8 DEF DropTmpDir, EmptyTmpDir, Mark
  <2>1. UNCHANGED <<at, lost, before, others>> /\ phase = "drop"
    BY <1>8 DEF DropTmpDir, EmptyTmpDir
  <2>2. CASE Undisturbed'
    <3>1. CopiedFrom(cursor) /\ \A n \in Node : Checked(n)
      BY <2>0, <2>1, <2>2 DEF CopyInv, Undisturbed
    <3>2. tmp' = [tmp EXCEPT ![HostAt(cursor)] = AfterDropTmpDir(tmp[HostAt(cursor)])]
      BY <1>8, <2>2 DEF DropTmpDir, EmptyTmpDir, Mark, Undisturbed
    <3>4. tmp'[HostAt(cursor)] \in {before.tmp[HostAt(cursor)], "empty"}
      BY <1>0, <3>1, <3>2 DEF AfterDropTmpDir, CdFails, CopiedFrom, PipelineTypeOK
    <3>5. \A h \in Host :
            \/ tmp'[h] \in {before'.tmp[h], "empty"}
            \/ /\ CheckTmpDirOK(before'.tmp[h]) /\ tmp'[h] = "ours"
               /\ \E n \in Node : n >= cursor + 1 /\ HostAt(n)' = h
      BY <1>0, <2>1, <3>1, <3>2, <3>4 DEF CopiedFrom, HostAt, PipelineTypeOK
    <3>6. \A n \in Node : Checked(n)'
      BY <2>1, <3>1 DEF Checked, HostAt, NoSftp
    <3>7. CASE cursor < N
      <4>1. phase' = "drop" /\ cursor' = cursor + 1
        BY <1>8, <2>1, <3>7 DEF DropTmpDir
      <4> QED
        BY <3>5, <3>6, <4>1 DEF CopyInv, CopiedFrom, Later
    <3>8. CASE ~(cursor < N)
      <4>1. phase' = "done" /\ cursor = N
        BY <1>0, <1>8, <3>8 DEF DropTmpDir, Return, Goto, Node
      <4> QED
        BY <3>5, <4>1 DEF CopyInv, CopiedFrom, Later
    <3> QED
      BY <3>7, <3>8
  <2> QED
    BY <2>2 DEF CopyInv
<1>9. CASE Interrupt
  BY <1>9 DEF Interrupt, Mark, CopyInv, Undisturbed
<1>10. CASE LoseConnection
  <2>1. \A n \in Node : Checked(n) => Checked(n)'
    BY <1>10 DEF LoseConnection, Checked, HostAt, NoSftp
  <2> QED
    BY <1>10, <2>1 DEF LoseConnection, CopyInv, Undisturbed, CopiedFrom, HostAt
<1>11. CASE OtherInstalls \/ OtherFills
  BY <1>11 DEF OtherInstalls, OtherFills, CopyInv, Undisturbed, PipelineTypeOK
<1>12. CASE ProductStep
  BY <1>12, CopyKept DEF ProductStep, FailInstallation, Goto, Later
<1> QED
  BY <1>1, <1>2, <1>3, <1>4, <1>5, <1>6, <1>7, <1>8, <1>9, <1>10, <1>11, <1>12
     DEF PipelineNext, PipelineStep

-------------------------------------------------------------------------------
(* A removal never installs, and the slots UNInstall has passed have neither  *)
(* a unit nor a directory.                                                    *)
GoneBefore(k) == \A n \in Node : n < k => inst[at[n]] \in {"free", "orphan"}

RemovalInv ==
  mode = "remove" =>
    /\ phase \notin Later
    /\ Undisturbed /\ phase = "uninstall" => GoneBefore(cursor)
    /\ Undisturbed /\ phase = "drop" /\ result = "none" => GoneBefore(N + 1)
    /\ Undisturbed /\ phase = "done" /\ result = "ok" => GoneBefore(N + 1)

LEMMA RemovalPreserved ==
  ASSUME PipelineTypeOK, ResultInv, RemovalInv, PipelineNext
  PROVE  RemovalInv'
<1> USE NAssumption
<1>0. cursor \in Node /\ at[cursor] \in Slot /\ \A n \in Node : at[n] \in Slot
  BY HostAtTyped DEF PipelineTypeOK
<1>1. ASSUME NEW m \in Mode, NEW nr \in BOOLEAN, Begin(m, nr)
      PROVE  RemovalInv'
  BY <1>1 DEF Begin, BeginAt, RemovalInv, Goto, Later
<1>2. CASE Connect \/ CheckTmpDir
  BY <1>2 DEF Connect, CheckTmpDir, CheckTmpDirElse, RemovalInv, NextNode, Return, Goto, Later
<1>3. CASE Scp
  <2>1. /\ UNCHANGED mode
        /\ \/ phase' = "scp"
           \/ phase' = "drop" /\ result' = "err"
           \/ cursor' = 1 /\ phase' = IF mode = "deploy" THEN "checkenv" ELSE "uninstall"
    BY <1>3 DEF Scp, ScpElse, NextNode, Goto
  <2> QED
    BY <2>1 DEF RemovalInv, GoneBefore, Later, Node
<1>4. CASE CheckEnv \/ Install \/ ProductStep
  <2>1. phase \in Later /\ UNCHANGED mode
    BY <1>4 DEF CheckEnv, Install, ProductStep, Later
  <2> QED
    BY <2>1 DEF RemovalInv
<1>5. CASE UNInstall
  <2>1. UNCHANGED <<mode, at, result, others>> /\ phase = "uninstall" /\ NextNode("drop")
    BY <1>5 DEF UNInstall, UNInstallThen
  <2>2. CASE mode = "remove" /\ Undisturbed'
    <3>1. \A r : Mark(~r.ok) => ~blemish /\ r.ok
      BY <2>2 DEF Undisturbed, Mark
    <3>2. PICK r \in UNInstallResults(inst[at[cursor]]) :
            ~blemish /\ r.ok /\ inst' = [inst EXCEPT ![at[cursor]] = r.inst]
      <4>1. CASE NoShell(cursor)
        <5>1. PICK r \in {[inst |-> inst[at[cursor]], ok |-> FALSE]} : Mark(~r.ok)
          BY <1>5, <4>1, Zenon DEF UNInstall, UNInstallThen
        <5> QED
          BY <3>1, <5>1
      <4>2. CASE ~NoShell(cursor)
        BY <1>5, <3>1, <4>2, Zenon DEF UNInstall, UNInstallThen
      <4> QED
        BY <4>1, <4>2
    <3>3. r.inst \in {"free", "orphan"}
      BY <3>2 DEF UNInstallResults
    <3>4. GoneBefore(cursor)
      BY <2>1, <2>2, <3>2 DEF RemovalInv, Undisturbed
    <3>5. \A n \in Node : n <= cursor => inst'[at'[n]] \in {"free", "orphan"}
      BY <1>0, <2>1, <3>2, <3>3, <3>4 DEF GoneBefore, PipelineTypeOK, Node
    <3>6. CASE cursor < N
      <4>1. phase' = "uninstall" /\ cursor' = cursor + 1
        BY <2>1, <3>6 DEF NextNode
      <4> QED
        BY <1>0, <3>5, <4>1 DEF RemovalInv, GoneBefore, Later, Node
    <3>7. CASE ~(cursor < N)
      <4>1. phase' = "drop" /\ cursor = N
        BY <1>0, <2>1, <3>7 DEF NextNode, Node
      <4> QED
        BY <3>5, <4>1 DEF RemovalInv, GoneBefore, Later, Node
    <3> QED
      BY <3>6, <3>7
  <2>3. phase' \notin Later
    BY <2>1 DEF NextNode, Later
  <2> QED
    BY <2>1, <2>2, <2>3 DEF RemovalInv
<1>6. CASE DropTmpDir
  <2>0. ~blemish' => ~blemish
    BY <1>6 DEF DropTmpDir, EmptyTmpDir, Mark
  <2>1. /\ UNCHANGED <<mode, at, inst, others>> /\ phase = "drop" /\ phase' \in {"drop", "done"}
        /\ phase' = "drop" => result' = result
        /\ phase' = "done" /\ result' = "ok" => result \in {"none", "ok"}
    BY <1>6 DEF DropTmpDir, EmptyTmpDir, Return, Goto
  <2> QED
    BY <2>0, <2>1 DEF ResultInv, RemovalInv, GoneBefore, Undisturbed, Later
<1>7. CASE Interrupt
  BY <1>7 DEF Interrupt, Return, Goto, RemovalInv, Later
<1>8. CASE LoseConnection \/ OtherFills \/ OtherInstalls
  BY <1>8 DEF LoseConnection, OtherFills, OtherInstalls, RemovalInv, GoneBefore, Undisturbed,
              PipelineTypeOK
<1> QED
  BY <1>1, <1>2, <1>3, <1>4, <1>5, <1>6, <1>7, <1>8 DEF PipelineNext, PipelineStep

(* What a run that is over has left, read off the invariants.                 *)
LEMMA FailureLeft ==
  ASSUME PipelineTypeOK, TraceInv, CopyInv, phase = "done", Undisturbed
  PROVE  /\ mode = "deploy" /\ result = "err" /\ ~keep => inst = before.inst
         /\ \A h \in Host : tmp[h] \in {before.tmp[h], "empty"}
<1>1. ASSUME mode = "deploy", result = "err", ~keep
      PROVE  inst = before.inst
  <2>1. ChangedFrom(N + 1)
    BY <1>1 DEF TraceInv
  <2>2. \A s \in Slot : inst[s] = before.inst[s]
    BY <2>1, NAssumption DEF ChangedFrom, Node
  <2> QED
    BY <2>2 DEF PipelineTypeOK, Snapshot
<1>2. \A h \in Host : tmp[h] \in {before.tmp[h], "empty"}
  BY NAssumption DEF CopyInv, CopiedFrom, Node
<1> QED
  BY <1>1, <1>2

-------------------------------------------------------------------------------
(* Every step of a deployment is a step of what it promises, or a stutter.   *)
LEMMA InitPromise == PipelineInit => Promise!Init
  BY DEF PipelineInit, Promise!Init

LEMMA StepPromise ==
  ASSUME PipelineTypeOK, PriorInv, ResultInv, DeployedInv, PipelineNext
  PROVE  [Promise!Next]_Promise!vars
<1> USE DEF Promise!vars
<1>0. cursor \in Node /\ at[cursor] \in Slot
  BY HostAtTyped DEF PipelineTypeOK
<1>a. ASSUME NEW i \in InstState, phase \in {"install", "uninstall"},
             inst' = [inst EXCEPT ![at[cursor]] = i], result' \in {result, "err"},
             phase' # "done", UNCHANGED <<mode, at, before>>
      PROVE  Promise!Work
  <2>1. at[cursor] \in Promise!Reach
    BY <1>0, <1>a DEF Promise!Reach, PriorInv
  <2> QED
    BY <1>a, <2>1 DEF Promise!Work
<1>1. ASSUME NEW m \in Mode, NEW nr \in BOOLEAN, Begin(m, nr)
      PROVE  Promise!Start
  BY <1>1 DEF Begin, BeginAt, Goto, Promise!Start, Mode
<1>2. CASE Connect \/ CheckTmpDir
  BY <1>2 DEF Connect, CheckTmpDir, CheckTmpDirElse, NextNode, Return, Goto, Promise!Next,
     Promise!Finish
<1>3. CASE Scp
  BY <1>3 DEF Scp, ScpElse, NextNode, Goto, Promise!Next, Promise!NoteError
<1>4. CASE CheckEnv
  BY <1>4 DEF CheckEnv, NextNode, Goto, Promise!Next, Promise!NoteError
<1>5. CASE Install
  <2>1. PICK i \in InstState : inst' = [inst EXCEPT ![at[cursor]] = i]
    BY <1>5, OneSlotChanges
  <2>2. phase' # "done" /\ result' \in {result, "err"}
    BY <1>5 DEF Install, NextNode, FailInstallation, Goto
  <2> QED
    BY <1>5, <1>a, <2>1, <2>2 DEF Install, Promise!Next
<1>6. CASE UNInstall
  <2>1. PICK i \in InstState : inst' = [inst EXCEPT ![at[cursor]] = i]
    BY <1>6, OneSlotChanges
  <2>2. phase' # "done" /\ result' = result
    BY <1>6 DEF UNInstall, UNInstallThen, NextNode
  <2> QED
    BY <1>6, <1>a, <2>1, <2>2 DEF UNInstall, UNInstallThen, Promise!Next
<1>7. CASE DropTmpDir
  <2>1. CASE cursor < N
    BY <1>7, <2>1 DEF DropTmpDir, EmptyTmpDir
  <2>2. CASE ~(cursor < N)
    <3>1. mode = "deploy" /\ result = "none" => \A n \in Node : inst[at[n]] = "up"
      BY <1>7, NAssumption DEF DropTmpDir, EmptyTmpDir, DeployedInv, Installed, UpBefore, Node
    <3> QED
      BY <1>7, <2>2, <3>1 DEF DropTmpDir, EmptyTmpDir, ResultInv, Return, Goto, Promise!Next,
         Promise!Finish
  <2> QED
    BY <2>1, <2>2
<1>8. CASE Interrupt
  BY <1>8 DEF Interrupt, Return, Goto, Promise!Next, Promise!Finish
<1>9. CASE LoseConnection \/ OtherFills
  BY <1>9 DEF LoseConnection, OtherFills
<1>10. CASE OtherInstalls
  BY <1>10 DEF OtherInstalls, Promise!Next, Promise!OtherInstalls
<1>11. CASE ProductStep
  BY <1>11 DEF ProductStep, FailInstallation, Goto, Promise!Next, Promise!NoteError
<1> QED
  BY <1>1, <1>2, <1>3, <1>4, <1>5, <1>6, <1>7, <1>8, <1>9, <1>10, <1>11
     DEF PipelineNext, PipelineStep, Promise!Next
===============================================================================
