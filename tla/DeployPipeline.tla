---------------------------- MODULE DeployPipeline ----------------------------
(***************************************************************************)
(* The sequence every remote deployment of the program goes through, on    *)
(* nodes 1..N in order: connect, CheckTmpDir, (defer DropTmpDir,) Scp,     *)
(* CheckEnv, Install, the product's own steps (phases "post" and           *)
(* "verify"), UNInstall on failure, DropTmpDir on the way out.  One step   *)
(* is one remote command on one node.  The modules of the products extend  *)
(* this one and add the two phases.                                        *)
(***************************************************************************)
EXTENDS Naturals, FiniteSets, RemoteHost

CONSTANTS
  N,            \* number of nodes of a deployment; node 1 is the (first) master
  Slot,         \* the places an instance can be installed in
  Host,         \* the machines
  SlotHost,     \* the machine each slot is on
  Layouts,      \* the slot assignments a configuration file may ask for
  MaxRuns,      \* bound: runs of the program
  MaxLost,      \* bound: a connection breaks while fewer channels than this have, in a run
  MaxOthers     \* bound: things other users of the machines do

Node == 1..N

ASSUME NAssumption == N \in Nat /\ N >= 1
ASSUME PlacesAssumption ==
  /\ SlotHost \in [Slot -> Host]
  /\ Layouts \subseteq [Node -> Slot]
ASSUME BoundsAssumption ==
  MaxRuns \in Nat /\ MaxLost \in Nat /\ MaxOthers \in Nat

VARIABLES
  phase,    \* which loop of Run or RemoveDeploy is executing; "done": none
  cursor,   \* the node it is at
  mode,     \* "deploy" or "remove"
  keep,     \* the configuration's no-rollback, where the product reads it
  at,       \* the slot of each node in this run's configuration
  result,   \* what the run will return: "none" until known, "ok", "err", "killed"
  lost,     \* the channels that have broken, each with its node
  tmp,      \* the temporary directory of each machine
  home,     \* the home directory of the ssh user of each machine
  inst,     \* the state of each slot
  before,   \* history: the machines when the run began
  blemish,  \* history: a clean-up command of this run did not do its work
  others,   \* history: what other users did, counted over all runs
  runs      \* history: runs started

runVars  == <<phase, cursor, mode, keep, at, result>>
hostVars == <<tmp, home, inst>>
histVars == <<before, blemish, others, runs>>
pipeVars == <<runVars, hostVars, histVars, lost>>

Mode   == {"deploy", "remove"}
Result == {"none", "ok", "err", "killed"}
Phase  == {"done", "connect", "checktmp", "scp", "checkenv", "install", "post",
           "verify", "uninstall", "drop"}
Snapshot == [tmp : [Host -> TmpState], home : [Host -> {"intact", "wiped"}],
             inst : [Slot -> InstState]]

HostAt(n) == SlotHost[at[n]]

(* The connection to a node is an ssh client, through which commands run, and *)
(* an sftp channel, through which files are looked at and copied.  Either may *)
(* break, and the other go on working.                                        *)
Channel == {"ssh", "sftp"}
NoShell(n) == <<n, "ssh">> \in lost
NoSftp(n)  == <<n, "sftp">> \in lost

-------------------------------------------------------------------------------
(* Control: the for loops over master and slaves, and the early returns. *)

(* Mutants: the loop leaves out the last node, or runs past it. *)
NextNodeMissesLast(after) ==
  IF cursor < N - 1 THEN cursor' = cursor + 1 /\ phase' = phase
                    ELSE cursor' = 1 /\ phase' = after
NextNodeOvershoots(after) ==
  IF cursor <= N THEN cursor' = cursor + 1 /\ phase' = phase
                 ELSE cursor' = 1 /\ phase' = after

NextNode(after) ==
  IF cursor < N THEN cursor' = cursor + 1 /\ phase' = phase
                ELSE cursor' = 1 /\ phase' = after

Goto(p) == phase' = p /\ cursor' = 1

Return(r) == result' = r /\ Goto("done")

(* Mutant: an error returns at once, without a rollback. *)
FailInstallationReturns == result' = "err" /\ Goto("drop")

(* An error of the installation: roll back unless told not to, and return *)
(* the error; the deferred DropTmpDir runs in both cases.                 *)
FailInstallation ==
  /\ result' = "err"
  /\ Goto(IF keep THEN "drop" ELSE "uninstall")

(* A clean-up result worth remembering. *)
Mark(bad) == blemish' = (blemish \/ bad)

-------------------------------------------------------------------------------
(* Run and RemoveDeploy read the configuration and start. *)
BeginAt(m, nr, l) ==
  /\ phase = "done"
  /\ runs < MaxRuns
  /\ at' = l
  /\ mode' = m /\ keep' = nr
  /\ result' = "none"
  /\ Goto("connect")
  /\ lost' = {}
  /\ before' = [tmp |-> tmp, home |-> home, inst |-> inst]
  /\ blemish' = FALSE
  /\ runs' = runs + 1
  /\ UNCHANGED <<hostVars, others>>

Begin(m, nr) == \E l \in Layouts : BeginAt(m, nr, l)

(* Init: one ssh connection per node; an error returns before the defer. *)
Connect ==
  /\ phase = "connect"
  /\ \/ NextNode("checktmp") /\ UNCHANGED result
     \/ Return("err")
  /\ UNCHANGED <<mode, keep, at, lost, hostVars, histVars>>

(* CheckTmpDir: IsExists takes every error of the sftp channel for a "no", and *)
(* the check passes; an error of the calls after it makes the check fail.      *)
CheckTmpDirElse(p) ==
  /\ phase = "checktmp"
  /\ \/ /\ NoSftp(cursor) \/ CheckTmpDirOK(tmp[HostAt(cursor)])
        /\ NextNode("scp") /\ UNCHANGED result
     \/ /\ NoSftp(cursor) \/ ~CheckTmpDirOK(tmp[HostAt(cursor)])
        /\ result' = "err" /\ Goto(p)
  /\ UNCHANGED <<mode, keep, at, lost, hostVars, histVars>>

(* Mutant: DropTmpDir is deferred before CheckTmpDir. *)
CheckTmpDirAfterDefer == CheckTmpDirElse("drop")

CheckTmpDir == CheckTmpDirElse("done")

(* Scp: the first error returns through the deferred DropTmpDir. *)
ScpElse(p) ==
  /\ phase = "scp"
  /\ LET h == HostAt(cursor)
         results == IF NoSftp(cursor) THEN {[tmp |-> tmp[h], ok |-> FALSE]}
                                      ELSE ScpResults(tmp[h])
     IN  \E r \in results :
           /\ tmp' = [tmp EXCEPT ![h] = r.tmp]
           /\ IF r.ok
                THEN /\ NextNode(IF mode = "deploy" THEN "checkenv" ELSE "uninstall")
                     /\ UNCHANGED result
                ELSE result' = "err" /\ Goto(p)
  /\ UNCHANGED <<mode, keep, at, lost, home, inst, histVars>>

Scp == ScpElse("drop")

(* Mutant: a failed check is rolled back like a failed installation. *)
CheckEnvRollsBack ==
  /\ phase = "checkenv"
  /\ \/ /\ ~NoShell(cursor)
        /\ CheckEnvOK(inst[at[cursor]])
        /\ NextNode("install")
        /\ UNCHANGED result
     \/ FailInstallation
  /\ UNCHANGED <<mode, keep, at, lost, hostVars, histVars>>

(* CheckEnv: "install --only-check" changes nothing; its error is not an error *)
(* of the installation, so nothing is rolled back.                             *)
CheckEnv ==
  /\ phase = "checkenv"
  /\ \/ /\ ~NoShell(cursor)
        /\ CheckEnvOK(inst[at[cursor]])
        /\ NextNode("install")
        /\ UNCHANGED result
     \/ result' = "err" /\ Goto("drop")
  /\ UNCHANGED <<mode, keep, at, lost, hostVars, histVars>>

(* Install: "install" on one node; the last success leads to the product's steps. *)
Install ==
  /\ phase = "install"
  /\ LET s == at[cursor]
         results == IF NoShell(cursor) THEN {[inst |-> inst[s], ok |-> FALSE]}
                                       ELSE InstallResults(inst[s])
     IN  \E r \in results :
           /\ inst' = [inst EXCEPT ![s] = r.inst]
           /\ Mark(r.inst = "orphan")
           /\ IF r.ok THEN NextNode("post") /\ UNCHANGED result
                      ELSE FailInstallation
  /\ UNCHANGED <<mode, keep, at, lost, tmp, home, before, others, runs>>

(* Mutant: a node is tried again until its UNInstall succeeds. *)
UNInstallRetries ==
  /\ phase = "uninstall"
  /\ LET s == at[cursor]
         results == IF NoShell(cursor) THEN {[inst |-> inst[s], ok |-> FALSE]}
                                       ELSE UNInstallResults(inst[s])
     IN  \E r \in results :
           /\ inst' = [inst EXCEPT ![s] = r.inst]
           /\ Mark(~r.ok)
           /\ IF r.ok THEN NextNode("drop") ELSE UNCHANGED <<phase, cursor>>
  /\ UNCHANGED <<mode, keep, at, result, lost, tmp, home, before, others, runs>>

(* UNInstall: every node, whatever the others answered, the errors are      *)
(* logged; or, where the product says so, up to the first error.             *)
UNInstallThen(p, stopAtError) ==
  /\ phase = "uninstall"
  /\ LET s == at[cursor]
         results == IF NoShell(cursor) THEN {[inst |-> inst[s], ok |-> FALSE]}
                                       ELSE UNInstallResults(inst[s])
     IN  \E r \in results :
           /\ inst' = [inst EXCEPT ![s] = r.inst]
           /\ Mark(~r.ok)
           /\ IF r.ok \/ ~stopAtError THEN NextNode(p) ELSE Goto(p)
  /\ UNCHANGED <<mode, keep, at, result, lost, tmp, home, before, others, runs>>

UNInstall == UNInstallThen("drop", FALSE)

(* DropTmpDir, deferred: every node, the errors are dropped. *)
EmptyTmpDir ==
  /\ phase = "drop"
  /\ LET h == HostAt(cursor)
     IN  \/ /\ ~NoShell(cursor)
            /\ tmp'  = [tmp EXCEPT ![h] = AfterDropTmpDir(tmp[h])]
            /\ home' = [home EXCEPT ![h] = IF CdFails(tmp[h]) THEN "wiped" ELSE @]
            /\ UNCHANGED blemish
         \/ Mark(TRUE) /\ UNCHANGED <<tmp, home>>
  /\ UNCHANGED <<mode, keep, inst, before, others, runs>>

(* Mutant: the deferred call overwrites the error Run returns. *)
DropTmpDirReturnsNil ==
  /\ EmptyTmpDir
  /\ IF cursor < N
       THEN cursor' = cursor + 1 /\ UNCHANGED <<phase, result>>
       ELSE Return("ok")
  /\ UNCHANGED <<at, lost>>

DropTmpDir ==
  /\ EmptyTmpDir
  /\ IF cursor < N
       THEN cursor' = cursor + 1 /\ UNCHANGED <<phase, result>>
       ELSE Return(IF result = "none" THEN "ok" ELSE result)
  /\ UNCHANGED <<at, lost>>

-------------------------------------------------------------------------------
(* What happens to a run: the operator interrupts it (no defer runs), a     *)
(* connection breaks, another user of a machine installs an instance or     *)
(* puts files where the temporary directory is.                             *)

Interrupt ==
  /\ phase # "done"
  /\ Return("killed")
  /\ Mark(TRUE)
  /\ UNCHANGED <<mode, keep, at, lost, hostVars, before, others, runs>>

LoseConnection ==
  /\ phase \notin {"done", "connect"}
  /\ Cardinality(lost) < MaxLost
  /\ \E n \in Node, c \in {Channel, {"sftp"}, {"ssh"}} :
       lost \cap ({n} \X c) = {} /\ lost' = lost \cup ({n} \X c)
  /\ UNCHANGED <<runVars, hostVars, histVars>>

OtherInstalls ==
  /\ phase # "done"
  /\ others < MaxOthers
  /\ \E s \in Slot : /\ inst[s] = "free"
                     /\ inst' = [inst EXCEPT ![s] = "up"]
  /\ others' = others + 1
  /\ UNCHANGED <<runVars, lost, tmp, home, before, blemish, runs>>

OtherFills ==
  /\ phase # "done"
  /\ others < MaxOthers
  /\ \E h \in Host : /\ tmp[h] \in {"absent", "empty", "ours"}
                     /\ tmp' = [tmp EXCEPT ![h] = "foreign"]
  /\ others' = others + 1
  /\ UNCHANGED <<runVars, lost, home, inst, before, blemish, runs>>

PipelineStep ==
  \/ Connect \/ CheckTmpDir \/ Scp \/ CheckEnv \/ Install
  \/ UNInstall \/ DropTmpDir
  \/ Interrupt \/ LoseConnection \/ OtherInstalls \/ OtherFills

PipelineInit ==
  /\ phase = "done" /\ cursor = 1
  /\ mode = "deploy" /\ keep = FALSE
  /\ at \in Layouts
  /\ result = "none"
  /\ lost = {}
  /\ tmp \in [Host -> TmpState]
  /\ home = [h \in Host |-> "intact"]
  /\ inst \in [Slot -> InstState]
  /\ before = [tmp |-> tmp, home |-> home, inst |-> inst]
  /\ blemish = FALSE
  /\ others = 0
  /\ runs = 0

PipelineTypeOK ==
  /\ phase \in Phase
  /\ cursor \in Node
  /\ mode \in Mode
  /\ keep \in BOOLEAN
  /\ at \in [Node -> Slot]
  /\ result \in Result
  /\ lost \subseteq Node \X Channel
  /\ tmp \in [Host -> TmpState]
  /\ home \in [Host -> {"intact", "wiped"}]
  /\ inst \in [Slot -> InstState]
  /\ before \in Snapshot
  /\ blemish \in BOOLEAN
  /\ others \in Nat
  /\ runs \in Nat

(* What a deployment promises: it is busy from Begin to the return of Run or *)
(* RemoveDeploy, and the slots are the promise's slots.                      *)
Promise == INSTANCE DeployPromise WITH
  State <- InstState, busy <- (phase # "done"), kind <- mode, goal <- at,
  verdict <- result, base <- before.inst, inst <- inst
===============================================================================
