-------------------------------- MODULE Rollout --------------------------------
(***************************************************************************)
(* The pipeline of DeployPipeline for the products whose lists of nodes    *)
(* vary: how many there are, in which order each loop visits them, and     *)
(* which of them are new.  A node is its place in the configuration file;  *)
(* "todo" holds the nodes the current loop has not visited yet.  The       *)
(* operators below are the loops' bodies, one remote command on the node   *)
(* at the head of "todo"; the modules of the products say in which order   *)
(* the loops follow one another.                                           *)
(***************************************************************************)
EXTENDS Naturals, Sequences, FiniteSets, RemoteHost

CONSTANTS
  Host, Port,   \* machines, and the ports instances listen on
  Files,        \* the configuration files (or command lines) to be run
  MaxRuns,      \* bound: runs of the program
  MaxFaults     \* bound: broken connections and acts of others, over all runs

Slot == Host \X Port

(* What a file says: the product and its cluster mode, the slots of the      *)
(* nodes, of the nodes to be added, of the master to join, and whether ssh   *)
(* uses a key file.                                                          *)
ASSUME FilesAssumption ==
  \A f \in Files : /\ f.nodes \in Seq(Slot) /\ f.nodes # <<>>
                   /\ f.fresh \in Seq(Slot)
                   /\ f.from \in Slot
                   /\ f.key \in BOOLEAN
ASSUME LimitsAssumption == MaxRuns \in Nat /\ MaxFaults \in Nat

VARIABLES
  file,     \* the file of the current (or last) run
  op,       \* "deploy", "remove" or "add"
  keep,     \* no-rollback, where the product reads it
  phase,    \* the loop that is executing; "done": none
  todo,     \* the nodes it still has to visit, the first is being worked on
  result,   \* what the run will return
  lost,     \* the channels that have broken, each with its node
  tmp, home, inst,   \* the machines, as in RemoteHost
  link,     \* replication of each slot: "none", "set" up, or seen "up"
  loaded,   \* slots the dump of a master was loaded into, in this run
  before,   \* history: the machines when the run began
  blemish,  \* history: a clean-up command of this run did not do its work
  others,   \* history: what other users did, counted over all runs
  runs      \* history: runs started

fileVars == <<file, op, keep>>
ctlVars  == <<phase, todo, result>>
histVars == <<before, blemish, others, runs>>
rollVars == <<fileVars, ctlVars, lost, tmp, home, inst, link, loaded, histVars>>

Places   == file.nodes \o file.fresh
At(n)    == Places[n]
HostOf(n) == At(n)[1]
Nodes    == [i \in 1..Len(file.nodes) |-> i]
Fresh    == [i \in 1..Len(file.fresh) |-> Len(file.nodes) + i]
Slaves   == Tail(Nodes)
node     == Head(todo)

(* The two channels of a node's connection, as in DeployPipeline. *)
Channel == {"ssh", "sftp"}
NoShell(n) == <<n, "ssh">> \in lost
NoSftp(n)  == <<n, "sftp">> \in lost

-------------------------------------------------------------------------------
(* Control. *)

Enter(p, ns) == phase' = p /\ todo' = ns

(* The next node of the loop, or, after the last, phase p on nodes ns. *)
Advance(p, ns) ==
  IF Len(todo) > 1 THEN todo' = Tail(todo) /\ phase' = phase ELSE Enter(p, ns)

Return(r) == result' = r /\ Enter("done", <<>>)

(* An error after "defer DropTmpDir": only the deferred call is left. *)
GiveUp(drop) == result' = "err" /\ Enter("drop", drop)

(* An error of the installation: roll back the nodes "roll" first. *)
FailInstallation(roll, drop) ==
  IF keep \/ roll = <<>> THEN GiveUp(drop)
                         ELSE result' = "err" /\ Enter("uninstall", roll)

Mark(bad) == blemish' = (blemish \/ bad)

(* Replication settings are part of an instance: they go when it goes. *)
KeepLinks == link' = [s \in Slot |-> IF inst'[s] = "up" THEN link[s] ELSE "none"]

Begin(f, what, nr, ns) ==
  /\ phase = "done"
  /\ runs < MaxRuns
  /\ file' = f /\ op' = what /\ keep' = nr
  /\ result' = "none" /\ Enter("connect", ns)
  /\ lost' = {} /\ loaded' = {}
  /\ before' = [tmp |-> tmp, home |-> home, inst |-> inst]
  /\ blemish' = FALSE
  /\ runs' = runs + 1
  /\ UNCHANGED <<tmp, home, inst, link, others>>

-------------------------------------------------------------------------------
(* The loops' bodies.  Phase p on nodes ns comes after the last node. *)

(* One ssh connection per node; "can" is false where it cannot be made. *)
ConnectEach(can, p, ns) ==
  /\ phase = "connect"
  /\ \/ can /\ Advance(p, ns) /\ UNCHANGED result
     \/ Return("err")
  /\ UNCHANGED <<fileVars, lost, tmp, home, inst, link, loaded, histVars>>

(* IsExists takes every error of the sftp channel for a "no", and the check   *)
(* passes; an error of the calls after it makes the check fail.              *)
CheckTmpDirOn(p, ns) ==
  /\ phase = "checktmp"
  /\ \/ /\ NoSftp(node) \/ CheckTmpDirOK(tmp[HostOf(node)])
        /\ Advance(p, ns) /\ UNCHANGED result
     \/ /\ NoSftp(node) \/ ~CheckTmpDirOK(tmp[HostOf(node)])
        /\ Return("err")
  /\ UNCHANGED <<fileVars, lost, tmp, home, inst, link, loaded, histVars>>

ScpTo(p, ns, drop) ==
  /\ phase = "scp"
  /\ LET h == HostOf(node)
         results == IF NoSftp(node) THEN {[tmp |-> tmp[h], ok |-> FALSE]}
                                    ELSE ScpResults(tmp[h])
     IN  \E r \in results :
           /\ tmp' = [tmp EXCEPT ![h] = r.tmp]
           /\ IF r.ok THEN Advance(p, ns) /\ UNCHANGED result ELSE GiveUp(drop)
  /\ UNCHANGED <<fileVars, lost, home, inst, link, loaded, histVars>>

(* "install --only-check". *)
CheckEnvOn(p, ns, drop) ==
  /\ phase = "checkenv"
  /\ \/ /\ ~NoShell(node) /\ CheckEnvOK(inst[At(node)])
        /\ Advance(p, ns) /\ UNCHANGED result
     \/ GiveUp(drop)
  /\ UNCHANGED <<fileVars, lost, tmp, home, inst, link, loaded, histVars>>

(* "install": the node ends in state "made", "files" where it is only        *)
(* unpacked; where "joins", the command also points the new instance at its  *)
(* master before it returns.                                                 *)
InstallOn(made, joins, p, ns, roll, drop) ==
  /\ phase = "install"
  /\ LET s == At(node)
         results == IF NoShell(node) THEN {[inst |-> inst[s], ok |-> FALSE]}
                                     ELSE InstallResults(inst[s])
     IN  \E r \in results :
           /\ made = "files" /\ CheckEnvOK(inst[s]) /\ ~r.ok => r.inst \in {"free", "files"}
           /\ inst' = [inst EXCEPT ![s] = IF r.ok THEN made ELSE r.inst]
           /\ \E l \in IF ~joins THEN {"none"}
                       ELSE IF r.ok THEN {"set"} ELSE {"none", "set"} :
                link' = IF inst[s] = "free" /\ inst'[s] = "up"
                          THEN [link EXCEPT ![s] = l] ELSE link
           /\ Mark(r.inst = "orphan")
           /\ IF r.ok THEN Advance(p, ns) /\ UNCHANGED result
                      ELSE FailInstallation(roll, drop)
  /\ UNCHANGED <<fileVars, lost, tmp, home, loaded, before, others, runs>>

(* UNInstall: errors are logged, every node of the list is visited. *)
UNInstallOn(drop) ==
  /\ phase = "uninstall"
  /\ LET s == At(node)
         results == IF NoShell(node) THEN {[inst |-> inst[s], ok |-> FALSE]}
                                     ELSE UNInstallResults(inst[s])
     IN  \E r \in results : /\ inst' = [inst EXCEPT ![s] = r.inst]
                            /\ Mark(~r.ok)
  /\ KeepLinks
  /\ Advance("drop", drop)
  /\ UNCHANGED <<fileVars, result, lost, tmp, home, loaded, before, others, runs>>

(* DropTmpDir, deferred; the errors are dropped.  After the last node the run *)
(* returns: its error if it has one, else "last".                             *)
DropOn(last) ==
  /\ phase = "drop"
  /\ LET h == HostOf(node)
     IN  \/ /\ ~NoShell(node)
            /\ tmp'  = [tmp EXCEPT ![h] = AfterDropTmpDir(tmp[h])]
            /\ home' = [home EXCEPT ![h] = IF CdFails(tmp[h]) THEN "wiped" ELSE @]
            /\ UNCHANGED blemish
         \/ Mark(TRUE) /\ UNCHANGED <<tmp, home>>
  /\ IF Len(todo) > 1 THEN todo' = Tail(todo) /\ UNCHANGED <<phase, result>>
                      ELSE Return(IF result = "none" THEN last ELSE result)
  /\ UNCHANGED <<fileVars, lost, inst, link, loaded, before, others, runs>>

-------------------------------------------------------------------------------
(* What happens to a run. *)

Interrupt ==
  /\ phase # "done"
  /\ Return("killed") /\ Mark(TRUE)
  /\ UNCHANGED <<fileVars, lost, tmp, home, inst, link, loaded, before, others, runs>>

Faults == Cardinality(lost) + others

LoseConnection ==
  /\ phase \notin {"done", "connect"} /\ Faults < MaxFaults
  /\ \E n \in DOMAIN Places, c \in {Channel, {"sftp"}, {"ssh"}} :
       lost \cap ({n} \X c) = {} /\ lost' = lost \cup ({n} \X c)
  /\ UNCHANGED <<fileVars, ctlVars, tmp, home, inst, link, loaded, histVars>>

OtherInstalls ==
  /\ phase # "done" /\ Faults < MaxFaults
  /\ \E n \in DOMAIN Places : /\ inst[At(n)] = "free"
                              /\ inst' = [inst EXCEPT ![At(n)] = "up"]
  /\ others' = others + 1
  /\ UNCHANGED <<fileVars, ctlVars, lost, tmp, home, link, loaded, before, blemish, runs>>

OtherFills ==
  /\ phase # "done" /\ Faults < MaxFaults
  /\ \E n \in DOMAIN Places : /\ tmp[HostOf(n)] \in {"absent", "empty", "ours"}
                              /\ tmp' = [tmp EXCEPT ![HostOf(n)] = "foreign"]
  /\ others' = others + 1
  /\ UNCHANGED <<fileVars, ctlVars, lost, home, inst, link, loaded, before, blemish, runs>>

(* A replica's own work: its link comes up, and may go down again.  It is only *)
(* looked at in the phases "Watched", and only what it is then matters.        *)
Watched == {"replica", "master", "verify"}
LinkChanges ==
  /\ phase \in Watched
  /\ \E s \in Slot :
       /\ link[s] # "none"
       /\ \E l \in {"set", "up"} \ {link[s]} : link' = [link EXCEPT ![s] = l]
  /\ UNCHANGED <<fileVars, ctlVars, lost, tmp, home, inst, loaded, histVars>>

Environment ==
  Interrupt \/ LoseConnection \/ OtherInstalls \/ OtherFills \/ LinkChanges

(* The machines as the first run finds them: any state of the temporary *)
(* directories (t) and of the slots (i).                                *)
StartFrom(f, t, i) ==
  /\ file = f /\ op = "deploy" /\ keep = FALSE
  /\ phase = "done" /\ todo = <<>> /\ result = "none"
  /\ lost = {} /\ loaded = {}
  /\ tmp = t /\ home = [h \in Host |-> "intact"]
  /\ inst = i /\ link = [s \in Slot |-> "none"]
  /\ before = [tmp |-> tmp, home |-> home, inst |-> inst]
  /\ blemish = FALSE /\ others = 0 /\ runs = 0

RolloutInit ==
  \E f \in Files, t \in [Host -> TmpState], i \in [Slot -> InstState] : StartFrom(f, t, i)
===============================================================================
