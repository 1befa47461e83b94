----------------------------- MODULE PgAutoFailover ----------------------------
(***************************************************************************)
(* "dbup pgsql-mha deploy" and "remove-deploy": a monitor, a master and its *)
(* slaves.  A file that names new nodes asks for an expansion: the monitor *)
(* is not connected to, the first new node is left out of every list       *)
(* (newpgnodes[1:]), and the master and the slaves go through the loops    *)
(* again together with the other new nodes.                                *)
(***************************************************************************)
EXTENDS Rollout

Mine == file.product = "pgauto"

(* Node 1 is the monitor, node 2 the master, 3.. the slaves. *)
Monitor == <<1>>
Master  == <<2>>
PGslave == Tail(Slaves)
NewPGdata  == file.fresh # <<>>
NewPGslave == IF NewPGdata THEN Tail(Fresh) ELSE <<>>

(* The order of Init, CheckTmpDir, Scp, CheckEnv and Install; of DropTmpDir;  *)
(* and of UNInstall, in which the monitor stays although it is not connected. *)
Forward == (IF NewPGdata THEN NewPGslave ELSE Monitor) \o Master \o PGslave
Drops   == (IF NewPGdata THEN NewPGslave ELSE Monitor) \o PGslave \o Master
UndoDataNodes == PGslave \o Master   \* mutant: the monitor stays in any case
Undo    == PGslave \o Master \o Monitor
Roll    == IF NewPGdata THEN NewPGslave ELSE Undo
Removed == IF NewPGdata THEN NewPGslave \o PGslave \o Master ELSE Undo

(* Mutant: the slice runs past the last new node. *)
ForwardOfOvershoots(f) ==
  LET n == Len(f.nodes)
  IN  (IF f.fresh = <<>> THEN Monitor
       ELSE [i \in 1..Len(f.fresh) |-> n + 1 + i]) \o [i \in 1..n - 1 |-> i + 1]

(* The lists above for the file of a run that begins. *)
ForwardOf(f) ==
  LET n == Len(f.nodes)
  IN  (IF f.fresh = <<>> THEN Monitor
       ELSE [i \in 1..Len(f.fresh) - 1 |-> n + 1 + i]) \o [i \in 1..n - 1 |-> i + 1]

(* Server.Validator and CheckPort: two data nodes, none of them the monitor. *)
Validator(f) == /\ Len(f.nodes) >= 3
                /\ \A i \in 2..Len(f.nodes) : f.nodes[i] # f.nodes[1]

(* NewPGCheck, before an expansion: the monitor and the data nodes answer on  *)
(* their ports, the new nodes are none of them and do not answer.             *)
Answers(s) == inst[s] \in {"up", "orphan"}
NewPGCheck(f) ==
  f.fresh # <<>> =>
    /\ \A i \in DOMAIN f.nodes : Answers(f.nodes[i])
    /\ \A i \in DOMAIN f.fresh : ~Answers(f.fresh[i])
    /\ \A i \in DOMAIN f.fresh, j \in 2..Len(f.nodes) : f.fresh[i] # f.nodes[j]

Run ==
  \E f \in Files, n \in BOOLEAN :
    /\ f.product = "pgauto" /\ NewPGCheck(f) /\ Validator(f)
    /\ Begin(f, "deploy", n, ForwardOf(f))

RemoveDeploy ==
  \E f \in Files :
    /\ f.product = "pgauto" /\ Validator(f)
    /\ Begin(f, "remove", FALSE, ForwardOf(f))

(* InitUseKeyFile connects to the new nodes with the password it has not got. *)
Connect ==
  Mine /\ ConnectEach(file.key => node <= Len(file.nodes), "checktmp", Forward)

CheckTmpDir == Mine /\ CheckTmpDirOn("scp", Forward)

Scp == Mine /\ IF op = "deploy" THEN ScpTo("checkenv", Forward, Drops)
                                ELSE ScpTo("uninstall", Removed, Drops)

CheckEnv == Mine /\ CheckEnvOn("install", Forward, Drops)

(* Each data node registers with the monitor; a slave thereby joins. *)
MonitorInstall == node = 1 /\ InstallOn("up", FALSE, "drop", Drops, Roll, Drops)
PGdataInstall  == node > 1 /\ InstallOn("up", node > 2, "drop", Drops, Roll, Drops)
Install == Mine /\ todo # <<>> /\ (MonitorInstall \/ PGdataInstall)

UNInstall == Mine /\ UNInstallOn(Drops)

(* With new nodes, RemoveDeploy's UNInstall ends in a nil pointer, d.Monitor: *)
(* the deferred DropTmpDir still runs, then the program dies.                 *)
DropTmpDir == Mine /\ DropOn(IF op = "remove" /\ NewPGdata THEN "killed" ELSE "ok")

Begins  == Run \/ RemoveDeploy
Program == \/ Connect \/ CheckTmpDir \/ Scp \/ CheckEnv \/ Install
           \/ UNInstall \/ DropTmpDir
===============================================================================
