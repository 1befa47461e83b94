------------------------------- MODULE Maintenance -----------------------------
(***************************************************************************)
(* The commands that work on instances already running: joining a replica  *)
(* set, editing pg_hba.conf and the crontab, backing up.  They share no    *)
(* state; "area" says which of them a behaviour is about, the other two     *)
(* stay where they begin.                                                  *)
(***************************************************************************)
EXTENDS ReplicaSetJoin, ConfigText, BackupRun

VARIABLE area

maintVars == <<area, joinVars, textVars, backupVars>>

(* One starting point for the areas a behaviour is not about. *)
TextIdle   == TextInit /\ place = "crontab" /\ theirs = {Foreign}
BackupIdle == BackupInit /\ kind = "task"

Init ==
  /\ JoinInit
  /\ \/ area = "join" /\ TextIdle /\ BackupIdle
     \/ area = "text" /\ TextInit /\ BackupIdle
     \/ area = "backup" /\ TextIdle /\ BackupInit

Joining   == area = "join" /\ JoinNext /\ UNCHANGED <<area, textVars, backupVars>>
Editing   == area = "text" /\ TextNext /\ UNCHANGED <<area, joinVars, backupVars>>
BackingUp == area = "backup" /\ BackupNext /\ UNCHANGED <<area, joinVars, textVars>>

Next == Joining \/ Editing \/ BackingUp

Spec == Init /\ [][Next]_maintVars

MaintTypeOK == JoinTypeOK /\ TextTypeOK /\ BackupTypeOK /\ area \in {"join", "text", "backup"}
===============================================================================
