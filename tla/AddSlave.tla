-------------------------------- MODULE AddSlave -------------------------------
(***************************************************************************)
(* "dbup <product> add-slave": one new instance on one machine, joined to  *)
(* a master that runs already.  The pipeline without its rollback: the     *)
(* only thing that undoes a failed installation is the installation        *)
(* itself, on the new machine.  MariaDB's also loads a dump of the master  *)
(* into the new slave; that part of the remote command is told apart here. *)
(***************************************************************************)
EXTENDS Rollout

Joiners == {"mariadb-slave", "pgsql-slave", "redis-slave", "mongodb-slave"}
Mine == file.product \in Joiners
MariaDB == file.product = "mariadb-slave"

New == At(1)
One == <<1>>

(* The slot whose port the new instance believes to be its own after DataSync *)
(* has set Option.Port to the master's.                                       *)
Target == <<HostOf(1), file.from[2]>>

(* Mutant: DataSync keeps the new instance's own port. *)
TargetKept == New

(* MariaDB's ParameterCheck wants both accounts to work on the master; the    *)
(* others only look at the form of the address.                               *)
Add ==
  \E f \in Files :
    /\ f.product \in Joiners
    /\ f.product = "mariadb-slave" => inst[f.from] = "up"
    /\ Begin(f, "add", FALSE, One)

Connect     == Mine /\ ConnectEach(TRUE, "checktmp", One)
CheckTmpDir == Mine /\ CheckTmpDirOn("scp", One)
Scp == Mine /\ ScpTo(IF file.product = "pgsql-slave" THEN "install" ELSE "checkenv", One, One)
CheckEnv == Mine /\ CheckEnvOn("install", One, One)

(* PostgreSQL, Redis, MongoDB: joining the master is the end of the remote    *)
(* installation, and its failure is undone there.                             *)
InstallAndJoin == Mine /\ ~MariaDB /\ InstallOn("up", TRUE, "drop", One, <<>>, One)

(* MariaDB: the part before DataSync, as everywhere else. *)
InstallMariaDB == Mine /\ MariaDB /\ InstallOn("up", FALSE, "datasync", One, <<>>, One)

(* DataSync: mariadb-dump on the master, piped into the client on the new     *)
(* machine, at Target.  The client's answer is what counts.                   *)
DataSync ==
  /\ Mine /\ phase = "datasync"
  /\ \/ /\ inst[Target] = "up"
        /\ loaded' = loaded \cup {Target}
        /\ Enter("changemaster", One)
     \/ /\ loaded' \in {loaded, IF inst[Target] = "up" THEN loaded \cup {Target} ELSE loaded}
        /\ Enter("undo", One)
  /\ UNCHANGED <<fileVars, result, lost, tmp, home, inst, link, histVars>>

(* ChangeMaster, over a connection to Target as well. *)
ChangeMaster ==
  /\ Mine /\ phase = "changemaster"
  /\ \/ /\ inst[Target] = "up"
        /\ link' = [link EXCEPT ![Target] = "set"]
        /\ IF NoShell(node) THEN GiveUp(One) ELSE Enter("verify", One) /\ UNCHANGED result
     \/ /\ \E l \in {link[Target], "set"} :
             link' = IF inst[Target] = "up" THEN [link EXCEPT ![Target] = l] ELSE link
        /\ Enter("undo", One) /\ UNCHANGED result
  /\ UNCHANGED <<fileVars, lost, tmp, home, inst, loaded, histVars>>

(* MariaDBInstall.Run's rollback: the unit of Option.Port, which is Target's, *)
(* and the directory of the new instance.  Where they are two, Target loses   *)
(* its unit and New keeps running without its files.                          *)
UndoJoin ==
  /\ Mine /\ phase = "undo"
  /\ \E r \in UNInstallResults(inst[Target]) :
       /\ inst' = [inst EXCEPT ![Target] =
                     IF Target # New /\ r.inst = "free" /\ inst[Target] # "free"
                       THEN "files" ELSE r.inst]
       /\ Mark(~r.ok)
  /\ KeepLinks
  /\ GiveUp(One)
  /\ UNCHANGED <<fileVars, lost, tmp, home, loaded, before, others, runs>>

(* Mutant: it asks until the answer is good. *)
CheckSlavestatusWaits ==
  /\ Mine /\ phase = "verify"
  /\ link[New] = "up" /\ Enter("drop", One) /\ UNCHANGED result
  /\ UNCHANGED <<fileVars, lost, tmp, home, inst, link, loaded, histVars>>

(* CheckSlavestatus asks the new slave once, with the replication account     *)
(* that only replication can have given it.                                   *)
CheckSlavestatus ==
  /\ Mine /\ phase = "verify"
  /\ \/ link[New] = "up" /\ Enter("drop", One) /\ UNCHANGED result
     \/ GiveUp(One)
  /\ UNCHANGED <<fileVars, lost, tmp, home, inst, link, loaded, histVars>>

DropTmpDir == Mine /\ DropOn("ok")

Program == \/ Connect \/ CheckTmpDir \/ Scp \/ CheckEnv
           \/ InstallAndJoin \/ InstallMariaDB
           \/ DataSync \/ ChangeMaster \/ UndoJoin \/ CheckSlavestatus
           \/ DropTmpDir
===============================================================================
