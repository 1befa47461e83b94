------------------------------- MODULE PgsqlDeploy -----------------------------
(***************************************************************************)
(* "dbup pgsql deploy" and "remove-deploy": a master and one or two slaves. *)
(* The slaves are only unpacked at first; then the replication user is made *)
(* on the master and each slave copies the master's data and is started.   *)
(***************************************************************************)
EXTENDS Rollout

Mine == file.product = "pgsql"

(* Server.Validator: one or two slaves. *)
Validator(f) == Len(f.nodes) \in 2..3

Run ==
  \E f \in Files :
    /\ f.product = "pgsql" /\ Validator(f)
    /\ Begin(f, "deploy", FALSE, [i \in 1..Len(f.nodes) |-> i])

RemoveDeploy ==
  \E f \in Files :
    /\ f.product = "pgsql" /\ Validator(f)
    /\ Begin(f, "remove", FALSE, [i \in 1..Len(f.nodes) |-> i])

Connect     == Mine /\ ConnectEach(TRUE, "checktmp", Nodes)
CheckTmpDir == Mine /\ CheckTmpDirOn("scp", Nodes)
Scp         == Mine /\ ScpTo(IF op = "deploy" THEN "checkenv" ELSE "uninstall", Nodes, Nodes)
CheckEnv    == Mine /\ CheckEnvOn("install", Nodes, Nodes)

(* A slave's "--only-install" leaves its files and its unit. *)
Install ==
  Mine /\ InstallOn(IF node = 1 THEN "up" ELSE "files", FALSE, "repluser", <<1>>, Nodes, Nodes)

(* One more command on the node at hand: it fails on a broken connection. *)
Command(p, ns) ==
  /\ \/ ~NoShell(node) /\ Enter(p, ns) /\ UNCHANGED result
     \/ FailInstallation(Nodes, Nodes)
  /\ UNCHANGED <<fileVars, lost, tmp, home, inst, link, loaded, histVars>>

(* CreateReplUser: the user and its two pg_hba records, on the master. *)
CreateReplUser == Mine /\ phase = "repluser" /\ Command("basebackup", Slaves)

(* Replication: pg_basebackup from the master into the empty data directory. *)
Replication ==
  /\ Mine /\ phase = "basebackup"
  /\ Command("chown", todo)

ChownData == Mine /\ phase = "chown" /\ Command("start", todo)

(* SystemCtl("start"): the copied standby settings take effect with it; an *)
(* error may come after the instance has started.                          *)
SystemCtl ==
  /\ Mine /\ phase = "start"
  /\ LET s == At(node)
     IN  \/ /\ ~NoShell(node) /\ inst[s] = "files"
            /\ inst' = [inst EXCEPT ![s] = "up"]
            /\ link' = [link EXCEPT ![s] = "set"]
            /\ IF Len(todo) > 1 THEN Enter("basebackup", Tail(todo))
                                ELSE Enter("verify", <<1>>)
            /\ UNCHANGED result
         \/ /\ \/ UNCHANGED <<inst, link>>
               \/ /\ ~NoShell(node) /\ inst[s] = "files"
                  /\ inst' = [inst EXCEPT ![s] = "up"]
                  /\ link' = [link EXCEPT ![s] = "set"]
            /\ FailInstallation(Nodes, Nodes)
  /\ UNCHANGED <<fileVars, lost, tmp, home, loaded, histVars>>

(* Mutant: the slaves are not counted. *)
CheckSlavesUncounted ==
  /\ Mine /\ phase = "verify"
  /\ Command("drop", Nodes)

(* CheckSlaves on the master: as many replication connections as names.       *)
CheckSlaves ==
  /\ Mine /\ phase = "verify"
  /\ \/ /\ \A i \in DOMAIN Slaves : link[At(Slaves[i])] = "up"
        /\ Command("drop", Nodes)
     \/ /\ FailInstallation(Nodes, Nodes)
        /\ UNCHANGED <<fileVars, lost, tmp, home, inst, link, loaded, histVars>>

UNInstall  == Mine /\ UNInstallOn(Nodes)
DropTmpDir == Mine /\ DropOn("ok")

Begins  == Run \/ RemoveDeploy
Program == \/ Connect \/ CheckTmpDir \/ Scp \/ CheckEnv \/ Install
           \/ CreateReplUser \/ Replication \/ ChownData \/ SystemCtl \/ CheckSlaves
           \/ UNInstall \/ DropTmpDir
===============================================================================
