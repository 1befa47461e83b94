----------------------------- MODULE MariaDBDeploy -----------------------------
(***************************************************************************)
(* "dbup mariadb deploy" and "remove-deploy": a master and its slaves (MS) *)
(* or two masters (MM).  Each slave's own installation points it at the    *)
(* master; in MM the first node is then pointed at the second over a new   *)
(* ssh connection.                                                         *)
(***************************************************************************)
EXTENDS Rollout

Mine == file.product = "mariadb"

(* Server.Validator and ClusterModeCheck.  A mode that is part of "MMS"      *)
(* passes; Files only has the two that Install knows.                        *)
Validator(f) == /\ Len(f.nodes) >= 2
                /\ f.mode = "MM" => Len(f.nodes) = 2

Run ==
  \E f \in Files, nr \in BOOLEAN :
    /\ f.product = "mariadb" /\ Validator(f)
    /\ Begin(f, "deploy", nr, [i \in 1..Len(f.nodes) |-> i])

RemoveCluster ==
  \E f \in Files :
    /\ f.product = "mariadb" /\ Len(f.nodes) >= 2
    /\ Begin(f, "remove", FALSE, [i \in 1..Len(f.nodes) |-> i])

Connect     == Mine /\ ConnectEach(TRUE, "checktmp", Nodes)
CheckTmpDir == Mine /\ CheckTmpDirOn("scp", Nodes)
Scp         == Mine /\ ScpTo(IF op = "deploy" THEN "checkenv" ELSE "uninstall", Nodes, Nodes)

(* Mutant: a check that fails rolls back, as an installation does. *)
CheckEnvRollsBack ==
  /\ Mine /\ phase = "checkenv"
  /\ \/ /\ ~NoShell(node) /\ CheckEnvOK(inst[At(node)])
        /\ Advance("install", Nodes) /\ UNCHANGED result
     \/ FailInstallation(Nodes, Nodes)
  /\ UNCHANGED <<fileVars, lost, tmp, home, inst, link, loaded, histVars>>

CheckEnv    == Mine /\ CheckEnvOn("install", Nodes, Nodes)

(* Master, then slaves; in MM the second node is a slave of the first as well. *)
Install == Mine /\ InstallOn("up", node # 1, "replica", Slaves, Nodes, Nodes)

(* The status of a node can be read over the replication account, which a     *)
(* slave has from its master; a node nobody pointed anywhere has no status,   *)
(* and that passes.                                                           *)
StatusOK(n) == /\ inst[At(n)] \in {"up", "orphan"}
               /\ \/ link[At(n)] = "up"
                  \/ n = 1 /\ link[At(n)] = "none"

(* Mutant: a status that cannot be read counts as a good one. *)
StatusOKIfUnread(n) == TRUE

(* CheckReplicaSetStatus: every slave, up to six times in MS, once in MM. *)
CheckReplicaSetStatus ==
  /\ Mine /\ phase = "replica"
  /\ \/ /\ StatusOK(node)
        /\ IF file.mode = "MM" THEN Advance("change", <<1>>) ELSE Advance("drop", Nodes)
        /\ UNCHANGED result
     \/ FailInstallation(Nodes, Nodes)
  /\ UNCHANGED <<fileVars, lost, tmp, home, inst, link, loaded, histVars>>

(* Mutant: the command on the master is not waited for. *)
MMChangeSlaveUnchecked ==
  /\ Mine /\ phase = "change"
  /\ \/ /\ ~file.key
        /\ \E l \in {"set", "none"} : link' = [link EXCEPT ![At(1)] = l]
        /\ Enter("master", <<1>>) /\ UNCHANGED result
     \/ UNCHANGED link /\ FailInstallation(Nodes, Nodes)
  /\ UNCHANGED <<fileVars, lost, tmp, home, inst, loaded, histVars>>

(* MMChangeSlave: a connection of its own to the master, made with the ssh    *)
(* password even where the file has a key; the command may have done its work *)
(* and still answer with an error.                                            *)
MMChangeSlave ==
  /\ Mine /\ phase = "change"
  /\ \/ /\ ~file.key /\ inst[At(1)] \in {"up", "orphan"}
        /\ link' = [link EXCEPT ![At(1)] = "set"]
        /\ Enter("master", <<1>>) /\ UNCHANGED result
     \/ /\ \E l \in IF file.key THEN {link[At(1)]} ELSE {link[At(1)], "set"} :
             link' = [link EXCEPT ![At(1)] = l]
        /\ FailInstallation(Nodes, Nodes)
  /\ UNCHANGED <<fileVars, lost, tmp, home, inst, loaded, histVars>>

(* CheckMasterReplicaStatus: one look. *)
CheckMasterReplicaStatus ==
  /\ Mine /\ phase = "master"
  /\ \/ StatusOK(1) /\ Enter("drop", Nodes) /\ UNCHANGED result
     \/ FailInstallation(Nodes, Nodes)
  /\ UNCHANGED <<fileVars, lost, tmp, home, inst, link, loaded, histVars>>

UNInstall  == Mine /\ UNInstallOn(Nodes)
DropTmpDir == Mine /\ DropOn("ok")

Begins  == Run \/ RemoveCluster
Program == \/ Connect \/ CheckTmpDir \/ Scp \/ CheckEnv \/ Install
           \/ CheckReplicaSetStatus \/ MMChangeSlave \/ CheckMasterReplicaStatus
           \/ UNInstall \/ DropTmpDir
===============================================================================
