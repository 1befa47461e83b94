------------------------------ MODULE GaleraDeploy -----------------------------
(***************************************************************************)
(* "dbup mariadb galera-deploy": the first node bootstraps the cluster, the *)
(* others join it by the address list when they start; nobody asks the      *)
(* cluster how many members it has.                                         *)
(***************************************************************************)
EXTENDS Rollout

Mine == file.product = "galera"

(* CheckGaleraNode.  The members' own port must be closed on every host too, *)
(* which the slots do not show: Run may begin either way.                    *)
GaleraValidator(f) == Len(f.nodes) >= 3

Run ==
  \E f \in Files, nr \in BOOLEAN :
    /\ f.product = "galera" /\ GaleraValidator(f)
    /\ Begin(f, "deploy", nr, [i \in 1..Len(f.nodes) |-> i])

Connect     == Mine /\ ConnectEach(TRUE, "checktmp", Nodes)
CheckTmpDir == Mine /\ CheckTmpDirOn("scp", Nodes)
Scp         == Mine /\ ScpTo("checkenv", Nodes, Nodes)
CheckEnv    == Mine /\ CheckEnvOn("install", Nodes, Nodes)

(* "--onenode" for the first; the others get the address list. *)
GaleraInstall == InstallOn("up", node # 1, "drop", Nodes, Nodes, Nodes)

Install     == Mine /\ GaleraInstall
UNInstall   == Mine /\ UNInstallOn(Nodes)
DropTmpDir  == Mine /\ DropOn("ok")

Program == \/ Connect \/ CheckTmpDir \/ Scp \/ CheckEnv \/ Install
           \/ UNInstall \/ DropTmpDir
===============================================================================
