------------------------------- MODULE SqlDeploy -------------------------------
(***************************************************************************)
(* The remote deployments of MariaDB (replication and Galera), PostgreSQL  *)
(* (replication and pg_auto_failover) and the four add-slave commands on   *)
(* the same machines, one after another.                                   *)
(***************************************************************************)
EXTENDS Rollout

CONSTANT MaxNodes   \* the longest list of nodes a run of Files visits

MariaDB == INSTANCE MariaDBDeploy
Galera  == INSTANCE GaleraDeploy
Pgsql   == INSTANCE PgsqlDeploy
PgAuto  == INSTANCE PgAutoFailover
Joining == INSTANCE AddSlave

(* Only a MariaDB file has a mode, and Files has the two that Install knows;  *)
(* pg_auto_failover has a monitor and a master, add-slave one new node.       *)
ASSUME KindsAssumption ==
  \A f \in Files :
    /\ IF f.product = "mariadb" THEN f.mode \in {"MS", "MM"} ELSE f.mode = ""
    /\ f.product = "pgauto" => Len(f.nodes) >= 2
    /\ f.product \in Joining!Joiners => Len(f.nodes) = 1
ASSUME MaxNodesAssumption ==
  /\ MaxNodes \in Nat
  /\ \A f \in Files : /\ Len(f.nodes) <= MaxNodes
                      /\ (Len(f.nodes) - 1) + (Len(f.fresh) - 1) <= MaxNodes

Program ==
  \/ MariaDB!Program \/ Galera!Program \/ Pgsql!Program \/ PgAuto!Program
  \/ Joining!Program

Begins ==
  \/ MariaDB!Begins \/ Galera!Run \/ Pgsql!Begins \/ PgAuto!Begins \/ Joining!Add

Next == Begins \/ Program \/ Environment

Spec == RolloutInit /\ [][Next]_rollVars

(* Every remote command answers in the end; nothing else is assumed. *)
FairSpec == Spec /\ WF_rollVars(Program)

-------------------------------------------------------------------------------
Phases == {"done", "connect", "checktmp", "scp", "checkenv", "install", "uninstall",
           "drop", "replica", "change", "master", "repluser", "basebackup", "chown",
           "start", "verify", "datasync", "changemaster", "undo"}

SqlTypeOK ==
  /\ file \in Files /\ op \in {"deploy", "remove", "add"} /\ keep \in BOOLEAN
  /\ phase \in Phases
  /\ phase = "done" <=> todo = <<>>
  /\ \A i \in DOMAIN todo : todo[i] \in DOMAIN Places
  /\ result \in {"none", "ok", "err", "killed"}
  /\ lost \subseteq (DOMAIN Places) \X Channel /\ loaded \subseteq Slot
  /\ tmp \in [Host -> TmpState] /\ home \in [Host -> {"intact", "wiped"}]
  /\ inst \in [Slot -> InstState] /\ link \in [Slot -> {"none", "set", "up"}]

(* The slots a run is about: every node its loops visit. *)
Visited == IF file.product = "pgauto" THEN PgAuto!Forward ELSE Nodes
Goals   == {At(Visited[i]) : i \in DOMAIN Visited}

(* A deployment that says "ok" has an instance in a slot of its own for every *)
(* node, every slave of a master pointed at it, and in MM each master at the  *)
(* other; an add-slave that says "ok" has joined the new instance: no status  *)
(* that could not be read, no slave left out, no repeated host lets it claim  *)
(* replication that is not there.                                             *)
SuccessMeansReplicating ==
  phase = "done" /\ result = "ok" /\ op # "remove" =>
    /\ Cardinality(Goals) = Len(Visited)
    /\ \A s \in Goals : inst[s] = "up"
    /\ file.product \in {"mariadb", "pgsql"} =>
         \A i \in DOMAIN Slaves : link[At(Slaves[i])] # "none"
    /\ file.mode = "MM" => link[At(1)] # "none"
    /\ op = "add" => link[At(1)] # "none"

(* A deployment that fails without the operator keeping the pieces, and whose *)
(* clean-up commands work, leaves every slot as it was.                       *)
FailureLeavesNoTrace ==
  phase = "done" /\ op = "deploy" /\ result = "err" /\ ~keep /\ ~blemish /\ others = 0 =>
    inst = before.inst

(* The dump of a master is only loaded into the slave that is being added, as *)
(* DataSync's own log line says.                                              *)
DumpGoesToNewSlave == loaded \subseteq {At(1)}

(* Every run comes to an end, through every product's loops. *)
RunEnds == phase # "done" ~> phase = "done"

(* The promise of DeployPromise, for lists of any length: the longest list of *)
(* any file, padded with the first node.                                      *)
GoalOf(s) == [n \in 1..MaxNodes |-> s[IF n <= Len(s) THEN n ELSE 1]]
Promise == INSTANCE DeployPromise WITH
  Node <- 1..MaxNodes, Layouts <- [1..MaxNodes -> Slot], State <- InstState,
  busy <- (phase # "done"), kind <- (IF op = "remove" THEN "remove" ELSE "deploy"),
  goal <- GoalOf([i \in DOMAIN Visited |-> At(Visited[i])]),
  verdict <- result, base <- before.inst, inst <- inst

(* Every one of these deployments keeps DeployPromise: it works only in slots *)
(* of its file, a deployment or an addition only in those that were free, and *)
(* "ok" comes only when an instance runs in each of them.                     *)
PromiseKept == Promise!Spec
===============================================================================
