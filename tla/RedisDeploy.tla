------------------------------ MODULE RedisDeploy -----------------------------
(***************************************************************************)
(* "dbup redis deploy" and "dbup redis remove-deploy": a master and one or *)
(* two slaves with the same port and directory, so that a node's slot is   *)
(* its machine.  After the pipeline's Install the slaves are pointed at    *)
(* the master one by one, and five seconds later each is asked once        *)
(* whether its link is up.                                                 *)
(***************************************************************************)
EXTENDS DeployPipeline

VARIABLE
  link      \* per slot: "none", SLAVEOF "set" in its configuration, link seen "up"

vars == <<pipeVars, link>>

LinkState == {"none", "set", "up"}

ASSUME SlavesAssumption == N >= 2

(* Replication settings are part of an instance: they go when it goes. *)
KeepLinks == link' = [s \in Slot |-> IF inst'[s] = "up" THEN link[s] ELSE "none"]

(* The loops over d.slaves: slave number cursor is node cursor + 1. *)
Slave == cursor + 1
NextSlave(after) ==
  IF Slave < N THEN cursor' = cursor + 1 /\ phase' = phase ELSE Goto(after)

-------------------------------------------------------------------------------
(* Deploy.Run: the file's no-rollback is not looked at. *)
Run == Begin("deploy", FALSE) /\ KeepLinks

(* Deploy.RemoveDeploy: after Scp straight to UNInstall. *)
RemoveDeploy == Begin("remove", FALSE) /\ KeepLinks

(* ReplicaSlave: SLAVEOF and CONFIG REWRITE over a connection of its own;    *)
(* either may fail, the second after the first has taken effect.             *)
ReplicaSlave ==
  /\ phase = "post"
  /\ \/ /\ link' = [link EXCEPT ![at[Slave]] = "set"]
        /\ NextSlave("verify")
        /\ UNCHANGED result
     \/ /\ \E l \in {link[at[Slave]], "set"} :
             link' = [link EXCEPT ![at[Slave]] = l]
        /\ FailInstallation
  /\ UNCHANGED <<mode, keep, at, lost, hostVars, histVars>>

(* CheckSlaves: one look at master_link_status; anything but "up" fails. *)
CheckSlaves ==
  /\ phase = "verify"
  /\ \/ /\ link[at[Slave]] = "up"
        /\ NextSlave("drop")
        /\ UNCHANGED result
     \/ FailInstallation
  /\ UNCHANGED <<mode, keep, at, lost, link, hostVars, histVars>>

(* The slave's own work: the link comes up, and may go down again. *)
LinkChanges ==
  /\ phase # "done"
  /\ \E s \in Slot :
       /\ link[s] # "none"
       /\ \E l \in {"set", "up"} \ {link[s]} : link' = [link EXCEPT ![s] = l]
  /\ UNCHANGED pipeVars

Init == PipelineInit /\ link = [s \in Slot |-> "none"]

Program ==
  \/ (Connect \/ CheckTmpDir \/ Scp \/ CheckEnv \/ Install \/ UNInstall \/ DropTmpDir)
       /\ KeepLinks
  \/ ReplicaSlave
  \/ CheckSlaves

Environment ==
  \/ (Interrupt \/ LoseConnection \/ OtherInstalls \/ OtherFills) /\ KeepLinks
  \/ LinkChanges

Next == Run \/ RemoveDeploy \/ Program \/ Environment

Spec == Init /\ [][Next]_vars

(* Every remote command returns in the end, with an answer or with the error *)
(* of a broken connection; nothing else is assumed.                          *)
FairSpec == Spec /\ WF_vars(Program)

-------------------------------------------------------------------------------
TypeOK == PipelineTypeOK /\ link \in [Slot -> LinkState]

Occupied(i) == i # "free"

(* A deployment that returns success has put every node of its configuration *)
(* in a slot of its own, with a running instance, and has pointed every      *)
(* slave at the master: no early return and no repeated host in the file     *)
(* (nothing validates that) lets it claim a cluster that is not there.       *)
SuccessMeansDeployed ==
  phase = "done" /\ mode = "deploy" /\ result = "ok" =>
    /\ \A n \in Node : inst[at[n]] = "up"
    /\ \A n \in 2..N : link[at[n]] # "none"
    /\ \A m, n \in Node : m # n => at[m] # at[n]

(* A deployment that fails, is not interrupted and whose clean-up commands   *)
(* all work leaves the slots as it found them and no copied file behind, so  *)
(* that the next attempt meets no leftovers (Run's rollback and its deferred *)
(* DropTmpDir together).  What else may be gone: see ForeignFilesKept.       *)
FailureLeavesNoTrace ==
  phase = "done" /\ mode = "deploy" /\ result = "err" /\ ~blemish /\ others = 0 =>
    /\ inst = before.inst
    /\ \A h \in Host : tmp[h] \in {before.tmp[h], "empty"}

(* An instance that was there when a deployment began is not touched by it,  *)
(* nor by its rollback: UNInstall only runs after CheckEnv found every slot  *)
(* free.                                                                     *)
PriorInstancesUntouched ==
  mode = "deploy" =>
    \A s \in Slot : Occupied(before.inst[s]) => inst[s] = before.inst[s]

(* DropTmpDir deletes whatever is in the temporary directory; somebody's      *)
(* files there survive the run because it is deferred only after CheckTmpDir *)
(* has accepted every node.  The exception is a machine whose sftp channel   *)
(* breaks early, and only if it does for every node the file has there: the  *)
(* check then passes, Scp fails, and the deferred call still has a shell.    *)
ForeignFilesKept ==
  \A h \in Host : before.tmp[h] \in {"foreign", "file"} =>
    \/ tmp[h] = before.tmp[h]
    \/ /\ before.tmp[h] = "foreign" /\ tmp[h] = "empty"
       /\ \E n \in Node : HostAt(n) = h
       /\ \A n \in Node : HostAt(n) = h => NoSftp(n)

(* A run that succeeds leaves every home directory alone: once Scp has gone  *)
(* through on every node, DropTmpDir's cd cannot fail.                       *)
SuccessSparesHome ==
  phase = "done" /\ result = "ok" => home = before.home

(* RemoveDeploy reports success whatever UNInstall answered; when every      *)
(* clean-up command worked, no slot of the configuration is left with a unit *)
(* or a directory.                                                           *)
RemovalIsComplete ==
  phase = "done" /\ mode = "remove" /\ result = "ok" /\ ~blemish /\ others = 0 =>
    \A n \in Node : inst[at[n]] \in {"free", "orphan"}

(* Every run comes to an end: no loop over the nodes waits for an answer     *)
(* that a failed node will not give.                                         *)
RunEnds == phase # "done" ~> phase = "done"

(* The log line of DropTmpDir ("delete the target machines' temporary        *)
(* directory") promises that nothing but that directory is emptied.          *)
OnlyTmpDirDeleted == \A h \in Host : home[h] = "intact"

(* The deployment implements what DeployPromise says of any deployment: a    *)
(* failing step, a broken connection or an interrupt in any order never makes *)
(* it work outside its slots or report a success it has not had.              *)
PromiseKept == Promise!Spec
===============================================================================
