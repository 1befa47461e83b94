---------------------------- MODULE DeployPromise -----------------------------
(***************************************************************************)
(* What a remote deployment promises about the instances on the machines,  *)
(* whatever fails on the way: it works only inside the slots of its        *)
(* configuration; a deployment works only in those that were free when it  *)
(* began; and it says "ok" only when an instance runs in each of them.  A  *)
(* failure promises nothing more: the rollback is best effort.  A removal  *)
(* may say "ok" at any time, for it does not look at what its commands     *)
(* answered.                                                               *)
(***************************************************************************)
CONSTANTS Node, Slot, Layouts, State

VARIABLES
  busy,      \* a run is executing
  kind,      \* what it does: "deploy" or "remove"
  goal,      \* the slot of each node of its configuration
  verdict,   \* what the last run returned
  base,      \* the slots when the run began
  inst       \* the slots

vars == <<busy, kind, goal, verdict, base, inst>>

Init ==
  /\ busy = FALSE /\ kind = "deploy" /\ verdict = "none"
  /\ goal \in Layouts
  /\ inst \in [Slot -> State] /\ base = inst

Start ==
  /\ ~busy /\ busy' = TRUE
  /\ kind' \in {"deploy", "remove"}
  /\ goal' \in Layouts
  /\ verdict' = "none"
  /\ base' = inst
  /\ UNCHANGED inst

(* The slots the run may change. *)
Reach ==
  {s \in Slot : /\ \E n \in Node : goal[n] = s
                /\ kind = "deploy" => base[s] = "free"}

Work ==
  /\ busy
  /\ \E s \in Reach, i \in State : inst' = [inst EXCEPT ![s] = i]
  /\ verdict' \in {verdict, "err"}
  /\ UNCHANGED <<busy, kind, goal, base>>

Finish ==
  /\ busy /\ busy' = FALSE
  /\ \/ verdict' \in {"err", "killed"}
     \/ /\ verdict = "none" /\ verdict' = "ok"
        /\ kind = "deploy" => \A n \in Node : inst[goal[n]] = "up"
  /\ UNCHANGED <<kind, goal, base, inst>>

(* The run notes an error before it has finished cleaning up. *)
NoteError == busy /\ verdict' = "err" /\ UNCHANGED <<busy, kind, goal, base, inst>>

(* Somebody else installs in a free slot. *)
OtherInstalls ==
  /\ busy
  /\ \E s \in Slot : inst[s] = "free" /\ inst' = [inst EXCEPT ![s] = "up"]
  /\ UNCHANGED <<busy, kind, goal, verdict, base>>

Next == Start \/ Work \/ NoteError \/ Finish \/ OtherInstalls

Spec == Init /\ [][Next]_vars
===============================================================================
