---------------------------- MODULE MCRedisCluster ----------------------------
(* A cluster of two masters and a third place, on two machines. *)
EXTENDS RedisCluster, TLC

CONSTANTS hA, hB, s1, s2, s3, q1, q2

MCHost == {hA, hB}
MCSlot == {s1, s2, s3}
MCSlotHost == (s1 :> hA) @@ (s2 :> hB) @@ (s3 :> hB)
MCLayouts == {<<s1, s2>>}

(* The hash slots are interchangeable. *)
MCSymmetry == Permutations({q1, q2})

(* Fresh machines; failed runs make them less so for the next ones. *)
MCInit ==
  /\ Init
  /\ inst = [s \in Slot |-> "free"] /\ tmp = [h \in Host |-> "absent"]
  /\ newcomer = s3
MCSpec == MCInit /\ [][Next]_vars

(* What a command leaves in these variables when it is over is not looked at *)
(* by any later step or property, so states that differ in nothing else are  *)
(* explored once.                                                            *)
MCView ==
  <<phase, cursor, mode, at, result, hostVars, before, others, runs, clusterVars,
    mphase, fixVars, mresult,
    IF phase = "done" THEN <<>> ELSE <<keep, lost, blemish>>,
    IF mphase \in {"done", "forget"} THEN <<>>
      ELSE <<newcomer, role, noRollback, mlost, mblemish>>>>
===============================================================================
