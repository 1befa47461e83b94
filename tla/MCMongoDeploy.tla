---------------------------- MODULE MCMongoDeploy ----------------------------
(* Two shards, config servers and routers side by side on three machines. *)
EXTENDS MongoDeploy

CONSTANTS h1, h2, h3

MCHost == {h1, h2, h3}
Routers == <<<<h1, 4>>, <<h2, 4>>, <<h2, 5>>>>
MCSlot == (MCHost \X (1..3)) \cup {Routers[n] : n \in Node}
MCSlotHost == [s \in MCSlot |-> s[1]]
OnPort(p) == <<<<h1, p>>, <<h2, p>>, <<h3, p>>>>

(* A port for each group, two routers on one machine; or the second shard on *)
(* the port of the first.                                                     *)
MCClusters == {<<OnPort(1), OnPort(p), OnPort(3), Routers>> : p \in {1, 2}}
MCLayouts == {OnPort(p) : p \in 1..3} \cup {Routers}

(* One place at a time is in an arbitrary state: a temporary directory, a    *)
(* slot, or all slots of one machine (what is left of a cluster to remove).  *)
NoTmp == [h \in Host |-> "absent"]
NoInst == [s \in Slot |-> "free"]
MCPlaces ==
  \/ inst = NoInst /\ tmp \in {[NoTmp EXCEPT ![h2] = t] : t \in TmpState}
  \/ tmp = NoTmp /\ inst \in {[NoInst EXCEPT ![<<h2, 2>>] = i] : i \in InstState}
  \/ tmp = NoTmp /\ inst = [s \in Slot |-> IF s[1] = h3 THEN "up" ELSE "free"]
MCInit == MCPlaces /\ Init
MCSpec == MCInit /\ [][Next]_vars /\ WF_vars(Program)
===============================================================================
