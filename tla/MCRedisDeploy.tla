---------------------------- MODULE MCRedisDeploy ----------------------------
(* Instances of RedisDeploy for TLC: the slot of a node is its machine. *)
EXTENDS RedisDeploy

CONSTANTS h1, h2, h3

MCHost == {h1, h2, h3}
MCSlotHost == [h \in MCHost |-> h]

(* One machine per node, or the master named again as its own slave. *)
MCLayouts == {<<h1, h2, h3>>, <<h1, h2, h1>>}

(* Any one of the machines may be in any state; the others are fresh, so that *)
(* the run gets as far as the machine that is not.                            *)
MCInit ==
  /\ Init
  /\ \E g \in Host : \A h \in Host \ {g} : tmp[h] = "absent" /\ inst[h] = "free"
MCSpec == MCInit /\ [][Next]_vars /\ WF_vars(Program)
===============================================================================
