----------------------------- MODULE MCMaintenance -----------------------------
(* An instance of Maintenance for TLC: a first node and two that join it, two  *)
(* commands on a file at once, two backups over three days.                   *)
EXTENDS Maintenance

CONSTANTS m1, m2, m3, c1, c2, n1, n10

MCJoiner  == {m2, m3}
MCProcess == {c1, c2}

(* The second name begins with the first. *)
MCName    == {n1, n10}
MCMatches == [n \in MCName |-> IF n = n1 THEN {n1, n10} ELSE {n10}]

MCBackup  == {1, 2}
===============================================================================
