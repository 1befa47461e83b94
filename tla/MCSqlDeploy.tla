------------------------------ MODULE MCSqlDeploy ------------------------------
(* Instances of SqlDeploy for TLC. *)
EXTENDS SqlDeploy

CONSTANTS h1, h2, h3, h4, p1, p2

a == <<h1, p1>>
b == <<h2, p1>>
c == <<h3, p1>>
m == <<h1, p2>>

AFile(product, nodes) ==
  [product |-> product, mode |-> "", nodes |-> nodes, fresh |-> <<>>,
   from |-> a, key |-> FALSE]

(* Two slaves where the loops treat them alike, one where they only repeat; a *)
(* host named twice; two masters with either way of connecting; a monitor     *)
(* that shares its machine with a data node; an expansion by two nodes, of    *)
(* which the program will see one; and a new slave of each product.           *)
MCFiles ==
  {[AFile("mariadb", <<a, b>>) EXCEPT !.mode = "MS"],
   [AFile("mariadb", <<a, a>>) EXCEPT !.mode = "MS"],
   [AFile("mariadb", <<a, b>>) EXCEPT !.mode = "MM"],
   [AFile("mariadb", <<a, b>>) EXCEPT !.mode = "MM", !.key = TRUE],
   AFile("galera", <<a, b, c>>),
   AFile("pgsql", <<a, b, c>>),
   AFile("pgauto", <<m, a, b>>),
   [AFile("pgauto", <<m, a, b>>) EXCEPT !.fresh = <<c, <<h4, p1>>>>],
   [AFile("pgauto", <<m, a, b>>) EXCEPT !.fresh = <<c, <<h4, p1>>>>, !.key = TRUE]}
    \cup {AFile(product, <<b>>) : product \in
             {"mariadb-slave", "pgsql-slave", "redis-slave", "mongodb-slave"}}

(* The new slave has another port than its master; something runs at the    *)
(* master's port on the new slave's machine.                                *)
MCOtherPort == {AFile("mariadb-slave", <<<<h2, p2>>>>)}

MCHost == {h1, h2, h3, h4}
MCPort == {p1, p2}

Clean  == [h \in Host |-> "absent"]
Free   == [s \in Slot |-> "free"]
Up(ss) == [s \in Slot |-> IF s \in ss THEN "up" ELSE "free"]

(* Every machine is fresh; or one temporary directory or one slot is not; or *)
(* the nodes of a file run already.  An empty temporary directory behaves    *)
(* like a missing one until somebody copies into it.                         *)
MCInit ==
  LET f == CHOOSE g \in Files : TRUE
  IN  \/ \E h \in {h1, h2}, t \in TmpState \ {"empty"} : StartFrom(f, [Clean EXCEPT ![h] = t], Free)
      \/ \E s \in {a, b}, i \in InstState : StartFrom(f, Clean, [Free EXCEPT ![s] = i])
      \/ StartFrom(f, [Clean EXCEPT ![h2] = "foreign"], Up({a}))
      \/ \E n \in {{a, b}, {a, b, c}, {m, a, b}} : StartFrom(f, Clean, Up(n))
MCSpec == MCInit /\ [][Next]_rollVars /\ WF_rollVars(Program)
===============================================================================
