-------------------------------- MODULE MCNode --------------------------------
EXTENDS NodeUpgrade

(* Everything that is installed or upgraded. *)
MCProducts   == AllProducts
MCUpgradable == {"redis", "pgsql", "mariadb"}

(* Installations of pg_auto_failover only. *)
MCPgAutoFailover == PgAutoFailover
MCNone           == {}
===============================================================================
