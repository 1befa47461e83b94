------------------------------ MODULE NodeInstall ------------------------------
(***************************************************************************)
(* What "install" and "uninstall" do on the machine they run on, command   *)
(* by command: the work behind InstallResults and UNInstallResults of      *)
(* RemoteHost.  One slot (a port, a directory, a systemd unit) and one     *)
(* product; any number of runs, one after the other.  Every command may    *)
(* fail, the program may be killed and the machine may restart at any      *)
(* point.                                                                  *)
(***************************************************************************)
EXTENDS Sequences, RemoteHost

CONSTANT Products       \* the products to look at

PgAutoFailover == {"monitor", "pgdata", "pgdata member"}
Exporters  == {"redis_exporter", "mongodb_exporter", "mariadb_exporter", "postgres_exporter"}
Monitoring == Exporters \cup {"node_exporter", "prometheus", "prometheus, grafana", "grafana"}
AllProducts == {"redis", "mongod", "mongos", "mariadb", "mariadb slave",
                "mariadb slave, data", "galera", "galera member", "pgsql", "pgslave", "pgpool"}
                 \cup PgAutoFailover \cup Monitoring
ASSUME ProductsAssumption == Products \subseteq AllProducts

VARIABLES
  product,      \* what is installed here
  slot,         \* the machine, see SlotState
  op,           \* what is running
  todo,         \* the commands it has still to run
  norollback,   \* the --no-rollback option
  last,         \* the operation that ran last, or runs
  result,       \* what it returned ("undone": failed, after a rollback)
  clean,        \* every command of the rollback worked
  before        \* the slot when the operation began

vars == <<product, slot, op, todo, norollback, last, result, clean, before>>

-------------------------------------------------------------------------------
(* The slot.  "prior" is what was there when the operation began, "ours" what *)
(* it has made, "rest" what "pg_autoctl drop --destroy" leaves of an instance. *)

Age     == {"none", "prior", "ours"}
Content == {"dir", "prior", "ours", "rest"}   \* "dir": the directory itself
SlotState == [dir : SUBSET Content,
              unit : Age,             \* the unit file
              loaded : Age,           \* what systemd knows of it
              enabled : BOOLEAN,      \* it is started at boot
              proc : Age,             \* who listens on the port
              auto : BOOLEAN,         \* pg_autoctl keeps a state file for it
              seed : SUBSET {"disk", "systemd"},  \* --wsrep-new-cluster is in the unit
              saved : SUBSET {"dir", "unit"}]     \* moved aside as .bak.<time>

Aged(a) == IF a = "none" THEN "none" ELSE "prior"
(* The slot as the next operation finds it. *)
Older(s) ==
  [s EXCEPT !.dir = (@ \cap {"dir"}) \cup (IF @ \subseteq {"dir"} THEN {} ELSE {"prior"}),
            !.unit = Aged(@), !.loaded = Aged(@), !.proc = Aged(@), !.saved = {}]

(* A slot in which nothing was ever installed. *)
Bare == [dir |-> {}, unit |-> "none", loaded |-> "none", enabled |-> FALSE,
         proc |-> "none", auto |-> FALSE, seed |-> {}, saved |-> {}]

(* What a deployment sees of the slot. *)
Inst(s) == IF s.proc # "none" THEN (IF s.unit = "none" THEN "orphan" ELSE "up")
           ELSE IF s.unit = "none" /\ s.dir \subseteq {"dir"} THEN "free" ELSE "files"

-------------------------------------------------------------------------------
(* What is checked before the first command.  The databases want an empty or  *)
(* missing directory, a free port and no unit file; pg_auto_failover does not *)
(* look for the unit, but for pg_autoctl's state files; the exporters and     *)
(* grafana only want their port, and node_exporter refuses its own directory. *)

DatabaseCheckAnyDir == {"port", "unit"}      \* mutant: the directory is not looked at
DatabaseCheck == {"dir", "port", "unit"}
SlaveCheck    == {"dir", "port", "unit"}
PgpoolCheck   == {"port", "dir", "unit"}
PgAutoCheck   == {"dir", "port", "auto"}
ExporterCheck == {"port"}
NodeExporterCheck == {"port", "absent"}
PrometheusCheck   == {"port", "dir"}

Checks(p) == CASE p \in PgAutoFailover -> PgAutoCheck
               [] p \in Exporters \cup {"grafana"} -> ExporterCheck
               [] p = "node_exporter" -> NodeExporterCheck
               [] p \in {"prometheus", "prometheus, grafana"} -> PrometheusCheck
               [] p = "pgslave" -> SlaveCheck
               [] p = "pgpool" -> PgpoolCheck
               [] OTHER -> DatabaseCheck

CheckOK(p, s) == /\ "dir"  \in Checks(p) => s.dir \subseteq {"dir"}
                 /\ "absent" \in Checks(p) => s.dir = {}
                 /\ "port" \in Checks(p) => s.proc = "none"
                 /\ "unit" \in Checks(p) => s.unit = "none"
                 /\ "auto" \in Checks(p) => ~s.auto

-------------------------------------------------------------------------------
(* The commands of each installation, in their order. *)

CreateUser   == <<"user">>
Mkdir        == <<"mkdir">>
UnpackSteps  == CreateUser \o Mkdir \o <<"untar">>
SystemdSteps == <<"unit", "reload", "enable", "limit">>
SystemdStepsNoEnable == <<"unit", "reload", "limit">>   \* mutant

(* redis.  Mutant: "enable" was forgotten. *)
RedisInstallNoEnable == UnpackSteps \o <<"ldd", "config", "chown">> \o SystemdStepsNoEnable
                          \o <<"start", "join", "info">>
RedisInstall == UnpackSteps \o <<"ldd", "config", "chown">> \o SystemdSteps
                  \o <<"start", "join", "info">>

(* MongoDB, MariaDB and PostgreSQL bring the libraries the machine lacks: they *)
(* are copied next to the system's, which no rollback undoes.                 *)
LibComplement == <<"ldd", "library", "ldd">>
MongodInstall == UnpackSteps \o LibComplement \o <<"config", "keyfile", "chown">>
                   \o SystemdSteps \o <<"start", "join">>
MongosInstall == <<"mkdir", "untar", "ldd", "config", "keyfile", "chown">>
                   \o SystemdSteps \o <<"start">>

(* MariaDB: alone or a master, a slave, a slave that first loads the data of  *)
(* a master on another port, the first node of a galera cluster and another   *)
(* one.                                                                       *)
MariaDBLibComplement == <<"ldd", "ldd-library", "library", "ldd">>
MariaDBSystem == UnpackSteps \o MariaDBLibComplement \o <<"config", "chown">>
                   \o SystemdSteps
Changelocalpassword == <<"root@localhost", "root@127.0.0.1">>
CreateReplBackupUsers == <<"replication-user", "backup-user">>
InitPrimary   == Changelocalpassword \o CreateReplBackupUsers
InitSecondary == Changelocalpassword \o <<"join">>
InitSecondaryWithData == Changelocalpassword \o <<"datasync", "join">>
MariaDBInstall      == MariaDBSystem \o <<"start">> \o InitPrimary
MariaDBSlaveInstall == MariaDBSystem \o <<"start">> \o InitSecondary
MariaDBDataSlaveInstall == MariaDBSystem \o <<"start">> \o InitSecondaryWithData
GaleraMemberInstall == MariaDBSystem \o <<"start">>
(* Mutant: systemd is not told that the flag is gone. *)
GaleraFirstInstallNoReload == MariaDBSystem \o <<"start">> \o Changelocalpassword
                                \o <<"unseed">>
(* The first node of a galera cluster starts with a flag that makes it a new  *)
(* cluster; the flag is then taken out of the unit.                           *)
GaleraFirstInstall == MariaDBSystem \o <<"start">> \o Changelocalpassword
                        \o <<"unseed", "reload">>

(* PostgreSQL: on its own, or as a slave, whose data are the master's. *)
PgsqlSystem == UnpackSteps \o LibComplement \o <<"chown">> \o SystemdSteps
InitDatabase == <<"pwfile", "initdb">>
CreateDBUser == <<"admin-access", "hidden-user", "expire", "database", "user", "access">>
InitDB == InitDatabase \o <<"config", "hba", "chown", "start">> \o CreateDBUser
PgsqlInstall   == PgsqlSystem \o InitDB \o <<"info">>
ReplicaSlave   == <<"basebackup">>
PgslaveInstall == PgsqlSystem \o ReplicaSlave \o <<"config", "chown", "start">>

(* pgpool: its users go into its own files. *)
PgpoolDBUser == <<"pool-password", "hidden-password", "hba">>
PgpoolInstall == UnpackSteps \o <<"ldd", "hba", "config", "unit">> \o PgpoolDBUser
                   \o <<"chown", "reload", "enable", "limit", "start", "info">>

(* pg_auto_failover: the monitor, the first data node, which makes the        *)
(* database and its users, and the others, which copy it.  On some systems    *)
(* another pg_autoctl takes the place of the unpacked one.                    *)
Checksys == <<"mv-pg_autoctl", "pg_autoctl">>
Checkldd == <<"ldd", "library", "ldd">>
PgAutoMkdir == Mkdir \o <<"mkdir-tmp", "link">>
PgAutoSystemInit == CreateUser \o PgAutoMkdir \o <<"untar">> \o Checksys \o Checkldd
                      \o <<"chown", "chown-tmp">>
PgAutoSystemd    == <<"unit", "reload", "start">>          \* no "enable"
MonitorChangehba == <<"hba">>
PgAutoInitDatabase(p) ==
  CASE p = "monitor" -> <<"pwfile", "create">> \o MonitorChangehba
    [] p = "pgdata" -> <<"pwfile", "initdb", "hba", "create">>
    [] p = "pgdata member" -> <<"pwfile", "create">>
FlushPGAuth == <<"pgpass", "chown-pgpass">>
MonitorChangePass == <<"password", "reload-config">>
PgAutoDBUser == <<"monitor-password", "failover-password", "replication-password", "expire",
                  "database", "user", "access">>
MonitorInstall == PgAutoSystemInit \o PgAutoInitDatabase("monitor") \o PgAutoSystemd
                    \o MonitorChangePass
PGdataInstall(p) ==
  <<"checkmonitor">> \o PgAutoSystemInit \o FlushPGAuth \o PgAutoInitDatabase(p)
    \o (IF p = "pgdata" THEN <<"config", "chown">> \o PgAutoSystemd \o PgAutoDBUser
                        ELSE PgAutoSystemd)
    \o <<"limit">> \o (IF p = "pgdata" THEN <<"info">> ELSE <<>>)

(* The monitoring programs.  The exporter of MariaDB has a file with the      *)
(* password of its user.  Grafana, where it is wanted, comes after prometheus; *)
(* the slot is that of prometheus, which nothing takes back if grafana fails. *)
ExporterSystemd == <<"unit", "reload", "enable", "start">>
RedisExporterInstall    == <<"mkdir", "untar">> \o ExporterSystemd
MongodbExporterInstall  == <<"mkdir", "untar">> \o ExporterSystemd
MariadbExporterInstall  == <<"mkdir", "untar", "config">> \o ExporterSystemd
PostgresExporterInstall == <<"mkdir", "untar">> \o ExporterSystemd
NodeExporterInstall     == <<"mkdir", "untar">> \o ExporterSystemd
PrometheusInstall == <<"mkdir", "hosts", "untar">> \o ExporterSystemd
GrafanaInstall == <<"mkdir", "untar">> \o ExporterSystemd \o <<"wait", "password">>
BothInstall    == PrometheusInstall \o <<"grafana">>

InstallSteps(p) ==
  CASE p = "redis" -> RedisInstall       [] p = "mongod" -> MongodInstall
    [] p = "mongos" -> MongosInstall     [] p = "mariadb" -> MariaDBInstall
    [] p = "mariadb slave" -> MariaDBSlaveInstall
    [] p = "mariadb slave, data" -> MariaDBDataSlaveInstall
    [] p = "galera" -> GaleraFirstInstall
    [] p = "galera member" -> GaleraMemberInstall
    [] p = "pgsql" -> PgsqlInstall       [] p = "pgslave" -> PgslaveInstall
    [] p = "pgpool" -> PgpoolInstall     [] p = "monitor" -> MonitorInstall
    [] p \in {"pgdata", "pgdata member"} -> PGdataInstall(p)
    [] p = "redis_exporter" -> RedisExporterInstall
    [] p = "mongodb_exporter" -> MongodbExporterInstall
    [] p = "mariadb_exporter" -> MariadbExporterInstall
    [] p = "postgres_exporter" -> PostgresExporterInstall
    [] p = "node_exporter" -> NodeExporterInstall
    [] p = "prometheus" -> PrometheusInstall
    [] p = "prometheus, grafana" -> BothInstall
    [] p = "grafana" -> GrafanaInstall

UninstallSteps(p) ==
  IF p \in PgAutoFailover
    THEN <<"stop", "mvunit", "reload", "drop", "rmauto", "mvdir">>
    ELSE <<"stop", "mvunit", "reload", "mvdir">>

(* A failed installation of redis, PostgreSQL or pgpool deletes what it made;  *)
(* the others call their uninstall; the monitoring programs leave everything.  *)
(* Mutant: the unit goes first, so the process is never stopped. *)
ThoroughRollbackUnitFirst == <<"rmunit", "stop", "reload", "rmdir">>
ThoroughRollback == <<"stop", "rmunit", "reload", "rmdir">>

(* DataSync puts the master's port in the place of the slave's own, so that   *)
(* the rollback of what fails from there on stops and moves the unit of that  *)
(* port, another slot's, and of this slot only the directory.                 *)
DataSyncRollback == <<"stop-other", "mvunit-other", "reload", "mvdir">>

(* The rollback after command c has failed. *)
RollbackSteps(p, c) ==
  CASE p \in {"redis", "pgsql", "pgslave", "pgpool", "monitor"} -> ThoroughRollback
    [] p \in {"pgdata", "pgdata member"} -> <<"stop", "rmunit", "reload", "drop", "rmdir">>
    [] p = "mariadb slave, data" /\ c \in {"datasync", "join"} -> DataSyncRollback
    [] OTHER -> UninstallSteps(p)

(* The commands whose failure is logged and otherwise ignored. *)
IgnoredInRollback(p) ==
  CASE p \in {"redis", "pgsql", "pgslave", "pgpool", "monitor"} ->
         {"stop", "rmunit", "reload", "rmdir"}
    [] p \in {"pgdata", "pgdata member"} -> {"stop", "rmunit", "reload", "rmdir"}
    [] OTHER -> {}
(* Mutant: as in a rollback, a failing "stop" does not end the removal. *)
IgnoredInUninstallStopToo(p) == {"stop", "reload"}
IgnoredInUninstall(p) ==
  CASE p \in {"pgsql", "pgslave"} -> {"reload"}
    [] p \in PgAutoFailover -> {"reload", "drop"}
    [] OTHER -> {}

(* "dbup mariadb galera-start": the unit gets the flag, the node starts, the  *)
(* flag goes again, also when the start failed.                               *)
BootstrapSteps == <<"seed", "reload", "start", "unseed", "reload">>
CanBootstrap(s) == s.proc = "none" /\ s.unit # "none" /\ "dir" \in s.dir

-------------------------------------------------------------------------------
(* What a command does to the slot, and when it can work at all. *)

HasProgram(s) == s.dir \cap {"prior", "ours"} # {}
Possible(c, s) ==
  CASE c = "start" -> /\ s.loaded # "none" /\ s.proc = "none"
                      /\ HasProgram(s)
    [] c = "drop"  -> s.auto /\ HasProgram(s)
    [] OTHER -> TRUE

(* The commands that are left out where there is nothing for them to do. *)
Needed(c, s) == /\ c \in {"stop", "rmunit", "mvunit"} => s.unit # "none"
                /\ c \in {"rmdir", "mvdir"} => "dir" \in s.dir
                /\ c = "rmauto" => s.auto

(* The unit that is written for the first node of a galera cluster. *)
UnitFlag == IF product = "galera" THEN {"disk"} ELSE {}

Done(c, s) ==
  IF ~Needed(c, s) THEN s ELSE
  CASE c = "mkdir" -> [s EXCEPT !.dir = @ \cup {"dir"}]
    [] c \in {"untar", "config", "keyfile", "pwfile", "initdb", "hba", "basebackup"} ->
         [s EXCEPT !.dir = @ \cup {"dir", "ours"}]
    [] c = "create" -> [s EXCEPT !.dir = @ \cup {"dir", "ours"}, !.auto = TRUE]
    [] c = "unit"   -> [s EXCEPT !.unit = "ours", !.seed = @ \cup UnitFlag]
    [] c = "seed"   -> [s EXCEPT !.seed = @ \cup {"disk"}]
    [] c = "unseed" -> [s EXCEPT !.seed = @ \ {"disk"}]
    [] c = "reload" -> [s EXCEPT !.loaded = s.unit,
                                 !.seed = IF "disk" \in @ THEN {"disk", "systemd"} ELSE {}]
    [] c = "enable" -> [s EXCEPT !.enabled = TRUE]
    [] c = "start"  -> [s EXCEPT !.proc = "ours"]
    [] c = "stop"   -> [s EXCEPT !.proc = "none"]
    [] c = "rmunit" -> [s EXCEPT !.unit = "none", !.seed = @ \ {"disk"}]
    [] c = "mvunit" -> [s EXCEPT !.unit = "none", !.seed = @ \ {"disk"},
                                 !.saved = @ \cup (IF s.unit = "prior" THEN {"unit"} ELSE {})]
    [] c = "drop"   -> [s EXCEPT !.auto = FALSE,
                                 !.dir = IF "prior" \in @ THEN (@ \ {"prior"}) \cup {"rest"} ELSE @]
    [] c = "rmauto" -> [s EXCEPT !.auto = FALSE]
    [] c = "rmdir"  -> [s EXCEPT !.dir = {}]
    [] c = "mvdir"  -> [s EXCEPT !.dir = {},
                                 !.saved = @ \cup (IF "prior" \in s.dir THEN {"dir"} ELSE {})]
    [] OTHER -> s

(* A failed command has done nothing, or, unless it is a single system call,  *)
(* what it should have done.                                                  *)
Atomic == {"mvunit", "mvdir", "rmunit", "rmauto"}
Failed(c, s) == {s} \cup (IF Possible(c, s) /\ c \notin Atomic THEN {Done(c, s)} ELSE {})

-------------------------------------------------------------------------------
(* The slots the first operation may find: nothing or an empty directory,     *)
(* somebody's files, a program that is none of ours on the port, an instance  *)
(* that runs or is stopped, in this directory or in another one, and the      *)
(* state files pg_autoctl leaves behind.                                      *)
Instance(p, d, running) ==
  [Bare EXCEPT !.dir = d, !.unit = "prior", !.loaded = "prior",
               !.enabled = (p \notin PgAutoFailover), !.auto = (p \in PgAutoFailover),
               !.proc = IF running THEN "prior" ELSE "none"]
InitialSlots(p) ==
  {Bare, [Bare EXCEPT !.dir = {"dir"}], [Bare EXCEPT !.dir = {"dir", "prior"}],
   [Bare EXCEPT !.proc = "prior"]}
    \cup {Instance(p, d, r) : d \in {{}, {"dir", "prior"}}, r \in BOOLEAN}
    \cup (IF p \in PgAutoFailover THEN {[Bare EXCEPT !.auto = TRUE]} ELSE {})

Init == /\ product \in Products
        /\ slot \in InitialSlots(product)
        /\ op = "idle" /\ todo = <<>> /\ norollback = FALSE
        /\ last = "none" /\ result = "none" /\ clean = TRUE
        /\ before = slot

Idle == op = "idle"
Begin(o, steps) == /\ Idle
                   /\ slot' = Older(slot) /\ before' = Older(slot)
                   /\ last' = o /\ clean' = TRUE
                   /\ op' = o /\ todo' = steps /\ result' = "none"
                   /\ UNCHANGED product
Refuse(o) == /\ Idle
             /\ slot' = Older(slot) /\ before' = Older(slot)
             /\ last' = o /\ clean' = TRUE /\ result' = "refused"
             /\ norollback' = FALSE
             /\ UNCHANGED <<product, op, todo>>
(* Mutant: the rest of the commands is still run. *)
ReturnGoesOn(r) == /\ op' = "idle" /\ todo' = todo /\ result' = r
                   /\ UNCHANGED <<product, norollback, last, before>>
Return(r) == /\ op' = "idle" /\ todo' = <<>> /\ result' = r
             /\ UNCHANGED <<product, norollback, last, before>>

BeginInstall   == \E nr \in BOOLEAN : /\ CheckOK(product, slot)
                                      /\ norollback' = (nr \/ product \in Monitoring)
                                      /\ Begin("install", InstallSteps(product))
RefuseInstall  == ~CheckOK(product, slot) /\ Refuse("install")
(* The arguments are wrong, or the file with them or the package is missing. *)
HandlePrepareArgs == Refuse("install")
BeginUninstall == /\ product \notin Monitoring /\ norollback' = TRUE
                  /\ Begin("uninstall", UninstallSteps(product))
BeginBootstrap == /\ product = "galera" /\ CanBootstrap(slot) /\ norollback' = TRUE
                  /\ Begin("bootstrap", BootstrapSteps)
RefuseBootstrap == product = "galera" /\ ~CanBootstrap(slot) /\ Refuse("bootstrap")

Running(o) == op = o /\ todo # <<>>
Next1(s) == /\ slot' = s /\ todo' = Tail(todo)
            /\ UNCHANGED <<product, op, norollback, last, result, before>>

(* The next command works. *)
Step == /\ op # "idle" /\ todo # <<>> /\ Possible(Head(todo), slot)
        /\ Next1(Done(Head(todo), slot))
        /\ UNCHANGED clean

(* The last command has worked. *)
Finish == /\ op # "idle" /\ todo = <<>>
          /\ Return(CASE op = "rollback" -> "undone" [] op = "unwind" -> "failed" [] OTHER -> "ok")
          /\ UNCHANGED <<slot, clean>>

(* A command of an installation fails: its rollback begins. *)
InstallFails == /\ Running("install") /\ Head(todo) # "info" /\ ~norollback
                /\ slot' \in Failed(Head(todo), slot)
                /\ op' = "rollback" /\ todo' = RollbackSteps(product, Head(todo))
                /\ UNCHANGED <<product, norollback, last, result, clean, before>>

(* Without a rollback, or where only the summary could not be written, the    *)
(* installation just returns its error.                                       *)
InstallGivesUp == /\ Running("install") /\ (norollback \/ Head(todo) = "info")
                  /\ slot' \in Failed(Head(todo), slot)
                  /\ Return("failed") /\ UNCHANGED clean

(* A command of a rollback fails. *)
RollbackFails == /\ Running("rollback") /\ Needed(Head(todo), slot)
                 /\ \E s \in Failed(Head(todo), slot) :
                      IF Head(todo) \in IgnoredInRollback(product)
                        THEN Next1(s) ELSE slot' = s /\ Return("failed")
                 /\ clean' = FALSE

(* A command of a removal fails. *)
UninstallFails == /\ Running("uninstall") /\ Needed(Head(todo), slot)
                  /\ \E s \in Failed(Head(todo), slot) :
                       IF Head(todo) \in IgnoredInUninstall(product)
                         THEN Next1(s) ELSE slot' = s /\ Return("failed")
                  /\ clean' = FALSE

(* A command of galera-start fails; only after a failed start is the flag     *)
(* taken out again.                                                           *)
BootstrapFails == /\ op \in {"bootstrap", "unwind"} /\ todo # <<>>
                  /\ slot' \in Failed(Head(todo), slot)
                  /\ IF Head(todo) = "start"
                       THEN /\ op' = "unwind" /\ todo' = <<"unseed", "reload">>
                            /\ UNCHANGED <<product, norollback, last, result, before>>
                       ELSE Return("failed")
                  /\ UNCHANGED clean

(* ctrl-C: no rollback. *)
Kill == /\ op # "idle" /\ Return("killed") /\ UNCHANGED <<slot, clean>>

(* The machine restarts: systemd reads the units and starts the enabled ones; *)
(* the program of an old unit may be in a directory that is not looked at.    *)
Booted(s) ==
  {[s EXCEPT !.loaded = s.unit,
             !.seed = IF "disk" \in @ THEN {"disk", "systemd"} ELSE {},
             !.proc = pr] :
     pr \in IF ~s.enabled \/ s.unit = "none" THEN {"none"}
           ELSE IF HasProgram(s) THEN {s.unit}
           ELSE IF s.unit = "prior" THEN {"prior", "none"} ELSE {"none"}}
Reboot == /\ slot' \in Booted(slot)
          /\ IF Idle THEN UNCHANGED <<product, op, todo, norollback, last, result, before>>
                     ELSE Return("killed")
          /\ UNCHANGED clean

Next == \/ BeginInstall \/ RefuseInstall \/ HandlePrepareArgs \/ BeginUninstall
        \/ BeginBootstrap \/ RefuseBootstrap
        \/ Step \/ Finish \/ InstallFails \/ InstallGivesUp
        \/ RollbackFails \/ UninstallFails \/ BootstrapFails
        \/ Kill \/ Reboot

Spec == Init /\ [][Next]_vars

-------------------------------------------------------------------------------
(* Every command there is: those that change the slot, those that work on the *)
(* instance in it or on the machine around it, and those of an upgrade.       *)
Commands ==
  {"mkdir", "untar", "config", "keyfile", "pwfile", "initdb", "hba", "basebackup", "create",
   "unit", "seed", "unseed", "reload", "enable", "start", "stop", "rmunit", "mvunit", "drop",
   "rmauto", "rmdir", "mvdir"}
  \cup
  {"user", "limit", "ldd", "library", "ldd-library", "chown", "join", "info", "hosts", "wait",
   "link", "mkdir-tmp", "chown-tmp", "mv-pg_autoctl", "pg_autoctl", "pgpass", "chown-pgpass",
   "checkmonitor", "reload-config", "grafana", "password", "root@localhost", "root@127.0.0.1",
   "replication-user", "backup-user", "admin-access", "hidden-user", "expire", "database",
   "access", "pool-password", "hidden-password", "monitor-password", "failover-password",
   "replication-password", "datasync", "stop-other", "mvunit-other"}
  \cup
  {"aof", "describe", "unpack", "my.cnf", "jemalloc", "isolation", "type", "lib", "rmtmp",
   "mysql_upgrade", "mv-server", "new-server", "mv-bin", "new-bin", "mv-lib", "new-lib",
   "mv-share", "new-share"}

(* Every variable stays in its set, and nothing is run after a return. *)
TypeOK ==
  /\ product \in Products
  /\ slot \in SlotState /\ before \in SlotState
  /\ op \in {"idle", "install", "rollback", "uninstall", "bootstrap", "unwind",
            "upgrade", "upconfig"}
  /\ todo \in Seq(Commands) /\ (op = "idle" => todo = <<>>)
  /\ norollback \in BOOLEAN /\ clean \in BOOLEAN
  /\ last \in {"none", "install", "uninstall", "bootstrap", "upgrade", "upconfig"}
  /\ result \in {"none", "refused", "ok", "failed", "undone", "killed"}

Returned(o, r) == Idle /\ last = o /\ result = r

(* An announced instance runs, and runs again after every restart of the      *)
(* machine: the unit is complete, known and enabled ("设置开机自启动").  Not so *)
(* for pg_auto_failover, see BootsAgain.                                      *)
InstalledRuns == Returned("install", "ok") /\ product \notin PgAutoFailover
                   => slot.proc # "none" /\ slot.unit = "ours"

(* The same of pg_auto_failover, whose installation says that it sets up the  *)
(* start at boot ("设置开机启动文件并启动", pgautofailover_install.go:244).     *)
BootsAgain == Returned("install", "ok") => slot.proc # "none"

(* A failed installation whose rollback worked leaves no directory, and, of   *)
(* what else the checks of the next one look at, no process, no unit and no   *)
(* state file of pg_autoctl, wherever in the installation the failure was.    *)
(* Not so two products: the monitor's rollback leaves the state file, with    *)
(* which its next installation is refused, and that of a MariaDB slave that   *)
(* loads data leaves its process and its unit once DataSync has begun.        *)
RollbackFrees == Returned("install", "undone") /\ clean
                   => /\ slot.dir = {}
                      /\ product # "mariadb slave, data" => slot.proc = "none" /\ slot.unit = "none"
                      /\ product # "monitor" => ~slot.auto

(* What was in the directory before is still there, or moved aside, whatever  *)
(* failed; and so is the unit of an instance, except that the products that   *)
(* do not look for one overwrite it.  (drop --destroy is meant to delete.)    *)
PriorKept ==
  /\ "prior" \in before.dir => \/ "prior" \in slot.dir \/ "dir" \in slot.saved
                               \/ product \in PgAutoFailover /\ last = "uninstall"
  /\ before.unit = "prior" /\ "unit" \in Checks(product)
       => slot.unit = "prior" \/ "unit" \in slot.saved

(* The results an operation returns are among those RemoteHost gives the      *)
(* deployments, for every product that is deployed on slots of that kind.     *)
ResultsJustified ==
  [][/\ product \notin Monitoring \cup PgAutoFailover
     /\ Idle' /\ result' \in {"ok", "refused", "failed", "undone"} /\ (op # "idle" \/ before' # before)
     => LET r == [inst |-> Inst(slot'), ok |-> result' = "ok"]
        IN  /\ last' = "install"   => r \in InstallResults(Inst(before'))
            /\ last' = "uninstall" => r \in UNInstallResults(Inst(before'))]_vars

(* A galera node that was announced would not found a second cluster when it  *)
(* is started again: the flag is neither in its unit nor in systemd's copy.   *)
NoSecondBootstrap == Idle /\ result = "ok" => slot.seed = {}
===============================================================================
