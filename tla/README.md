# DB Starter: a TLA+ development

`dbup` (DB Starter) is a command line program that installs, deploys, removes,
upgrades and backs up redis, MongoDB, MariaDB, PostgreSQL and Prometheus on one
or several Linux machines. It keeps no state of its own: everything it changes
is on the machines, and it changes it one remote command at a time over ssh.
What is hard about it is therefore not concurrency inside the program but what a
command that is one of twenty leaves behind when it fails, when a connection
breaks, when somebody else works on the same machine, or when the operator
presses ctrl-C. That is what the modules here are about.

## 1. Inventory

### The components

| part | code (under `src/internal/`) | state it changes | operations |
|---|---|---|---|
| remote host access | `utils/newssh`, `utils/command` | an ssh connection | `Run`, `Sudo`, `Scp`, `IsExists`, `IsDir`, `IsEmpty`, `MkdirAll` |
| deployment pipeline (the same in every product) | `redis/services/deploy.go`, `redis_cluster.go`, `mongodb/service/cluster.go`, `deploy.go`, `mariadb/service/deploy.go`, `galera.go`, `pgsql/services/*deploy.go` | temporary directory and instances of every machine | `Run`, `RemoveDeploy` / `RemoveCluster` |
| redis replication | `redis/services/deploy.go`, `instance.go` | `SLAVEOF` of every slave | `ReplicaSlave`, `CheckSlaves` |
| redis cluster | `redis_cluster.go`, `redis_cluster_manager.go`, `redis/dao` | membership lists, hash slots | `CreateCluster`, `AddNode`, `RedisClusterFix` |
| node-local installation | `*/service*/install.go`, `uninstall.go`, `upgrade.go` | user, directory, unit file, process | `install`, `install --only-check`, `uninstall`, `upgrade` |
| MongoDB clusters | `mongodb/service/cluster.go`, `deploy.go`, `dao/conn.go` | replica sets, the list of shards | shard by shard, config servers, routers |
| MongoDB join | `mongodb/service/install.go` | replica set configuration | `InitPrimary`, `InitSecondary`, `InitArbiter` |
| MariaDB | `mariadb/service` | replication, galera cluster, unit file | `MS`, `MM`, galera bootstrap and deployment, upgrade |
| PostgreSQL | `pgsql/services` | streaming replication, pg_auto_failover (a monitor and data nodes), pgpool on one machine | deploy, expand, remove, upgrade |
| adding a slave | `redis_manager.go`, `mongodb_manager.go`, `mariadb_manager.go`, `pgmanager.go` | one new instance, joined to a master that runs | add-slave |
| shared files | `pgsql/config/pg_hba.go`, `pgsql/services/pgmanager.go`, `*/backup_task.go`, `register_exporter.go` | `pg_hba.conf`, crontab, target files of prometheus | grant, end trust, add / delete a task, register / deregister |
| backups | `backup_task.go` (redis, pgsql), `redis_cluster_backup.go` | backup directory, object store | run, upload, expire |
| Prometheus | `prometheus/services` | directories, unit files | install prometheus, grafana, exporters |
| command line | `cmd/` | none | flags and calls |

### How they interact

A deployment runs on the operator's machine and calls *itself* on the target
machines. The sequence is the same everywhere:

    Init          one ssh connection per node
    CheckTmpDir   the temporary directory is missing or empty, on every node
    defer DropTmpDir
    Scp           the program, a package and a unit template, to every node
    CheckEnv      "dbup ... install --only-check" on every node
    Install       "dbup ... install" on every node
    (own steps)   replication, cluster creation, status
    UNInstall     "dbup ... uninstall" on every node, if Install or the own steps failed
    DropTmpDir    "cd <tmp>; rm -rf *" on every node

There are no callbacks and no shared memory between the steps; what they share is
the machines, with each other, with other runs of the program and with other
users. Several operators (or the cron daemon) do run the program at once, and then it
meets itself: in a replica set's configuration, in a file that is read, changed and
written back, in a directory of backups that one run fills and another clears. The one goroutine of the program (`newssh/watcher.go`) types the password
into a sudo prompt.

### What is hard, and what makes each component correct

`PROJECT.json` ("hazards") lists every hazard with its line. In short:

- *partial failure*: any command of any node may fail, before or after its
  effect; the rollback is best effort and its errors are only logged.
- *order*: `DropTmpDir` and `UNInstall` are indiscriminate (everything in the
  directory, every slot of the configuration). They are safe only because of what
  ran before them, on **all** nodes.
- *stale checks*: `CheckTmpDir` and `CheckEnv` are answered long before their
  answers are used.
- *success that means less than it says*: a cluster announced with one shard of
  several, a removal that reports success whatever happened.
- *liveness*: no retry may wait for a node that will not answer.
- *cluster state*: hash slots live in one master; taking a member away loses them.
- *read, change, write back*: between the reading and the writing of a configuration
  or a file others do the same; a process may be killed after it has truncated the file.
- *clocks*: what has expired is computed while other backups are under way.

A deployment is correct when success means that every node runs in a slot of its
own and the product's own steps have been done; when a failure whose clean-up
worked leaves no trace; and when nobody else's instance or file is touched in
either case. A removal is correct when it reaches every slot. An installation is
correct when "ok" means that the instance runs and will run again after a restart, and
an error whose rollback worked that neither a directory nor a process or a unit is left
that refuses the next attempt (two products keep something, section 3). A join is correct when a node that was announced
is a member; a grant, a task or a target when what was announced stays and what the
command can read of other people's lines does; a backup when
it is there for as long as it was asked to be kept.

## 2. The modules

    RemoteHost                results of one remote command
      DeployPipeline          the sequence above, one step = one command on one node
        RedisDeploy           redis deploy / remove-deploy
        RedisCluster          redis-cluster deploy / remove / add-node / fix
        MongoDeploy           mongodb deploy / cluster deploy / remove
      Rollout                 the loops of the sequence, for lists of any length
        MariaDBDeploy         mariadb deploy (MS, MM) / remove-deploy
        GaleraDeploy          mariadb galera-deploy
        PgsqlDeploy           pgsql deploy / remove-deploy
        PgAutoFailover        pgsql-mha deploy / expand / remove-deploy
        AddSlave              add-slave of redis, mongodb, mariadb, pgsql
        SqlDeploy             those five on the same machines
      NodeInstall             install / uninstall / galera-start on one machine
        NodeUpgrade           upgrade on one machine
    DeployPromise             abstract: what any deployment promises
    ReplicaSetJoin            founding and joining a replica set, several at once
    ConfigText                edits of pg_hba.conf, crontab, targets, several at once
    BackupRun                 backups and their expiry, several at once
      Maintenance             those three
    DeployPipelineProofs      lemmas about the pipeline
      RedisDeployProofs       theorems about RedisDeploy
      RedisClusterProofs      theorems about RedisCluster
      MongoDeployProofs       theorems about MongoDeploy
    SqlDeployProofs           theorems about SqlDeploy and the modules of its products
    NodeProofs                theorems about NodeInstall and NodeUpgrade
    ConfigTextProofs          theorems about ConfigText
      MaintenanceProofs       theorems about ReplicaSetJoin, BackupRun and the composition
    MC*                       instances for TLC

**RemoteHost** has no state. A machine is reduced to the two places a deployment
touches: the temporary directory (`TmpState`) and a slot, that is a port with its
data directory and unit file (`InstState`). For each remote command it gives the
*set* of results: the new state and whether the caller saw success. `Scp` may
fail before or after the directory was made. `install` checks again, then works;
a failed one rolls itself back and may leave files, or an `orphan` (the unit file
is deleted even when `systemctl stop` failed, `redis/services/install.go:435-440`),
or, when the error came after the start and the rollback could do nothing, the
running instance. `uninstall` stops at its first error.

**DeployPipeline** is `Run` and `RemoveDeploy`. `phase` is the loop that is
executing, `cursor` the node it is at, `result` what will be returned, `at` the
slots of the configuration, `keep` the no-rollback option where the product reads
it. `CheckTmpDirElse`, `ScpElse` and `UNInstallThen` take the phase an error leads
to, because the products differ there. Four actions are not the program's:
`Interrupt` (no deferred call runs), `LoseConnection`, `OtherInstalls` and `OtherFills`.
A connection has two channels, which are lost together or one without the other: on the
ssh client every later command fails, on the sftp channel every copy does, and `IsExists`
answers "no", so that `CheckTmpDir` passes (`NoShell`, `NoSftp`). History variables: `before` (the machines when the run began),
`blemish` (a clean-up command did not do its work), `others`, `runs`.

**RedisDeploy** adds `link`, the replication of each slot: `ReplicaSlave`
(`SLAVEOF`, `CONFIG REWRITE`) and `CheckSlaves`, which looks once, five seconds
later. All nodes have the same port and directory, so a slot is a machine.

**RedisCluster** adds the cluster (`view`: whom each member lists; `owner`: who
holds each hash slot) and the manager. `AddNode` is the same pipeline for one
node and shares the machines with the deployments, so it is an `INSTANCE` of
DeployPipeline with control variables of its own (`mphase`, `mresult`, ...).
redis-cli's `create`, `add-node`, `rebalance` and `fix` are external: each is given
every partial effect it can have before its error, `fix` any part of the hash slots it is
to give away. Whom a member shows as failing or disconnected is its own affair: the loop of
`RedisClusterFix` asks each member in turn and makes it forget those (`Forgets`), which may
leave out some that are down and take in some that serve. Meanwhile members go on telling
each other whom they list (`Gossip`); a member does not take back whom it was made to
forget for a minute (`banned`), which may be over before the fix is (`BanEnds`).

**MongoDeploy** runs the pipeline once for each group of a sharded cluster, in the
order of `plan`: shards, config servers, routers; a removal goes the other way. A
plain replica set is a plan of one group, because its steps are those of the config
servers. The shards differ: `MongoShardInit` has no `defer`, so an error of
`CheckTmpDir` drops the directories, and an error of `Scp` or of the installation
does not. `named` is FALSE when the temporary directory's name is empty. There is one
action per function of the source, since the groups' functions differ in small ways;
with a key file the connections read options that were never loaded and fail.

**NodeInstall** opens up the one remote command: `install` and `uninstall` as they
run on the target machine (or at its console), for twenty-two products:
the databases and their slaves, pgpool, the
monitor and data nodes of pg_auto_failover, prometheus, grafana and the exporters. `todo` is the
list of commands the running operation has still to execute (`RedisInstall`,
`PgslaveInstall`, ... give them in the order of the code), `Done` what each does to
the machine and `Failed` what it may have done when it returns an error. `slot` is the machine: the directory and
whose files are in it, the unit file, systemd's own copy of it, whether it is
enabled, the process, pg_autoctl's state files, the galera bootstrap flag on disk
and in systemd. Steps that touch none of these (user, libraries, resource limit)
are kept as commands that can fail. The products differ in what they check first
(`Checks`), in how they roll back (`RollbackSteps`: delete, or uninstall) and in
which errors they ignore. A MariaDB slave that loads its master's data is a product of its
own: once `DataSync` has set the port to the master's, the rollback stops and moves the unit
of that port (`DataSyncRollback`). `Kill` (no rollback runs) and `Reboot` (systemd starts what is
enabled) may come at any point. `ResultsJustified` ties the module to the deployment models: every
result an operation has here is one that `InstallResults` / `UNInstallResults` of
RemoteHost offer, so no outcome of a remote command was forgotten there.

**NodeUpgrade** extends the machine with the program's directories (`part`), what
was moved aside (`kept`), what was deleted on request (`deleted`) and, for MariaDB,
the new directories not yet moved (`fresh`) and the temporary directory they come
from. redis and PostgreSQL exchange one directory; MariaDB exchanges six, of which
three are modelled (a first, a middle and a last). `op = "upconfig"` is what
MariaDB does when `bin` says the version is new enough.

**Rollout** is the sequence again for the products whose lists vary: a file names
nodes, new nodes (`fresh`), a master to join (`from`) and whether ssh uses a key. `todo`
holds the nodes the current loop has still to visit. Its operators are the loops' bodies;
each product's module says which loop follows which, in which order it visits the
nodes, and where an error leads. **MariaDBDeploy** adds `MMChangeSlave`, which connects
with the password even where a key file is used, and the checks of the replication;
**GaleraDeploy** asks nobody how many members there are in the end; **PgsqlDeploy** unpacks the slaves first and copies the
master's data to them after; **PgAutoFailover** goes through the monitor, the master
and the slaves in one order and undoes them in another, and in an expansion forgets the
first of the new nodes (`newpgnodes[1:]`); **AddSlave** is one installation on one
machine joined to a master, and for MariaDB the dump that is loaded into the slot
`Target`. **SqlDeploy** takes them together on the same machines: a run is of one
file, the next may be of another product.

**ReplicaSetJoin** opens up the one command "join" of a MongoDB installation. Machines
found a set (`ReplSetInitiate`, then a reconfiguration that gives the founder its
address) or join it: look up the primary, install, read the configuration there, add a
member with the next `_id`, write it back with version + 1, poll the status. Any
number of them at once; the primary may step down, an instance stop and come back,
the answer to a written configuration get lost, an installation fail after its member
is in (a ghost member), and a founder that failed be deleted and found anew. mongod is
external: `Acceptable` is what it accepts.

**ConfigText** is a file and the processes that edit it: each reads it, changes the
copy, truncates the file and writes. `place` says which of four files it is, since
each has its own commands (`GrantLoad`, `SaveTo`, `CheckDuplicate`, `AppendGrant`,
`Changetrust`; `LinuxAdd`, `LinuxDel`; `Run`, `RunDeregister`, `Post`). `active` is what
the server that reads the file works with. `theirs` are the lines of others in it, told
apart by what the code makes of them: an ordinary one, a comment, an entry of more than five
columns, one of fewer. A grant reads the whole of pg_hba.conf and writes it back, and what
it reads is not all there is (`Loaded`): comments are skipped, of a longer entry five
columns are taken, and at a shorter one it panics. The other commands keep every line.
`clobbered` records that one of these has happened, which nothing in the code prevents: an
edit written over another, a death between truncating and writing, a reload in between, a
reload of prometheus that fails.

**BackupRun** is a set of runs with a clock. Each dumps shard by shard, uploads, and
removes what is older than `ExpireTime`, which a task counts by whole days at its end
and a cluster's backup from its beginning.

**Maintenance** composes the three. They share no state, so a behaviour is about one
of them (`area`) and the other two stay where they begin.

**DeployPromise** is what every product's deployment should implement: busy from
`Start` to `Finish`, it changes only slots of its configuration, in a deployment
only those that were free when it began, and says "ok" to a deployment only when an
instance runs in each. `RedisDeploy` implements it (`PromiseKept`), and so do the five of
`SqlDeploy`, with the list of nodes padded to one length; both by TLC and by proof.

## 3. The runs

| run | question | bounds | distinct states |
|---|---|---|---|
| `redis_deploy` | what success, failure and removal of a redis deployment mean; the promise; termination | 3 nodes, 3 machines or the master named again as a slave; any one machine in any initial state; 1 run, 1 broken connection or channel, 1 interference | 1,081,216 |
| `redis_home` | is only the temporary directory emptied? (violated) | as above | until found |
| `redis_cluster` | what the success of deploy, add-node and fix says of the cluster | 3 places on 2 machines, 2 masters, 2 hash slots (symmetric) | 1,557,589 |
| `redis_addnode` | does no-rollback keep the data? (violated) | as above | until found |
| `mongo_deploy` | what one failing group does to the others; success; termination | 2 shards, config servers and routers, 3 nodes each, 13 slots; two files, one giving both shards the same places; 18 initial states; 1 broken connection or channel | 383,124 |
| `mongo_shards` | is every shard in the cluster that is announced? (violated) | as above | until found |
| `mongo_remove_home` | does a removal in which nothing fails leave the home directories alone? (violated) | as above | until found |
| `node` | what an installation, removal, galera-start or upgrade leaves on its machine, whatever failed and whenever it was killed | 22 products, one slot each, any number of runs, restarts and kills | 24,444 |
| `node_boots` | is pg_auto_failover started at boot? (violated) | monitor and data node | until found |
| `sql_deploy` | what success and failure of the SQL products' deployments and of add-slave mean; the promise; termination | 13 files on 4 machines with 2 ports; any one directory or slot in any initial state, or a file's nodes running; 1 run, 1 broken connection or channel, or 1 interference | 260,831 |
| `sql_datasync` | does the master's dump go to the new slave? (violated) | a new MariaDB slave on another port than its master | until found |
| `maintenance` | whether joins, edits and backups that run at the same time keep what they report | 3 machines, 4 installations, 1 stop; 2 processes, 2 names of which one contains the other, 3 edits; 2 runs, 2 shards, 6 ticks of half a day | 467,491 |

Why the bounds are enough. The loops treat the nodes after the first alike, so
three nodes give a first, a middle and a last one; "the same machine twice" needs
two of them on one. One run is enough where the properties relate a run to the
state it began in and that state is already arbitrary; the redis cluster runs have
several because its commands build on each other. (Its configuration has a `VIEW`: what a
run leaves behind in variables that the next one sets before it reads them is not told
apart.) One broken connection, or one of its channels, and one
interference can fall at any step; a second adds nothing that a failing command
does not. In `mongo_deploy` one place at a time is out of the ordinary, and the
cluster to remove has instances on one machine only: instances on all would square
the number of outcomes without a new interaction, the routers and groups being
taken apart one after the other. The configuration file's `Validator` fixes three
nodes per shard and for the config servers; the routers are three too here (the
code says one or more), two of them on one machine.

In `sql_deploy` the lists have one slave where loops only repeat and two where they
could tell the first from the rest; "MM" has two masters in the code. The files are those in
which the code takes a way of its own: a host named twice, a key file in MM and in an
expansion, a monitor on a data node's machine, an expansion by two (the code drops the
first, so one would be none). In `maintenance` two readers of the same configuration
suffice for a lost update, and a third actor is there as the founder, the server or the
clock; the theorems are for any number.

The `node` run needs no bound on the number of operations: the state of a machine is
finite. Products do not interact, so each behaviour has one; two operations at once
on one slot are excluded there and are in the deployment models (`OtherInstalls`).

What the passing runs show, and how each property is broken by a plausible bug, is
stated at each property in its module; `PROJECT.json` names a mutant for each.

The six violated runs are disagreements between the code and its own words:

- `redis_home`: `DropTmpDir` is `cd <tmp>; rm -rf *`. When `Scp` fails on one node
  the later nodes have no such directory yet, `cd` fails and `rm` empties the ssh
  user's home directory. Its log line says it deletes the temporary directory.
  A run that *succeeds* never does this (`SuccessSparesHome`, proved).
- `redis_addnode`: `add-master --no-rollback` rolls back all the same. When the
  rebalance fails half way, the hash slots that were moved go with the node.
- `mongo_shards`: `MSInstallandInit` returns success when any one shard was added,
  and prints that all nodes of the cluster were set up.
- `mongo_remove_home`: `RemoveCluster` gives the defaults to the wrong options; a file
  without `tmp-dir` makes every clean-up command `cd ; rm -rf *`.
- `node_boots`: `SystemdInit` of pg_auto_failover says that it sets up the start at boot
  and never calls `systemctl enable`; after the first restart of the machine the
  monitor or data node is down. `InstalledRuns` states the same of the other
  products, where it holds.
- `sql_datasync`: `DataSync` sets the new slave's own port to the master's before it builds
  the command that loads the dump. On another port than its master's the new slave stays empty, and
  the dump goes into whatever instance listens on the master's port there.

What NodeInstall and NodeUpgrade show beyond their properties, where no line of the
repository speaks against it:

- A MariaDB upgrade that was killed between two directories leaves a mixture. A
  restart of the machine starts it; a second upgrade reads the version from `bin`
  alone, takes the instance for a new one, edits its configuration and reports
  success. `NoMixedStart` therefore speaks of the exchange only.
- With `--nobak`, a MariaDB upgrade that fails has deleted directories of the old program and
  removes the new ones with the temporary directory.
- The rollback of a data node gives up when `pg_autoctl drop node` fails, which it does
  whenever the installation failed before `create`; the directory stays and the next
  installation is refused. The monitor's rollback leaves pg_autoctl's state files,
  with the same effect. `RollbackFrees` is about rollbacks whose commands worked, and
  excepts the monitor's state files.
- The rollback of a MariaDB slave that has begun to load its master's data stops and moves
  aside what has the master's port on the slave's machine. Its own process runs on and its own
  unit stays while its directory is moved away; `RollbackFrees` excepts it.
- A galera-start that is killed leaves the bootstrap flag in the unit file.
- A failed upgrade leaves the instance stopped, and the next one is refused because
  it is; the old program is there under `.bak.<time>` (`OldProgramKept`).

What the deployments of SqlDeploy show besides:

- In MM with a key file `MMChangeSlave` cannot log in; the run fails after both masters
  were installed and is rolled back.
- `ClusterModeCheck` accepts every part of "MMS"; with the modes "M", "S" and "MMS"
  `Install` does nothing and success is reported. The files of the model have the
  two modes that install something.
- A removal of pg_auto_failover with a file that names new nodes dies of a nil
  pointer when the data nodes are gone; the monitor stays.
- An expansion leaves the first new node out of every list: a file with one new node
  adds none. It goes through the master and the slaves again as well, and as those run
  already its checks refuse them; only the new nodes are rolled back.
- add-slave has no rollback of its own: what a failed one leaves is what `install` on
  the new machine leaves.

What Maintenance shows besides:

- A member whose installation failed after its reconfiguration stays in the set's
  configuration (ghost member); the next installation on that machine is refused by
  mongod because the host would appear twice.
- A grant in pg_hba.conf takes the comments out of the file and cuts every entry after its
  fifth column: of an address with a separate mask the method, of a method its options. When
  the server cannot read what is left of such an entry it goes on with the old lines, and the
  grant is reported all the same. So `RecordsKept` keeps of others what is left in `Kept`,
  and speaks of the server only where no entry was too long. An entry of fewer columns, as
  where blanks separate them, ends the command in a panic before it writes.
- Two edits at once can lose one, and a kill while writing empties the crontab or
  pg_hba.conf; these are the exceptions `clobbered` records.
- Deregistering a target when prometheus does not answer removes the file; the next
  deregistration says there is nothing to remove while prometheus still asks the target.
- Deleting a task deletes every task whose name contains its name.
- A task with `--expire=0` that ends after midnight removes the backup it has just made.
- A prometheus whose grafana fails to install stays, and a second installation is refused.

One more thing the model shows that no line of the code speaks against:
`MongoShardInit` calls `DropTmpDir` after a *failed* `CheckTmpDir`, and so deletes the
very files the check refused. `ForeignFilesKept` holds of redis and would not
hold of MongoDB's shards; `SuccessSparesHomes` is the part that does. And redis deletes
somebody's files in one case: when the sftp channels of all nodes on a machine are gone,
`CheckTmpDir` takes the error for "not there", `Scp` fails, and the deferred `rm -rf *` still
has its shell. `ForeignFilesKept` says that there is no other.

What removals leave: `RemovalIsComplete` and `RemovalReachesAllGroups` are about removals
whose commands worked. `RemoveDeploy` ignores an error of `UNInstall`, so that a removal in
which one failed reports success too; a router that fails ends its loop and the routers after
it stay. An upgrade of MariaDB that was killed leaves `mariadb_tmp_dir`, and the next one is
refused until somebody removes it.

## 4. Fairness

The only assumption is `WF_vars(Program)`: a remote command, a poll or a timer
returns in the end, with an answer or with an error. The code justifies it in that
every loop is a `for` over a list or a counted retry (`i <= 20`) and there is no
other thread to wait for; it does *not* put a time limit on an ssh command, so a
machine that neither answers nor resets the connection can hold up a run for ever.
That case is outside the model. `mongo_deploy`, `redis_deploy` and `sql_deploy` check termination under it. The `node` and
`maintenance` runs assume no fairness: their properties are safety
properties, and a killed program simply stops. Nothing is assumed of the environment: replication
links need not come up, connections may or may not break. Deadlock checking is off
because a finished run is a legitimate end.

## 5. What is proved

`RedisDeployProofs`, for every `N >= 2`, any machines, slots and layouts, any number
of runs, broken connections and interferences:

| theorem | says |
|---|---|
| `TypeCorrect` | `[]TypeOK` |
| `PriorSafe` | an instance that was there is not touched, not even by a rollback |
| `ForeignSafe` | somebody's files in the temporary directory survive, but where every node on the machine has lost its sftp channel |
| `SuccessCorrect` | success means an instance in a slot of its own for every node, and every slave pointed at the master |
| `HomeSafe` | a run that succeeds leaves every home directory alone |
| `FailureClean` | a failed deployment whose clean-up worked leaves no trace |
| `RemovalComplete` | a removal whose commands worked leaves no instance |
| `Implementation` | the deployment implements `DeployPromise` |

All follow from one inductive invariant `IInv` (theorem `Invariance`), a conjunction of
named parts, none of which is inductive without the types:

- for `PriorSafe`: until `CheckEnv` has passed on a node, nothing was installed; in the
  phases after it every slot of the configuration was free when the run began. So the
  slots `Install` and `UNInstall` touch were never a prior instance's.
- for `ForeignSafe`: a machine with somebody's files passes `CheckTmpDir` only through nodes
  whose sftp channel is gone, and what is gone stays gone; so after the check each node on it
  has lost its channel, no copy is made there, and an empty directory can only be what
  `DropTmpDir` left of it (`Emptied`).
- for `SuccessCorrect`: nodes before the cursor are up in distinct slots during
  `Install`, all nodes after it, as long as `result` is "none"; slaves before the cursor
  are linked during "post".
- for `HomeSafe`: while `result` is "none", after `Scp` every machine of the
  configuration has a directory (`DropTmpDir` empties it but leaves it), and `home` is
  as it was.
- for `FailureClean`: as long as every clean-up command worked and nobody else is about, a slot
  that is not as it was found belongs to a node the rollback has still to visit, and no
  process in it has lost its unit (a removal would not find it).
- for `RemovalComplete`: the slots of the nodes before the cursor are empty.

`DeployPipelineProofs` has a lemma for each part about the pipeline's own actions, so that
another product's module needs only its own actions. Assumptions used: `NAssumption`,
`PlacesAssumption`, `SlavesAssumption`.

`MaintenanceProofs`, for any number of machines, processes, names, runs and shards:

| theorem | says |
|---|---|
| `PartsInComposition` | a behaviour of Maintenance is one of each of its parts |
| `JoinsAlwaysMembers` | `[]JoinsAreMembers` |
| `RecordsAlwaysKept` | `[]RecordsKept` |
| `BackupsAlwaysKept` | `[]BackupsKept` |
| `MaintTypeCorrect` | `[]MaintTypeOK` |

Each rests on an inductive invariant of its part:

- `JInv` (theorem `JoinInvariance`). That a node which has been
  accepted is not taken out by a join that read the configuration before it, needs two
  facts about what was *read*: it is of an earlier set, or of an earlier version, or it is the
  present configuration (`SeenBefore`). mongod takes a configuration of the present set
  with a higher version only, so one built from an old reading is refused. That the
  new `_id` is new needs the `_id`s to be `0..k` without gaps (`Listed`), because
  `InitSecondary` computes a maximum in a loop; with that no induction over the
  members is needed (`NextId`). Assumptions: `JoinersAssumption`, `NamesAssumption`.
- `IInv` of `ConfigTextProofs` (theorem `TextInvariance`). The property speaks of the file;
  what makes it inductive is the copies: a process about to write, whose file nobody
  changed since it read it and beside whom nobody is writing, has in memory all lines
  that must be kept, but those it is to delete (`InMemory`). What must be kept (`Must`) has nothing
  a grant takes away, so what it reads is enough (`MustNames`). `Alone` is needed because a second
  process may truncate the file in between without anything being lost in the end. That the
  server takes what is written needs that nothing was cut (`Uncut`).
  Assumptions: `MatchesAssumption`, `LinesAssumption`.
- `BInv` (theorem `BackupInvariance`). A run removes what was
  last touched before `ExpireTime`, and nothing begun in the last day is that old
  (`Young`; for a task, because rounding down to midnight only makes it earlier). So runs under
  way, which are not longer than a day (`LongestAssumption`), and recent ones are safe
  (`Aged`), and a run keeps all of its files in one place until it ends (`HasAll`).
  The files it has are `1..k` (`Counted`), so that the next one is new.

`RedisClusterProofs`, for every number of nodes, masters and hash slots, any machines and
any number of commands:

| theorem | says |
|---|---|
| `TypeCorrect` | `[]TypeOK`, with the fact that only running instances list members or hold hash slots |
| `RunningSafe` | `[]RunningInstancesSurvive`, for deployments and for add-node |
| `DeployedServes` | a deployment that succeeds has built the whole cluster |
| `AddedServes` | an added node is a member, and an added master holds hash slots |
| `FixCorrect` | a fix that succeeds has left no dead member in the list of one it visited, whatever these told each other, but those excused, and every hash slot has a running holder |

The deployment's part of the invariant (theorem `Invariance`) is the pipeline's. add-node runs
the same pipeline for one node, with control variables of its own: `NewSteps` reads its steps off
the instance `M`, and `AddPriorInv` is `PriorInv` once more, about the one new place. Only one
command runs at a time (`ExclInv`). What has to be shown of the cluster is that nothing takes back
what a command has reached before it returns: gossip between members that list the same members
changes nothing (`ServesPreserved`), elsewhere it only adds (`StaysJoined`). In `FixInv` every
member the loop has visited lists of the dead only those it was excused for, and bans the
others (`Rid`): so gossip with a member that still lists a dead one does not bring it back, and
when a ban ends its subject is excused. The members that were down when the fix began are among
those that are down now, so when the two sets are equal nobody has died since. Assumptions used: those of the pipeline, `MastersAssumption`,
`HashSlotAssumption`.

`MongoDeployProofs`, for any number of groups, nodes and clusters, any places of the nodes
(groups may share them), and any order in `plan`:

| theorem | says |
|---|---|
| `TypeCorrect` | `[]TypeOK` |
| `PriorSafe` | `[]PriorInstancesKept` |
| `CompletedSafe` | the rollback of one group reaches into no completed group |
| `SuccessCorrect` | `[]SuccessMeansCluster` |
| `FailureClean` | what a failed deployment leaves are the completed groups |
| `RemovalComplete` | a removal goes through all groups |
| `HomeSafe` | a deployment that succeeds leaves the home directories alone |

The pipeline's lemmas serve again. New in the inductive invariant (theorem `Invariance`) is that
groups may share slots: the nodes of the present group that have passed `CheckEnv` lie outside
the completed groups (`Apart`), because every slot of a completed group is up and `CheckEnv`
refuses it. That gives `CompletedSafe` as well as the distinctness of all slots on success. A
failure or a removal is then about the present group, the completed ones apart (`NewFrom`,
`GoneBefore`). `NamedHomeInv` has as its hypothesis that the temporary directory has a name.

`NodeProofs`, for every set of products (`ProductsAssumption`, `UpgradableAssumption`), any
number of operations, kills and restarts of the machine:

| theorem | says |
|---|---|
| `NodeTypeCorrect` | `[]NodeTypeOK` |
| `InstalledKeepsRunning` | `[]InstalledRuns` |
| `RollbackLeavesFree` | `[]RollbackFrees`: no directory, and, but for two products, no process, unit or state file |
| `PriorStaysKept` | `[]PriorKept` |
| `BootstrapsOnce` | `[]NoSecondBootstrap` |
| `OldProgramStaysKept` | `[]OldProgramKept` |
| `ResultsAreJustified` | every result is one that `RemoteHost` offers the deployments |
| `NeverMixed` | an upgrade starts no mixture of old and new directories |
| `UpgradeComplete` | an announced upgrade runs on the new program |

What has been done is what is no longer in `todo`. So the invariant (`NodeInv`, theorem
`NodeInvariance`) says for each operation which commands are still in the list or have had
their effect ("`start` is to come, or there is a process"), and in which order they come
("`unit` before `start`", "`stop` before `mvunit`", "`unseed` before the last `reload`"). It holds
when an operation begins because of the lists themselves, of which there is one lemma each;
it is kept because running a command takes it off the head of the list (`TailHas`,
`TailBefore`). `UninstallInv` tells an orphan from the rest: a process without a unit is not
stopped. `SeedInv` is about the two copies of the galera flag, the file's and systemd's.
`ResultsAreJustified` links the two levels of the model for every product: what the deployments
assume of a remote command (`RemoteHost`) is what the command, step by step, can do.

`SqlDeployProofs`, for any files, machines and ports, lists of any length, any number of
runs, broken connections and others about:

| theorem | says |
|---|---|
| `SqlTyped` | `[]SqlTypeOK` |
| `Success` | `[]SuccessMeansReplicating` |
| `NoTraceLeft` | `[]FailureLeavesNoTrace` |
| `Implementation` | `PromiseKept`, if a new slave of MariaDB has its master's port (`SamePort`) |

There are five products with loops of their own, but few kinds of steps: each product's
actions are first shown to be of the kinds `Connecting`, `Checking`, ..., `Undoing`
(`ProgramKinds`, from one lemma per product), and from there on no proof looks into a
product's module. The lists differ as well (pg_auto_failover's are put together from four,
and an expansion's leave nodes out); what is needed of them is in `VisitedList` and `RunLists`:
which nodes they contain, and that the rollback visits no other than the run did. A loop
is somewhere in its list when `todo` is a tail of it (`TailOf`), and the nodes it has done are those
the tail has lost (`Gone`).

The inductive invariant `Safe` (theorem `Safety`) has these parts:

- `Where`: the types, which phases a product has, what `result` may be in each, and which list
  `todo` is a tail of.
- `InstalledInv`, for `Success`: the nodes a loop has done are installed, each in a slot of its own
  because a slot that is taken is refused; of PostgreSQL unpacked at first and then started
  one by one. A replication, once set, is only taken back with the instance.
- `ExpansionInv`: an expansion goes through its own master, which runs, so `CheckEnv` refuses it:
  it never installs anything and never says "ok". `Success` is about the others.
- `PriorInv`, for `Implementation`: what is free now was free when the run began, until it installs;
  from then on every node of the file was.
- `TraceInv`, for `NoTraceLeft`: a slot that is not as it was found belongs to a node of the file,
  and during the rollback to one it has still to visit, and no process in it has lost its unit.

`SamePort` is a hypothesis and not an assumption because it need not hold: the run `sql_datasync`
shows that with another port a dump is loaded into, and the undoing deletes, a slot that is
not the new slave's. Assumptions: `FilesAssumption`, `MaxNodesAssumption` (the padding is long
enough) and `KindsAssumption`. The latter says that a MariaDB file has one of the two modes `Install`
knows (the validator also passes "M", "S" and "MMS", with which nothing is installed; section 3).

Writing these proofs found two places where arms of a `CASE` overlapped. TLA+ leaves open
which arm is taken, TLC takes the first; `Done` and `NextFresh` now say which.

Only model-checked: liveness (`RunEnds` and the like; the proof system has no liveness rules
in reach). The runs that expect a violation have no theorem, of course.

## 6. What is not modelled, and why

*Not part of the program.* Code that nothing calls: PostgreSQL's MHA with repmgr
(`pgsql_mha_deploy.go`, `repmgr_install.go`, most of `pgsql/services/instance.go`'s repmgr
functions; `NewPGSqlMHADeploy` is never called, the flags are commented out in
`cmd/pgsql.go:234`), the deployment of pgpool (its commands are commented out,
`cmd/pgsql.go:45-53`), `MongosInitverify`, `installConsul` and `installNodeExporter` of
prometheus, `CheckSlaveStatus`, `Galeralibcheck`.

*Out of reach or without a protocol.*

- *redis-cli's own rules* (at least three masters): the instance uses two.
- *`CheckDuplicate`* of redis clusters: `SetDefault` ranges over copies, so two nodes
  without `dir` on one machine are refused. A restriction, not a state change.
- *Configuration epochs* of redis clusters, by which members decide between two claims to a hash
  slot: `owner` is what they agree on in the end.
- *The text of lines*: every file ends with a newline and no line is longer than the scanner's
  64 KB; lines of others contain neither a name that is added nor the word "trust", which
  `Changetrust` replaces in their lines too.
- *A failover between the list of masters and a dump*: the model does not tell the contents
  of two dumps apart. *A task with `--expire=0`*, see section 3.
- *Users and databases* of PostgreSQL and MariaDB, and backups by hand of MariaDB,
  MongoDB and PostgreSQL: one statement or one command without state of the program.
- *Tasks on Windows*: one `schtasks` call each.
- *The checks of arguments* before the first change, where they only refuse.
- *The confirmation prompt*: time between checks and commands in which others may
  act; see the hazards.
- *The password watcher*: bytes of a terminal.
- *Logging, formats, package checksums, unit and configuration templates*: input and
  output without a protocol. They are most of what the map does not cover: it covers a
  third of the lines.

## 7. Plan

Done: the pipeline and the deployments of every product, installation and upgrade on a
machine, joins, shared files and backups, and a theorem for every safety property the runs
check. What is left, in this order; where marked *, theorems:

1. A failover during a backup, for which the contents of two dumps have to be told apart.
2. `ResultsAreJustified`* lifted to a refinement: the deployments with `NodeInstall` in the place of
   the results `RemoteHost` offers.
3. `DeployPromise`* for MongoDB's groups: each group keeps it, the whole deployment does not (the
   completed groups stay).
