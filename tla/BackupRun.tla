------------------------------- MODULE BackupRun -------------------------------
(***************************************************************************)
(* The backups that clean up after themselves: the daily tasks of Redis    *)
(* and PostgreSQL, and the backup of a Redis cluster, kept on disk or in an *)
(* object store.  Each run dumps first and removes what has expired when    *)
(* the dump, and the upload, are there.  Time passes between any two steps; *)
(* runs may overlap, fail anywhere and be killed.                           *)
(***************************************************************************)
EXTENDS Naturals, FiniteSets

CONSTANTS
  Backup,     \* runs, numbered in the order in which they begin
  Shards,     \* masters of the cluster; each gives a file
  Day,        \* ticks of the clock in a day, the first is midnight
  Longest,    \* bound: ticks a run takes, no more than a day
  Until       \* bound: the last tick

ASSUME ClockAssumption == Shards \in Nat \ {0} /\ Day \in Nat \ {0}
                          /\ Longest \in Nat /\ Until \in Nat
ASSUME LongestAssumption == Longest <= Day
ASSUME BackupAssumption == Backup \subseteq Nat /\ IsFiniteSet(Backup)

VARIABLES
  kind,      \* "task"; "local" or "s3": a cluster's backup
  expire,    \* --expire, in days
  now,       \* the clock
  stage,     \* what each run does next
  begun,     \* when it started
  local,     \* its files on disk
  touched,   \* when its directory, or file, was last modified
  object     \* the objects in the store: whose, which shard, since when

backupVars == <<kind, expire, now, stage, begun, local, touched, object>>

Shard == 1..(IF kind = "task" THEN 1 ELSE Shards)
Running(r) == stage[r] \notin {"none", "ok", "err"}
Proceed(r, s) == stage' = [stage EXCEPT ![r] = s]

-------------------------------------------------------------------------------
(* Validator, InitArgs, Mkdir, Masters. *)
BeginBackup(r) ==
  /\ stage[r] = "none" /\ \A q \in Backup : q < r => stage[q] # "none"
  /\ begun' = [begun EXCEPT ![r] = now]
  /\ touched' = [touched EXCEPT ![r] = now]
  /\ Proceed(r, "dump") \/ Proceed(r, "err")
  /\ UNCHANGED <<kind, expire, now, local, object>>

(* Mutant: one step too many. *)
NextShardPastEnd(done) == Cardinality(done) + 2

(* The masters are listed once and dumped one after the other; one that is    *)
(* down, or stopped being there, ends the run.                                *)
NextShard(done) == Cardinality(done) + 1

AfterDump(r) ==
  IF kind = "s3" THEN "upload" ELSE IF kind = "task" \/ expire # 0 THEN "expire" ELSE "ok"

Dump(r) ==
  /\ stage[r] = "dump"
  /\ \/ /\ local' = [local EXCEPT ![r] = @ \cup {NextShard(@)}]
        /\ IF Shard \subseteq local'[r] THEN Proceed(r, AfterDump(r)) ELSE UNCHANGED stage
     \/ UNCHANGED local /\ Proceed(r, "err")
  /\ touched' = [touched EXCEPT ![r] = now]
  /\ UNCHANGED <<kind, expire, now, begun, object>>

(* Mutant: a day too few. *)
ExpireTimeEarly(r) ==
  IF kind = "task" THEN Day * ((now - (expire - 1) * Day) \div Day)
                   ELSE begun[r] - (expire - 1) * Day

(* What a cluster's backup removes is older than its own beginning by more    *)
(* than the given days; a task goes by whole days, counted at the end.        *)
ExpireTime(r) ==
  IF kind = "task" THEN Day * ((now - expire * Day) \div Day)
                   ELSE begun[r] - expire * Day

Expired(r) == {q \in Backup : local[q] # {} /\ touched[q] < ExpireTime(r)}

(* DropExpire, RemoveLocalExpired.  A removal that fails is passed over by a  *)
(* task and ends a cluster's backup.                                          *)
RemoveLocalExpired(r) ==
  /\ stage[r] = "expire" /\ now >= expire * Day
  /\ \E gone \in SUBSET Expired(r) :
       /\ local' = [q \in Backup |-> IF q \in gone THEN {} ELSE local[q]]
       /\ \/ (kind = "task" \/ gone = Expired(r)) /\ Proceed(r, "ok")
          \/ Proceed(r, "err")
  /\ UNCHANGED <<kind, expire, now, begun, touched, object>>

BackupToS3(r) ==
  /\ stage[r] = "upload"
  /\ LET sent == {o.shard : o \in {p \in object : p.of = r}}
     IN  \/ /\ object' = object \cup {[of |-> r, shard |-> NextShard(sent), at |-> now]}
            /\ IF NextShard(sent) = Shards THEN Proceed(r, "removelocal") ELSE UNCHANGED stage
         \/ UNCHANGED object /\ Proceed(r, "err")
  /\ UNCHANGED <<kind, expire, now, begun, local, touched>>

RemoveLocal(r) ==
  /\ stage[r] = "removelocal"
  /\ \/ /\ local' = [local EXCEPT ![r] = {}]
        /\ Proceed(r, IF expire # 0 THEN "expires3" ELSE "ok")
     \/ UNCHANGED local /\ Proceed(r, "err")
  /\ UNCHANGED <<kind, expire, now, begun, touched, object>>

(* One page of the listing, object by object: what is left after an error or  *)
(* beyond the page stays.                                                     *)
RemoveFromS3(r) ==
  /\ stage[r] = "expires3" /\ begun[r] >= expire * Day
  /\ \E gone \in SUBSET {o \in object : o.at < ExpireTime(r)} : object' = object \ gone
  /\ Proceed(r, "ok") \/ Proceed(r, "err")
  /\ UNCHANGED <<kind, expire, now, begun, local, touched>>

(* Nothing is old enough on the first days. *)
NothingToRemove(r) ==
  /\ \/ stage[r] = "expire" /\ now < expire * Day
     \/ stage[r] = "expires3" /\ begun[r] < expire * Day
  /\ Proceed(r, "ok") \/ Proceed(r, "err")
  /\ UNCHANGED <<kind, expire, now, begun, local, touched, object>>

BackupRuns(r) ==
  \/ BeginBackup(r) \/ Dump(r) \/ RemoveLocalExpired(r) \/ NothingToRemove(r)
  \/ BackupToS3(r) \/ RemoveLocal(r) \/ RemoveFromS3(r)

Killed(r) ==
  /\ Running(r) /\ Proceed(r, "err")
  /\ UNCHANGED <<kind, expire, now, begun, local, touched, object>>

(* The clock.  The dump commands have a limit of three days; runs longer than *)
(* their own expiry are left out (Longest).                                   *)
Tick ==
  /\ now < Until /\ \A r \in Backup : Running(r) => now < begun[r] + Longest
  /\ now' = now + 1
  /\ UNCHANGED <<kind, expire, stage, begun, local, touched, object>>

(* A task with --expire=0 removes, after midnight, what it has just made, and *)
(* is left out; for a cluster's backup 0 means never.                         *)
BackupInit ==
  /\ kind \in {"task", "local", "s3"}
  /\ expire \in IF kind = "task" THEN {1} ELSE {0, 1}
  /\ now = 0
  /\ stage = [r \in Backup |-> "none"]
  /\ begun = [r \in Backup |-> 0] /\ touched = [r \in Backup |-> 0]
  /\ local = [r \in Backup |-> {}] /\ object = {}

BackupNext == (\E r \in Backup : BackupRuns(r) \/ Killed(r)) \/ Tick

BackupSpec == BackupInit /\ [][BackupNext]_backupVars

-------------------------------------------------------------------------------
BackupTypeOK ==
  /\ kind \in {"task", "local", "s3"} /\ expire \in Nat /\ now \in Nat
  /\ stage \in [Backup -> {"none", "dump", "expire", "upload", "removelocal",
                           "expires3", "ok", "err"}]
  /\ begun \in [Backup -> Nat] /\ touched \in [Backup -> Nat]
  /\ local \in [Backup -> SUBSET Shard]
  /\ object \in SUBSET [of : Backup, shard : Shard, at : Nat]

Whole(r) == \/ local[r] = Shard
            \/ {o.shard : o \in {p \in object : p.of = r}} = Shard

(* A backup that was reported as made is there, whole, for the days it was    *)
(* asked to be kept, whatever other runs start, fail or are killed while      *)
(* removing; and since the first one was reported there always is a whole     *)
(* one: nothing is removed for a backup that then does not come about.        *)
BackupsKept ==
  /\ \A r \in Backup :
       stage[r] = "ok" /\ (expire = 0 \/ now <= begun[r] + expire * Day) => Whole(r)
  /\ (\E r \in Backup : stage[r] = "ok") => \E r \in Backup : Whole(r)
===============================================================================
