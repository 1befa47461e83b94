------------------------------ MODULE NodeUpgrade ------------------------------
(***************************************************************************)
(* "upgrade" of a redis, PostgreSQL or MariaDB instance: stop it, exchange *)
(* the directories of its program, start it again.  There is no rollback.  *)
(* The machine, the commands and the ways a run ends are those of          *)
(* NodeInstall; a machine is either installed on or upgraded, see mode.    *)
(***************************************************************************)
EXTENDS NodeInstall

CONSTANT Upgradable       \* the products whose upgrade is looked at
ASSUME UpgradableAssumption == Upgradable \subseteq Products \cap {"redis", "pgsql", "mariadb"}

VARIABLES
  mode,        \* "install" or "upgrade": which of the two happens here
  part,        \* the directories of the program: "old", "new", "none" or "broken"
  kept,        \* the old directories moved aside as .bak.<time>
  deleted,     \* the old directories deleted, as the operator asked with --nobak
  fresh,       \* the new directories that are still where they were unpacked
  tmpdir,      \* the temporary directory of a MariaDB upgrade exists
  nobak,       \* the --nobak option of a MariaDB upgrade
  unpacks      \* the new version comes from the package, not from the operator

upvars  == <<part, kept, deleted, fresh, tmpdir, nobak, unpacks>>
allvars == <<vars, mode, upvars>>

(* MariaDB has six directories, which are exchanged one after the other; three *)
(* of them are enough for a first, a middle and a last one.                   *)
Part(p) == IF p = "mariadb" THEN {"bin", "lib", "share"} ELSE {"server"}
Aside == [server |-> "mv-server", bin |-> "mv-bin", lib |-> "mv-lib", share |-> "mv-share"]
Take  == [server |-> "new-server", bin |-> "new-bin", lib |-> "new-lib", share |-> "new-share"]
PartOf(c, f) == {p \in Part(product) : f[p] = c}

-------------------------------------------------------------------------------
RedisUpgrade == <<"aof", "stop", "mv-server", "new-server", "chown", "describe", "reload",
                  "start">>
PgsqlUpgradeNoStart == <<"stop", "mv-server", "new-server", "ldd", "chown">>   \* mutant
PgsqlUpgrade == <<"stop", "mv-server", "new-server", "ldd", "chown", "start">>
ConfigEdits == <<"my.cnf", "jemalloc", "isolation">>
(* Mutant: one directory is missing in the list. *)
MariaDBUpgradeShort == <<"unpack", "stop", "mv-bin", "new-bin", "mv-lib", "new-lib">>
   \o ConfigEdits \o <<"type", "chown", "reload", "start", "describe", "reload", "mysql_upgrade",
                       "rmtmp">>
MariaDBUpgrade == <<"unpack", "stop", "mv-bin", "new-bin", "mv-lib", "new-lib", "mv-share",
                    "new-share">>
   \o ConfigEdits \o <<"type", "chown", "reload", "start", "describe", "reload", "mysql_upgrade",
                       "rmtmp">>
(* MariaDB is new enough: only its configuration is brought up to date. *)
MariaDBUPConfig == <<"unpack", "stop", "lib">> \o ConfigEdits
                     \o <<"reload", "chown", "start", "rmtmp">>

MainPart == IF product = "mariadb" THEN "bin" ELSE "server"
UpgradeSteps == CASE product = "redis" -> RedisUpgrade
                  [] product = "pgsql" -> PgsqlUpgrade
                  [] product = "mariadb" -> MariaDBUpgrade
(* Whether a MariaDB is new enough is told by its bin directory alone. *)
NewEnough == product = "mariadb" /\ part["bin"] = "new"
(* The validation: the instance answers, every directory is there and the     *)
(* version of the program can be read and is an old one; for MariaDB the      *)
(* newest will do.                                                            *)
CanUpgrade == /\ slot.proc # "none" /\ slot.unit # "none"
              /\ \A p \in Part(product) : part[p] # "none"
              /\ part[MainPart] \in IF product = "mariadb" THEN {"old", "new"} ELSE {"old"}

(* Which of the directories P, taken out of the way, are moved aside; with    *)
(* --nobak they are deleted.                                                  *)
MovedAsideNever(P) == {}      \* mutant
MovedAside(P) == IF nobak THEN {} ELSE {p \in P : part[p] = "old"}

(* A command of an upgrade: when it can work, and what it does.  The new      *)
(* server of redis is copied and that of PostgreSQL unpacked in place, the    *)
(* directories of MariaDB are moved.                                          *)
Runnable == part[MainPart] \in {"old", "new"}
UpPossible(c) == /\ Possible(c, slot)
                 /\ c = "start" => Runnable
                 /\ c = "unpack" /\ unpacks => ~tmpdir
                 /\ product = "mariadb" => PartOf(c, Take) \subseteq fresh
Exchange(c) ==
  LET out == PartOf(c, Aside)
  IN  /\ part' = [p \in DOMAIN part |-> IF p \in out THEN "none"
                                        ELSE IF c = Take[p] THEN "new" ELSE part[p]]
      /\ kept' = kept \cup MovedAside(out)
      /\ deleted' = deleted \cup (IF nobak THEN out ELSE {})
Half(c) ==
  LET torn == PartOf(c, Take) \cup (IF nobak THEN PartOf(c, Aside) ELSE {})
  IN  /\ part' \in {part, [p \in DOMAIN part |-> IF p \in torn THEN "broken" ELSE part[p]]}
      /\ deleted' = deleted \cup (IF nobak THEN PartOf(c, Aside) ELSE {})
      /\ UNCHANGED kept
NextFreshLeft(c) == IF c = "unpack" /\ unpacks THEN Part(product)    \* mutant: never removed
                    ELSE IF product = "mariadb" THEN fresh \ PartOf(c, Take) ELSE fresh
NextFresh(c) == CASE c = "unpack" /\ unpacks -> Part(product)
                  [] c = "rmtmp" /\ unpacks -> {}
                  [] OTHER -> IF product = "mariadb" THEN fresh \ PartOf(c, Take) ELSE fresh

-------------------------------------------------------------------------------
UpInit == /\ product \in Upgradable
          /\ slot = Instance(product, {"dir", "prior"}, TRUE) /\ before = slot
          /\ op = "idle" /\ todo = <<>> /\ norollback = TRUE
          /\ last = "none" /\ result = "none" /\ clean = TRUE

BeginUpgrade ==
  /\ CanUpgrade
  /\ IF NewEnough THEN Begin("upconfig", MariaDBUPConfig) ELSE Begin("upgrade", UpgradeSteps)
  /\ norollback' = TRUE
  /\ nobak' \in IF product = "mariadb" THEN BOOLEAN ELSE {FALSE}
  /\ unpacks' \in IF product = "mariadb" THEN BOOLEAN ELSE {FALSE}
  /\ fresh' = IF unpacks' THEN {} ELSE Part(product)
  /\ UNCHANGED <<part, kept, deleted, tmpdir>>
RefuseUpgrade == ~CanUpgrade /\ Refuse("upgrade") /\ UNCHANGED upvars

Upgrading == op \in {"upgrade", "upconfig"}
UpStep ==
  /\ Upgrading /\ todo # <<>>
  /\ LET c == Head(todo)
     IN  /\ UpPossible(c) /\ Exchange(c)
         /\ slot' = Done(c, slot) /\ fresh' = NextFresh(c)
         /\ tmpdir' = IF unpacks /\ c \in {"unpack", "rmtmp"} THEN c = "unpack" ELSE tmpdir
  /\ todo' = Tail(todo)
  /\ UNCHANGED <<product, op, norollback, last, result, clean, before, nobak, unpacks>>

(* A failed upgrade leaves everything as it is, but removes what it unpacked; *)
(* not so if the temporary directory was there already: the program exits.    *)
UpgradeFails ==
  /\ Upgrading /\ todo # <<>>
  /\ LET c == Head(todo)
         exits == c = "unpack" /\ unpacks /\ tmpdir
     IN  /\ \/ /\ UpPossible(c) /\ (PartOf(c, Aside) = {} \/ nobak)
               /\ Exchange(c) /\ slot' = Done(c, slot)
            \/ Half(c) /\ UNCHANGED slot
         /\ fresh' = IF unpacks THEN {} ELSE fresh
         /\ tmpdir' = IF unpacks THEN exits ELSE tmpdir
  /\ Return("failed")
  /\ UNCHANGED <<clean, nobak, unpacks>>

(* The machine restarts on whatever program is in place. *)
UpReboot == /\ IF Idle THEN UNCHANGED <<product, op, todo, norollback, last, result, before>>
                       ELSE Return("killed")
            /\ slot' \in {IF Runnable THEN s ELSE [s EXCEPT !.proc = "none"] : s \in Booted(slot)}
            /\ UNCHANGED <<clean, upvars>>

UpNext == \/ BeginUpgrade \/ RefuseUpgrade \/ UpStep \/ UpgradeFails \/ UpReboot
          \/ (Finish \/ Kill) /\ UNCHANGED upvars

-------------------------------------------------------------------------------
(* A machine on which the product is installed and removed, or one whose      *)
(* running instance is upgraded.                                              *)
NodeInit == /\ \/ mode = "install" /\ Init
               \/ mode = "upgrade" /\ UpInit
            /\ part = [p \in Part(product) |-> "old"] /\ kept = {} /\ deleted = {}
            /\ fresh = {} /\ tmpdir = FALSE /\ nobak = FALSE /\ unpacks = FALSE
NodeNext == /\ \/ mode = "install" /\ Next /\ UNCHANGED upvars
               \/ mode = "upgrade" /\ UpNext
            /\ UNCHANGED mode
NodeSpec == NodeInit /\ [][NodeNext]_allvars

(* Every variable stays in its set, nothing is run after a return, and what   *)
(* an upgrade unpacked is only in its temporary directory.                    *)
NodeTypeOK == /\ TypeOK
              /\ mode \in {"install", "upgrade"}
              /\ part \in [Part(product) -> {"old", "new", "none", "broken"}]
              /\ kept \subseteq Part(product) /\ deleted \subseteq Part(product)
              /\ fresh \subseteq Part(product) /\ (unpacks /\ fresh # {} => tmpdir)
              /\ tmpdir \in BOOLEAN /\ nobak \in BOOLEAN /\ unpacks \in BOOLEAN

(* However often an upgrade failed or was killed, at any command: every       *)
(* directory of the old program is in place or was moved aside, unless the    *)
(* operator had it deleted.                                                   *)
OldProgramKept == \A p \in Part(product) : part[p] = "old" \/ p \in kept \/ p \in deleted

(* An upgrade never starts the instance on a mixture of old and new           *)
(* directories.  (A restart of the machine in between does, and an upgrade    *)
(* that is tried again then takes the instance for a new one: "upconfig".)    *)
NoMixedStart ==
  [][op = "upgrade" /\ op' = "upgrade" /\ slot.proc = "none" /\ slot'.proc # "none"
     => \A p \in Part(product) : part[p] = "new"]_allvars

(* An upgrade that is announced leaves a running instance of the new version, *)
(* and nothing in the temporary directory, which would refuse the next one.   *)
UpgradedRuns ==
  [][op = "upgrade" /\ op' = "idle" /\ result' = "ok"
     => /\ slot'.proc # "none" /\ slot'.loaded # "none"
        /\ \A p \in Part(product) : part'[p] = "new"
        /\ unpacks' => ~tmpdir']_allvars
===============================================================================
