----------------------------- MODULE ReplicaSetJoin ----------------------------
(***************************************************************************)
(* "dbup mongodb install" on several machines at once: the first node      *)
(* founds a replica set and its user, the others (secondaries and          *)
(* arbiters alike) join it: look for the primary, install, read the set's   *)
(* configuration there, write it back with a member more, and wait to see   *)
(* it in the set's status.  mongod is external: a configuration is taken by *)
(* the primary only, and only if it is the same set's, its version is above *)
(* the present one and no host appears twice; the answer may be lost.       *)
(***************************************************************************)
EXTENDS Naturals, FiniteSets

CONSTANTS
  First,        \* the machine that founds the set
  Joiner,       \* the machines that join it
  MaxInstalls,  \* bound: runs of "install", on all machines
  MaxStops      \* bound: instances that stop by themselves

Machine == {First} \cup Joiner

ASSUME JoinersAssumption == First \notin Joiner /\ IsFiniteSet(Joiner)
ASSUME JoinBounds == MaxInstalls \in Nat /\ MaxStops \in Nat

(* The name under which rs.initiate() enters the machine it runs on; "none":  *)
(* no primary.                                                                *)
Hostname == "hostname"
NoPrimary == "none"
ASSUME NamesAssumption == {Hostname, NoPrimary} \cap Machine = {}

VARIABLES
  setId,     \* which set it is: a set that was deleted and founded anew is another
  version,   \* of the set's configuration; 0: not initiated
  members,   \* its members, each with an _id and a host
  primary,   \* the machine that is primary, or NoPrimary
  user,      \* the administrator exists
  up,        \* machines on which mongod runs
  stops,     \* history: instances that stopped by themselves
  step,      \* what the installation on each machine does next
  seen,      \* the configuration it has read
  from,      \* the primary it looked up
  installs   \* history: runs started

configVars == <<setId, version, members>>
mongodVars == <<primary, user, up, stops>>
joinVars   == <<configVars, mongodVars, step, seen, from, installs>>

Ids(ms)   == {m.id : m \in ms}
Hosts(ms) == {m.host : m \in ms}
(* The machine behind a member's name. *)
MachineOf(h) == IF h = Hostname THEN First ELSE h
Majority(ms) == 2 * Cardinality({m \in ms : MachineOf(m.host) \in up}) > Cardinality(ms)

Unread == [set |-> 0, version |-> 0, members |-> {}]
Goto(j, s) == step' = [step EXCEPT ![j] = s]

-------------------------------------------------------------------------------
(* InstallAndInitDB on the machine itself. *)

(* HandleArgs of a node that joins.  A set that has no primary just now makes *)
(* it panic, on the machine nothing has happened yet.                         *)
HandleArgs(j) ==
  /\ j \in Joiner /\ step[j] = "idle" /\ installs < MaxInstalls
  /\ installs' = installs + 1
  /\ \/ /\ user /\ primary # NoPrimary
        /\ from' = [from EXCEPT ![j] = primary]
        /\ Goto(j, "install")
     \/ UNCHANGED <<from, step>>
  /\ UNCHANGED <<configVars, mongodVars, seen>>

Found ==
  /\ step[First] = "idle" /\ installs < MaxInstalls
  /\ installs' = installs + 1
  /\ Goto(First, "install")
  /\ UNCHANGED <<configVars, mongodVars, seen, from>>

(* Install, in the end; the port and the directory must be free. *)
Install(j) ==
  /\ step[j] = "install"
  /\ \/ /\ j \notin up
        /\ up' = up \cup {j}
        /\ Goto(j, IF j = First THEN "initiate" ELSE "read")
     \/ UNCHANGED up /\ Goto(j, IF j \in up THEN "idle" ELSE "undo")
  /\ UNCHANGED <<configVars, primary, user, stops, seen, from, installs>>

(* Run's rollback, whose own errors are not looked at.  A set whose only      *)
(* machine it was is gone with the machine's data.                            *)
Undo(j) ==
  /\ step[j] = "undo"
  /\ \/ /\ up' = up \ {j}
        /\ primary' = IF primary = j THEN NoPrimary ELSE primary
        /\ IF j = First /\ {MachineOf(h) : h \in Hosts(members)} \subseteq {First}
             THEN version' = 0 /\ members' = {} /\ user' = FALSE /\ UNCHANGED setId
             ELSE UNCHANGED <<configVars, user>>
     \/ UNCHANGED <<configVars, primary, user, up>>
  /\ Goto(j, "idle")
  /\ UNCHANGED <<stops, seen, from, installs>>

-------------------------------------------------------------------------------
(* InitPrimary. *)

(* rs.initiate(); its error is only logged. *)
ReplSetInitiate ==
  /\ step[First] = "initiate"
  /\ \/ /\ First \in up /\ version = 0
        /\ setId' = setId + 1
        /\ version' = 1 /\ members' = {[id |-> 0, host |-> Hostname]}
     \/ UNCHANGED configVars
  /\ Goto(First, "await")
  /\ UNCHANGED <<mongodVars, seen, from, installs>>

(* It waits a minute for the node to be primary. *)
AwaitPrimary ==
  /\ step[First] = "await"
  /\ \/ primary = First /\ Goto(First, "user")
     \/ Goto(First, "undo")
  /\ UNCHANGED <<configVars, mongodVars, seen, from, installs>>

(* The error of CreateUser is only logged, too. *)
CreateUser ==
  /\ step[First] = "user"
  /\ user' \in {user, user \/ primary = First}
  /\ Goto(First, "read")
  /\ UNCHANGED <<configVars, primary, up, stops, seen, from, installs>>

-------------------------------------------------------------------------------
(* InitSecondary, InitArbiter, and the rest of InitPrimary. *)

Asked(j) == IF j = First THEN First ELSE from[j]

GetReplConfig(j) ==
  /\ step[j] = "read"
  /\ \/ /\ user /\ Asked(j) \in up
        /\ seen' = [seen EXCEPT ![j] = [set |-> setId, version |-> version, members |-> members]]
        /\ Goto(j, "write")
     \/ UNCHANGED seen /\ Goto(j, "undo")
  /\ UNCHANGED <<configVars, mongodVars, from, installs>>

(* "max" starts at 0, so that no new member gets _id 0. *)
NewId(ms) == CHOOSE n \in {1} \cup {i + 1 : i \in Ids(ms)} : \A i \in Ids(ms) : i < n

(* A member more; the first node gives its own member, the first of the list, *)
(* the address the others know it by.                                         *)
NewMembers(j) ==
  IF j = First
    THEN {IF m.id = 0 THEN [m EXCEPT !.host = First] ELSE m : m \in seen[j].members}
    ELSE seen[j].members \cup {[id |-> NewId(seen[j].members), host |-> j]}

(* Mutant: the configuration is forced, whatever its version. *)
AcceptableIfForced(j) ==
  /\ Asked(j) = primary /\ primary \in up /\ seen[j].set = setId
  /\ j # First => j \notin Hosts(seen[j].members)

(* mongod's conditions.  A host that is in the list already would appear     *)
(* twice.                                                                    *)
Acceptable(j) ==
  /\ Asked(j) = primary /\ primary \in up
  /\ seen[j].set = setId /\ seen[j].version + 1 > version
  /\ j # First => j \notin Hosts(seen[j].members)

(* Every error of ReplReConfig ends the run, also one that comes after the    *)
(* configuration was taken.                                                   *)
ReplReConfig(j) ==
  /\ step[j] = "write"
  /\ \/ /\ Acceptable(j)
        /\ version' = seen[j].version + 1
        /\ members' = NewMembers(j)
        /\ UNCHANGED setId
        /\ Goto(j, "poll") \/ Goto(j, "undo")
     \/ UNCHANGED configVars /\ Goto(j, "undo")
  /\ seen' = [seen EXCEPT ![j] = Unread]
  /\ UNCHANGED <<mongodVars, from, installs>>

(* CheckReplicaSetStatus, for a minute: the first node wants to be primary    *)
(* under its address, the others to be seen as secondaries or as starting.    *)
CheckReplicaSetStatus(j) ==
  /\ step[j] = "poll"
  /\ \/ /\ Asked(j) \in up /\ j \in up /\ j \in Hosts(members)
        /\ j = First => primary = First
        /\ Goto(j, "ok")
     \/ Goto(j, "undo")
  /\ UNCHANGED <<configVars, mongodVars, seen, from, installs>>

Installation(j) ==
  \/ HandleArgs(j) \/ Install(j) \/ Undo(j)
  \/ GetReplConfig(j) \/ ReplReConfig(j) \/ CheckReplicaSetStatus(j)
Founding == Found \/ ReplSetInitiate \/ AwaitPrimary \/ CreateUser

-------------------------------------------------------------------------------
(* mongod. *)

StepDown ==
  /\ primary # NoPrimary /\ primary' = NoPrimary
  /\ UNCHANGED <<configVars, user, up, stops, step, seen, from, installs>>

Elect ==
  /\ primary = NoPrimary /\ Majority(members)
  /\ \E m \in members : MachineOf(m.host) \in up /\ primary' = MachineOf(m.host)
  /\ UNCHANGED <<configVars, user, up, stops, step, seen, from, installs>>

(* An instance stops; systemd starts it again. *)
Stop ==
  /\ stops < MaxStops /\ stops' = stops + 1
  /\ \E j \in up : /\ step[j] = "ok"
                   /\ up' = up \ {j}
                   /\ primary' = IF primary = j THEN NoPrimary ELSE primary
  /\ UNCHANGED <<configVars, user, step, seen, from, installs>>

Restart ==
  /\ \E j \in Machine \ up : step[j] = "ok" /\ up' = up \cup {j}
  /\ UNCHANGED <<configVars, primary, user, stops, step, seen, from, installs>>

Mongod == StepDown \/ Elect \/ Stop \/ Restart

JoinInit ==
  /\ setId = 0 /\ version = 0 /\ members = {}
  /\ primary = NoPrimary /\ user = FALSE /\ up = {} /\ stops = 0
  /\ step = [j \in Machine |-> "idle"]
  /\ seen = [j \in Machine |-> Unread]
  /\ from = [j \in Machine |-> NoPrimary]
  /\ installs = 0

JoinNext == Founding \/ (\E j \in Machine : Installation(j)) \/ Mongod

JoinSpec == JoinInit /\ [][JoinNext]_joinVars

-------------------------------------------------------------------------------
Member == [id : Nat, host : Machine \cup {Hostname}]

JoinTypeOK ==
  /\ setId \in Nat /\ version \in Nat /\ members \in SUBSET Member
  /\ primary \in Machine \cup {NoPrimary} /\ user \in BOOLEAN
  /\ up \in SUBSET Machine /\ stops \in Nat
  /\ step \in [Machine -> {"idle", "install", "initiate", "await", "user", "read",
                           "write", "poll", "undo", "ok"}]
  /\ seen \in [Machine -> [set : Nat, version : Nat, members : SUBSET Member]]
  /\ from \in [Machine -> Machine \cup {NoPrimary}]
  /\ installs \in Nat

(* Every installation that reports success is a member of the set, whatever   *)
(* other machines joined, failed or stepped down in the meantime: no two      *)
(* joins that read the same configuration take each other out of it, and no   *)
(* two members share an _id or a host.                                        *)
JoinsAreMembers ==
  /\ \A j \in Machine : step[j] = "ok" => j \in Hosts(members)
  /\ \A m, n \in members : m.id = n.id \/ m.host = n.host => m = n
===============================================================================
