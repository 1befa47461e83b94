--------------------------- MODULE MaintenanceProofs ---------------------------
(***************************************************************************)
(* The inductive invariants of ReplicaSetJoin and BackupRun, and what they *)
(* and ConfigTextProofs establish, as theorems of the composition.         *)
(***************************************************************************)
EXTENDS Maintenance, ConfigTextProofs, FiniteSetTheorems

-------------------------------------------------------------------------------
(* JoinsAreMembers for every number of machines, installations and stops. *)

(* The list of members is numbered from 0 without gaps; the first is the       *)
(* founder, under either of its names, and nobody is in it twice.              *)
Listed ==
  /\ version = 0 <=> members = {}
  /\ members # {} => \E k \in Ids(members) : Ids(members) = 0..k
  /\ \A m, n \in members : m.id = n.id \/ m.host = n.host => m = n
  /\ \A m \in members : m.host \in {Hostname, First} <=> m.id = 0

(* A configuration that was read is of an earlier set, or of an earlier        *)
(* version, or it is the present one.                                          *)
Current(c) == c.set = setId /\ version > 0 =>
                c.version <= version /\ (c.version = version => c.members = members)
SeenBefore == \A j \in Machine : seen[j].set <= setId /\ Current(seen[j])

PrimaryListed == primary # NoPrimary => \E m \in members : MachineOf(m.host) = primary
SetFounded    == version > 0 => setId > 0
Joined        == \A j \in Machine : step[j] = "ok" => j \in Hosts(members)

JInv == JoinTypeOK /\ Listed /\ SeenBefore /\ PrimaryListed /\ SetFounded /\ Joined

-------------------------------------------------------------------------------
(* InitSecondary's loop over the members gives the next number. *)
LEMMA NextId ==
  ASSUME NEW ms, NEW k \in Nat, Ids(ms) = 0..k
  PROVE  NewId(ms) = k + 1
<1> DEFINE S == {1} \cup {i + 1 : i \in Ids(ms)}
           P(n) == \A i \in Ids(ms) : i < n
<1>1. k + 1 \in S /\ P(k + 1)
  <2>1. k \in Ids(ms)
    OBVIOUS
  <2>2. \A i \in 0..k : i < k + 1
    OBVIOUS
  <2> QED
    BY <2>1, <2>2
<1>2. \A n \in S : P(n) => n = k + 1
  OBVIOUS
<1>3. (CHOOSE n \in S : P(n)) = k + 1
  <2> HIDE DEF S, P
  <2> QED
    BY <1>1, <1>2
<1> QED
  BY <1>3 DEF NewId

(* Steps that leave the set's configuration alone, and what was read of it. *)
LEMMA QuietKeeps ==
  ASSUME JInv, JoinTypeOK', UNCHANGED <<configVars, seen>>,
         primary' = primary \/ primary' = NoPrimary,
         \A j \in Machine : step'[j] = "ok" => step[j] = "ok" \/ j \in Hosts(members)
  PROVE  JInv'
<1>1. setId' = setId /\ version' = version /\ members' = members /\ seen' = seen
  BY DEF configVars
<1>2. Listed'
  BY <1>1 DEF JInv, Listed, Ids
<1>3. SeenBefore'
  BY <1>1 DEF JInv, SeenBefore, Current
<1>4. PrimaryListed' /\ SetFounded'
  BY <1>1 DEF JInv, PrimaryListed, SetFounded, MachineOf
<1>5. Joined'
  BY <1>1 DEF JInv, Joined, Hosts
<1> QED
  BY <1>2, <1>3, <1>4, <1>5 DEF JInv

LEMMA HandleArgsKeeps == ASSUME JInv, NEW j \in Machine, HandleArgs(j) PROVE JInv'
<1> USE DEF HandleArgs, Goto, configVars, mongodVars
<1>1. JoinTypeOK'
  BY DEF JInv, JoinTypeOK
<1> QED
  BY <1>1, QuietKeeps DEF JInv, JoinTypeOK

LEMMA FoundKeeps == ASSUME JInv, Found PROVE JInv'
<1> USE DEF Found, Goto, configVars, mongodVars
<1>1. JoinTypeOK'
  BY DEF JInv, JoinTypeOK, Machine
<1> QED
  BY <1>1, QuietKeeps DEF JInv, JoinTypeOK, Machine

LEMMA InstallKeeps == ASSUME JInv, NEW j \in Machine, Install(j) PROVE JInv'
<1> USE DEF Install, Goto, configVars
<1>1. JoinTypeOK'
  BY DEF JInv, JoinTypeOK
<1> QED
  BY <1>1, QuietKeeps DEF JInv, JoinTypeOK

LEMMA AwaitPrimaryKeeps == ASSUME JInv, AwaitPrimary PROVE JInv'
<1> USE DEF AwaitPrimary, Goto, configVars, mongodVars
<1>1. JoinTypeOK'
  BY DEF JInv, JoinTypeOK, Machine
<1> QED
  BY <1>1, QuietKeeps DEF JInv, JoinTypeOK, Machine

LEMMA CreateUserKeeps == ASSUME JInv, CreateUser PROVE JInv'
<1> USE DEF CreateUser, Goto, configVars
<1>1. JoinTypeOK'
  BY DEF JInv, JoinTypeOK, Machine
<1> QED
  BY <1>1, QuietKeeps DEF JInv, JoinTypeOK, Machine

LEMMA CheckStatusKeeps == ASSUME JInv, NEW j \in Machine, CheckReplicaSetStatus(j) PROVE JInv'
<1> USE DEF CheckReplicaSetStatus, Goto, configVars, mongodVars
<1>1. JoinTypeOK'
  BY DEF JInv, JoinTypeOK
<1> QED
  BY <1>1, QuietKeeps DEF JInv, JoinTypeOK

LEMMA StepDownKeeps == ASSUME JInv, StepDown PROVE JInv'
<1> USE DEF StepDown, configVars
<1>1. JoinTypeOK'
  BY DEF JInv, JoinTypeOK
<1> QED
  BY <1>1, QuietKeeps DEF JInv, JoinTypeOK

LEMMA StopKeeps == ASSUME JInv, Stop PROVE JInv'
<1> USE DEF Stop, configVars
<1>1. JoinTypeOK'
  BY DEF JInv, JoinTypeOK
<1> QED
  BY <1>1, QuietKeeps DEF JInv, JoinTypeOK

LEMMA RestartKeeps == ASSUME JInv, Restart PROVE JInv'
<1> USE DEF Restart, configVars
<1>1. JoinTypeOK'
  BY DEF JInv, JoinTypeOK
<1> QED
  BY <1>1, QuietKeeps DEF JInv, JoinTypeOK

LEMMA ElectKeeps == ASSUME JInv, Elect PROVE JInv'
<1> USE DEF Elect, configVars
<1>1. PICK m \in members : primary' = MachineOf(m.host)
  OBVIOUS
<1>2. JoinTypeOK'
  BY <1>1 DEF JInv, JoinTypeOK, Member, MachineOf, Machine
<1>3. Listed' /\ SeenBefore' /\ SetFounded' /\ Joined'
  BY DEF JInv, Listed, SeenBefore, Current, SetFounded, Joined, Ids, Hosts
<1>4. PrimaryListed'
  BY <1>1 DEF PrimaryListed, MachineOf
<1> QED
  BY <1>2, <1>3, <1>4 DEF JInv

-------------------------------------------------------------------------------
(* Undo: the set is gone only when it had nobody else. *)
LEMMA UndoKeeps == ASSUME JInv, NEW j \in Machine, Undo(j) PROVE JInv'
<1> USE DEF Undo, Goto, configVars
<1>1. JoinTypeOK'
  <2>1. /\ step' = [step EXCEPT ![j] = "idle"] /\ stops' = stops /\ seen' = seen
        /\ from' = from /\ installs' = installs /\ setId' = setId
        /\ up' = up \ {j} \/ up' = up
        /\ primary' \in {primary, NoPrimary} /\ user' \in {user, FALSE}
        /\ version' \in {version, 0} /\ members' \in {members, {}}
    OBVIOUS
  <2>2. version' \in Nat /\ members' \in SUBSET Member /\ up' \in SUBSET Machine
    BY <2>1 DEF JInv, JoinTypeOK
  <2>3. primary' \in Machine \cup {NoPrimary} /\ user' \in BOOLEAN
    BY <2>1 DEF JInv, JoinTypeOK
  <2> QED
    BY <2>1, <2>2, <2>3 DEF JInv, JoinTypeOK
<1>2. CASE UNCHANGED configVars
  BY <1>1, <1>2, QuietKeeps DEF JInv, JoinTypeOK
<1>3. CASE ~UNCHANGED configVars
  <2>1. /\ j = First /\ {MachineOf(h) : h \in Hosts(members)} \subseteq {First}
        /\ version' = 0 /\ members' = {} /\ setId' = setId /\ seen' = seen
        /\ primary' = IF primary = First THEN NoPrimary ELSE primary
    BY <1>3
  <2>2. \A m \in members : MachineOf(m.host) = First
    BY <2>1 DEF Hosts
  <2>3. primary' = NoPrimary
    BY <2>1, <2>2 DEF JInv, PrimaryListed
  <2>4. Listed'
    BY <2>1 DEF Listed, Ids
  <2>5. SeenBefore' /\ SetFounded'
    BY <2>1 DEF JInv, SeenBefore, Current, SetFounded
  <2>6. \A i \in Machine : step'[i] # "ok"
    <3>1. SUFFICES ASSUME NEW i \in Machine, step'[i] = "ok"
                   PROVE  FALSE
      OBVIOUS
    <3>2. i # First /\ step[i] = "ok"
      BY <2>1, <3>1 DEF JInv, JoinTypeOK
    <3>3. PICK m \in members : m.host = i
      BY <3>2 DEF JInv, Joined, Hosts
    <3>4. i # Hostname
      BY NamesAssumption
    <3> QED
      BY <2>2, <3>2, <3>3, <3>4 DEF MachineOf
  <2>7. PrimaryListed' /\ Joined'
    BY <2>3, <2>6 DEF PrimaryListed, Joined
  <2> QED
    BY <1>1, <2>4, <2>5, <2>7 DEF JInv
<1> QED
  BY <1>2, <1>3

(* rs.initiate() begins a set of its own: nothing that was read is of it. *)
LEMMA InitiateKeeps == ASSUME JInv, ReplSetInitiate PROVE JInv'
<1> USE DEF ReplSetInitiate, Goto, configVars, mongodVars
<1>1. JoinTypeOK'
  BY DEF JInv, JoinTypeOK, Machine, Member
<1>2. CASE UNCHANGED configVars
  BY <1>1, <1>2, QuietKeeps DEF JInv, JoinTypeOK, Machine
<1>3. CASE /\ version = 0 /\ setId' = setId + 1 /\ version' = 1
           /\ members' = {[id |-> 0, host |-> Hostname]}
  <2>1. Ids(members') = {0} /\ Hosts(members') = {Hostname}
    BY <1>3 DEF Ids, Hosts
  <2>2. 0..0 = {0}
    OBVIOUS
  <2>3. Listed'
    BY <1>3, <2>1, <2>2 DEF Listed, Ids
  <2>4. \A i \in Machine : seen'[i].set < setId'
    BY <1>3 DEF JInv, SeenBefore, JoinTypeOK
  <2>5. SeenBefore' /\ SetFounded'
    BY <1>3, <2>4 DEF JInv, SeenBefore, Current, SetFounded, JoinTypeOK
  <2>6. members = {}
    BY <1>3 DEF JInv, Listed
  <2>7. PrimaryListed'
    BY <2>6 DEF JInv, PrimaryListed
  <2>8. Joined'
    BY <2>6 DEF JInv, Joined, Hosts, JoinTypeOK
  <2> QED
    BY <1>1, <2>3, <2>5, <2>7, <2>8 DEF JInv
<1> QED
  BY <1>2, <1>3

LEMMA GetConfigKeeps == ASSUME JInv, NEW j \in Machine, GetReplConfig(j) PROVE JInv'
<1> USE DEF GetReplConfig, Goto, configVars, mongodVars
<1>1. JoinTypeOK'
  BY SMTT(30) DEF JInv, JoinTypeOK
<1>2. Listed' /\ PrimaryListed' /\ SetFounded'
  BY DEF JInv, Listed, PrimaryListed, SetFounded, Ids, MachineOf
<1>3. SeenBefore'
  BY DEF JInv, SeenBefore, Current, JoinTypeOK
<1>4. Joined'
  BY DEF JInv, Joined, Hosts, JoinTypeOK
<1> QED
  BY <1>1, <1>2, <1>3, <1>4 DEF JInv

-------------------------------------------------------------------------------
(* A configuration that mongod takes was read of this set in this version. *)
LEMMA TakenIsCurrent ==
  ASSUME JInv, NEW j \in Machine, Acceptable(j)
  PROVE  /\ seen[j].members = members /\ members # {} /\ seen[j].version = version
         /\ version \in Nat /\ version > 0
<1>1. primary # NoPrimary
  BY NamesAssumption DEF JInv, JoinTypeOK, Acceptable
<1>2. members # {}
  BY <1>1 DEF JInv, PrimaryListed
<1>3. version \in Nat /\ version # 0
  BY <1>2 DEF JInv, Listed, JoinTypeOK
<1>4. seen[j].set = setId /\ seen[j].version + 1 > version /\ seen[j].version \in Nat
  BY DEF Acceptable, JInv, JoinTypeOK
<1>5. Current(seen[j])
  BY DEF JInv, SeenBefore
<1>6. seen[j].version <= version /\ (seen[j].version = version => seen[j].members = members)
  BY <1>3, <1>4, <1>5 DEF Current
<1> QED
  BY <1>2, <1>3, <1>4, <1>6

(* The founder gives the first member the address the others know. *)
LEMMA FounderRenames ==
  ASSUME JInv, members # {},
         members' = {IF m.id = 0 THEN [m EXCEPT !.host = First] ELSE m : m \in members}
  PROVE  /\ members' \in SUBSET Member /\ members' # {} /\ Ids(members') = Ids(members)
         /\ \A m, n \in members' : m.id = n.id \/ m.host = n.host => m = n
         /\ \A m \in members' : m.host \in {Hostname, First} <=> m.id = 0
         /\ {First} \cup (Hosts(members) \ {Hostname}) \subseteq Hosts(members')
<1> DEFINE Renamed(m) == IF m.id = 0 THEN [m EXCEPT !.host = First] ELSE m
<1>1. \A m \in members : m \in Member
  BY DEF JInv, JoinTypeOK
<1>2. \A m \in members : /\ Renamed(m) \in Member /\ Renamed(m).id = m.id
                         /\ m.id = 0 => Renamed(m) = [id |-> 0, host |-> First]
                         /\ m.id # 0 => Renamed(m) = m
  BY <1>1 DEF Member, Machine
<1>3. \A m \in members : m.host \in {Hostname, First} <=> m.id = 0
  BY DEF JInv, Listed
<1>4. members' = {Renamed(m) : m \in members}
  OBVIOUS
<1> HIDE DEF Renamed
<1>5. members' \in SUBSET Member /\ members' # {} /\ Ids(members') = Ids(members)
  BY <1>2, <1>4 DEF Ids
<1>6. \A m \in members' : m.host \in {Hostname, First} <=> m.id = 0
  BY <1>2, <1>3, <1>4
<1>7. ASSUME NEW m \in members', NEW n \in members', m.id = n.id \/ m.host = n.host
      PROVE  m = n
  <2>1. PICK x \in members, y \in members : m = Renamed(x) /\ n = Renamed(y)
    BY <1>4
  <2>2. x.id = y.id \/ x.host = y.host => x = y
    BY DEF JInv, Listed
  <2>3. CASE x.id = 0 \/ y.id = 0
    BY <1>2, <1>6, <1>7, <2>1, <2>2, <2>3
  <2>4. CASE x.id # 0 /\ y.id # 0
    BY <1>2, <1>7, <2>1, <2>2, <2>4
  <2> QED
    BY <2>3, <2>4
<1>8. First \in Hosts(members')
  <2>1. PICK k \in Ids(members) : Ids(members) = 0..k
    BY DEF JInv, Listed
  <2>2. k \in Nat
    BY <1>1 DEF Ids, Member
  <2>3. 0 \in Ids(members)
    BY <2>1, <2>2
  <2>4. PICK m \in members : m.id = 0
    BY <2>3 DEF Ids
  <2> QED
    BY <1>2, <1>4, <2>4 DEF Hosts
<1>9. ASSUME NEW h \in Hosts(members), h # Hostname
      PROVE  h \in Hosts(members')
  <2>1. PICK m \in members : m.host = h
    BY DEF Hosts
  <2>2. CASE m.id = 0
    BY <1>3, <1>8, <1>9, <2>1, <2>2
  <2>3. CASE m.id # 0
    BY <1>2, <1>4, <2>1, <2>3 DEF Hosts
  <2> QED
    BY <2>2, <2>3
<1> QED
  BY <1>5, <1>6, <1>7, <1>8, <1>9

(* A machine that joins gets a number and a place of its own. *)
LEMMA JoinerEnters ==
  ASSUME JInv, NEW j \in Joiner, members # {}, j \notin Hosts(members),
         members' = members \cup {[id |-> NewId(members), host |-> j]}
  PROVE  /\ members' \in SUBSET Member /\ members' # {}
         /\ \E k \in Ids(members') : Ids(members') = 0..k
         /\ \A m, n \in members' : m.id = n.id \/ m.host = n.host => m = n
         /\ \A m \in members' : m.host \in {Hostname, First} <=> m.id = 0
         /\ {j} \cup Hosts(members) \subseteq Hosts(members')
<1>1. \A m \in members : m \in Member
  BY DEF JInv, JoinTypeOK
<1>2. PICK k \in Ids(members) : Ids(members) = 0..k
  BY DEF JInv, Listed
<1>3. k \in Nat
  BY <1>1, <1>2 DEF Ids, Member
<1>4. NewId(members) = k + 1
  BY <1>2, <1>3, NextId
<1> DEFINE new == [id |-> k + 1, host |-> j]
<1>5. members' = members \cup {new}
  BY <1>4
<1>6. new \in Member /\ new.id = k + 1 /\ new.host = j
  BY <1>3 DEF Member, Machine
<1> HIDE DEF new
<1>7. Ids(members') = Ids(members) \cup {k + 1}
  BY <1>5, <1>6 DEF Ids
<1>8. 0..(k + 1) = (0..k) \cup {k + 1}
  BY <1>3
<1>9. \A m \in members : m.id # k + 1 /\ m.host # j
  <2>1. \A m \in members : m.id \in 0..k /\ m.host \in Hosts(members)
    BY <1>2 DEF Ids, Hosts
  <2>2. k + 1 \notin 0..k
    BY <1>3
  <2> QED
    BY <2>1, <2>2
<1>10. j # Hostname /\ j # First
  BY NamesAssumption, JoinersAssumption DEF Machine
<1>11. \A m, n \in members' : m.id = n.id \/ m.host = n.host => m = n
  BY <1>5, <1>6, <1>9 DEF JInv, Listed
<1>12. \A m \in members' : m.host \in {Hostname, First} <=> m.id = 0
  <2>1. k + 1 # 0
    BY <1>3
  <2> QED
    BY <1>5, <1>6, <1>10, <2>1 DEF JInv, Listed
<1>13. k + 1 \in Ids(members') /\ Ids(members') = 0..(k + 1)
  BY <1>2, <1>7, <1>8
<1> QED
  BY <1>1, <1>5, <1>6, <1>11, <1>12, <1>13 DEF Hosts

LEMMA ReconfigKeeps == ASSUME JInv, NEW j \in Machine, ReplReConfig(j) PROVE JInv'
<1> USE DEF ReplReConfig, Goto, configVars, mongodVars
<1>1. /\ step' \in [Machine -> {"idle", "install", "initiate", "await", "user", "read",
                                "write", "poll", "undo", "ok"}]
      /\ \A i \in Machine : step'[i] = "ok" => step[i] = "ok"
  BY DEF JInv, JoinTypeOK
<1>2. /\ seen' = [seen EXCEPT ![j] = Unread]
      /\ seen' \in [Machine -> [set : Nat, version : Nat, members : SUBSET Member]]
  BY DEF JInv, JoinTypeOK, Unread
<1>3. CASE UNCHANGED configVars
  <2>1. JoinTypeOK'
    BY <1>1, <1>2, <1>3 DEF JInv, JoinTypeOK
  <2>2. Listed' /\ PrimaryListed' /\ SetFounded'
    BY <1>3 DEF JInv, Listed, PrimaryListed, SetFounded, Ids, MachineOf
  <2>3. SeenBefore'
    BY <1>2, <1>3 DEF JInv, SeenBefore, Current, JoinTypeOK, Unread, SetFounded
  <2>4. Joined'
    BY <1>1, <1>3 DEF JInv, Joined, Hosts
  <2> QED
    BY <2>1, <2>2, <2>3, <2>4 DEF JInv
<1>4. CASE /\ Acceptable(j) /\ version' = seen[j].version + 1
           /\ members' = NewMembers(j) /\ setId' = setId
  <2>1. /\ seen[j].members = members /\ members # {} /\ seen[j].version = version
        /\ version \in Nat /\ version > 0
    BY <1>4, TakenIsCurrent
  <2>2. /\ members' \in SUBSET Member /\ members' # {}
        /\ \E k \in Ids(members') : Ids(members') = 0..k
        /\ \A m, n \in members' : m.id = n.id \/ m.host = n.host => m = n
        /\ \A m \in members' : m.host \in {Hostname, First} <=> m.id = 0
        /\ {j} \cup (Hosts(members) \ {Hostname}) \subseteq Hosts(members')
        /\ Hostname \in Hosts(members) => First \in Hosts(members') \/ Hostname \in Hosts(members')
    <3>1. CASE j = First
      <4>1. members' = {IF m.id = 0 THEN [m EXCEPT !.host = First] ELSE m : m \in members}
        BY <1>4, <2>1, <3>1 DEF NewMembers
      <4>2. \E k \in Ids(members) : Ids(members) = 0..k
        BY <2>1 DEF JInv, Listed
      <4> QED
        BY <2>1, <3>1, <4>1, <4>2, FounderRenames
    <3>2. CASE j # First
      <4>1. j \in Joiner /\ j \notin Hosts(members)
        BY <1>4, <2>1, <3>2 DEF Machine, Acceptable
      <4>2. members' = members \cup {[id |-> NewId(members), host |-> j]}
        BY <1>4, <2>1, <3>2 DEF NewMembers
      <4> QED
        BY <2>1, <4>1, <4>2, JoinerEnters
    <3> QED
      BY <3>1, <3>2
  <2>3. version' = version + 1 /\ version' \in Nat /\ version' > 0
    BY <1>4, <2>1
  <2>4. JoinTypeOK'
    BY <1>1, <1>2, <1>4, <2>2, <2>3 DEF JInv, JoinTypeOK
  <2>5. Listed' /\ SetFounded'
    BY <1>4, <2>1, <2>2, <2>3 DEF JInv, Listed, SetFounded
  <2>6. SeenBefore'
    <3>1. ASSUME NEW i \in Machine
          PROVE  /\ seen'[i].set <= setId'
                 /\ seen'[i].set = setId' /\ version' > 0 =>
                      /\ seen'[i].version <= version'
                      /\ seen'[i].version = version' => seen'[i].members = members'
      <4>1. CASE i = j
        <5>1. seen'[i].set = 0
          BY <1>2, <4>1 DEF JInv, JoinTypeOK, Unread
        <5>2. setId' \in Nat /\ setId' > 0
          BY <1>4, <2>1 DEF JInv, SetFounded, JoinTypeOK
        <5> QED
          BY <5>1, <5>2
      <4>2. CASE i # j
        <5>1. seen'[i] = seen[i]
          BY <1>2, <4>2 DEF JInv, JoinTypeOK
        <5>2. /\ seen[i].set <= setId /\ seen[i].version \in Nat
              /\ seen[i].set = setId => seen[i].version <= version
          BY <2>1 DEF JInv, SeenBefore, Current, JoinTypeOK
        <5> QED
          BY <1>4, <2>1, <2>3, <5>1, <5>2
      <4> QED
        BY <4>1, <4>2
    <3> QED
      BY <3>1 DEF SeenBefore, Current
  <2>7. Joined'
    <3>1. \A i \in Machine : i # Hostname
      BY NamesAssumption
    <3> QED
      BY <1>1, <2>2, <3>1 DEF JInv, Joined
  <2>8. PrimaryListed'
    <3>1. Asked(j) = primary /\ primary' = primary
      BY <1>4 DEF Acceptable
    <3>2. ASSUME primary # NoPrimary
          PROVE  \E m \in members' : MachineOf(m.host) = primary
      <4>1. PICK m \in members : MachineOf(m.host) = primary
        BY <3>2 DEF JInv, PrimaryListed
      <4>2. m.host # Hostname => m.host \in Hosts(members')
        BY <2>2 DEF Hosts
      <4>3. m.host = Hostname => First \in Hosts(members') \/ Hostname \in Hosts(members')
        BY <2>2, <4>1 DEF Hosts
      <4> QED
        BY <4>1, <4>2, <4>3 DEF Hosts, MachineOf
    <3> QED
      BY <3>1, <3>2 DEF PrimaryListed
  <2> QED
    BY <2>4, <2>5, <2>6, <2>7, <2>8 DEF JInv
<1> QED
  BY <1>3, <1>4

-------------------------------------------------------------------------------
LEMMA JoinInitially == JoinInit => JInv
<1> SUFFICES ASSUME JoinInit
             PROVE  JInv
  OBVIOUS
<1> USE DEF JoinInit
<1>1. JoinTypeOK
  BY DEF JoinTypeOK, Unread
<1> QED
  BY <1>1 DEF JInv, Listed, SeenBefore, Current, PrimaryListed, SetFounded, Joined, Unread

LEMMA JoinStepKeeps == JInv /\ [JoinNext]_joinVars => JInv'
<1> SUFFICES ASSUME JInv, [JoinNext]_joinVars
             PROVE  JInv'
  OBVIOUS
<1>1. CASE UNCHANGED joinVars
  <2>1. JoinTypeOK'
    BY <1>1 DEF joinVars, configVars, mongodVars, JInv, JoinTypeOK
  <2> QED
    BY <1>1, <2>1, QuietKeeps DEF joinVars, mongodVars
<1>2. CASE Founding
  BY <1>2, FoundKeeps, InitiateKeeps, AwaitPrimaryKeeps, CreateUserKeeps DEF Founding
<1>3. ASSUME NEW j \in Machine, Installation(j)
      PROVE  JInv'
  BY <1>3, HandleArgsKeeps, InstallKeeps, UndoKeeps, GetConfigKeeps, ReconfigKeeps,
     CheckStatusKeeps DEF Installation
<1>4. CASE Mongod
  BY <1>4, StepDownKeeps, ElectKeeps, StopKeeps, RestartKeeps DEF Mongod
<1> QED
  BY <1>1, <1>2, <1>3, <1>4 DEF JoinNext

(* The inductive invariant of joining, for any number of machines. *)
THEOREM JoinInvariance == JoinSpec => []JInv
  BY JoinInitially, JoinStepKeeps, PTL DEF JoinSpec

LEMMA MembersByInvariant == JInv => JoinsAreMembers
  BY DEF JInv, Joined, Listed, JoinsAreMembers

-------------------------------------------------------------------------------
(* BackupsKept for every number of runs and shards and any length of the day, *)
(* with --expire of nothing or one day as in BackupInit.                      *)

Last    == IF kind = "task" THEN 1 ELSE Shards
Sent(r) == {o.shard : o \in {p \in object : p.of = r}}

(* Which steps there are for a kind, and that removing needs an --expire. *)
Staged ==
  /\ expire \in {0, 1} /\ (kind = "task" => expire = 1)
  /\ \A r \in Backup :
       /\ stage[r] \in {"upload", "removelocal", "expires3"} => kind = "s3"
       /\ stage[r] = "expire" => kind # "s3"
       /\ stage[r] \in {"expire", "expires3"} => expire = 1

(* A run's files are not older than the run, and runs are not long. *)
Aged ==
  /\ \A r \in Backup : /\ begun[r] <= now
                       /\ stage[r] # "none" => begun[r] <= touched[r]
                       /\ Running(r) => now <= begun[r] + Longest
  /\ \A o \in object : begun[o.of] <= o.at

(* Files are made and sent one after the other. *)
Counted ==
  \A r \in Backup :
    /\ stage[r] = "none" => local[r] = {}
    /\ stage[r] \in {"none", "dump"} => Sent(r) = {}
    /\ stage[r] = "dump" => \E k \in 0..(Last - 1) : local[r] = 1..k
    /\ stage[r] = "upload" => \E k \in 0..(Last - 1) : Sent(r) = 1..k

(* Until it has ended, a run has all of its files in one place. *)
HasAll ==
  \A r \in Backup :
    /\ stage[r] \in {"expire", "upload"} => local[r] = Shard
    /\ stage[r] \in {"removelocal", "expires3"} => Sent(r) = Shard

BInv == BackupTypeOK /\ Staged /\ Aged /\ Counted /\ HasAll /\ BackupsKept

-------------------------------------------------------------------------------
(* Nothing begun in the last day is old enough to be removed.                 *)
LEMMA Young ==
  ASSUME BackupTypeOK, Staged, Aged, NEW r \in Backup, NEW q \in Backup,
         expire = 1, kind = "task" => now >= Day, now <= begun[q] + Day
  PROVE  ExpireTime(r) <= begun[q]
<1>1. Day \in Nat \ {0} /\ now \in Nat /\ begun[q] \in Nat /\ begun[r] \in Nat /\ begun[r] <= now
  BY ClockAssumption DEF BackupTypeOK, Aged
<1>2. CASE kind = "task"
  <2>1. now - Day \in Nat /\ now - expire * Day = now - Day
    BY <1>1, <1>2
  <2>2. \A n \in Nat : Day * (n \div Day) <= n
    BY <1>1
  <2>3. Day * ((now - Day) \div Day) <= now - Day
    BY <2>1, <2>2
  <2>4. ExpireTime(r) = Day * ((now - Day) \div Day)
    BY <1>2, <2>1 DEF ExpireTime
  <2>5. (now - Day) \div Day \in Int
    BY <2>1, <1>1
  <2> QED BY <2>3, <2>4, <2>5, <1>1
<1>3. CASE kind # "task"
  <2>1. ExpireTime(r) = begun[r] - Day
    BY <1>3, <1>1 DEF ExpireTime
  <2> QED BY <2>1, <1>1
<1> QED BY <1>2, <1>3

(* The next file of a run that has those up to k.                             *)
LEMMA Following ==
  ASSUME NEW k \in Nat
  PROVE  NextShard(1..k) = k + 1 /\ 1..k \cup {k + 1} = 1..(k + 1)
<1>1. Cardinality(1..k) = k
  <2>1. Cardinality(1..k) = IF 1 > k THEN 0 ELSE k - 1 + 1
    BY FS_Interval
  <2> QED BY <2>1
<1>2. 1..k \cup {k + 1} = 1..(k + 1)
  OBVIOUS
<1> QED BY <1>1, <1>2 DEF NextShard

(* A run that ends with an error, and one that reports what is whole.         *)
Ends(r) ==
  /\ stage[r] # "none"
  /\ Proceed(r, "err") \/ (Whole(r) /\ Proceed(r, "ok"))
  /\ touched' = touched \/ touched' = [touched EXCEPT ![r] = now]
  /\ UNCHANGED <<kind, expire, now, begun, local, object>>

LEMMA EndKeeps == ASSUME BInv, NEW r \in Backup, Ends(r) PROVE BInv'
<1> USE DEF BInv, Ends, Proceed
<1>1. BackupTypeOK'
  BY DEF BackupTypeOK, Shard
<1>2. Staged'
  BY DEF BackupTypeOK, Staged
<1>3. Aged'
  BY DEF BackupTypeOK, Aged, Running
<1>4. Counted'
  BY DEF BackupTypeOK, Counted, Sent, Last
<1>5. HasAll'
  BY DEF BackupTypeOK, HasAll, Sent, Shard
<1>6. BackupsKept'
  <2>1. \A q \in Backup : Whole(q)' <=> Whole(q)
    BY DEF Whole, Shard
  <2>2. \A q \in Backup : stage'[q] = "ok" => stage[q] = "ok" \/ (q = r /\ Whole(r))
    BY DEF BackupTypeOK
  <2> QED BY <2>1, <2>2 DEF BackupsKept
<1> QED BY <1>1, <1>2, <1>3, <1>4, <1>5, <1>6

LEMMA BeginBackupKeeps == ASSUME BInv, NEW r \in Backup, BeginBackup(r) PROVE BInv'
<1> USE DEF BInv, BeginBackup, Proceed
<1>1. BackupTypeOK'
  BY DEF BackupTypeOK, Shard
<1>2. Staged'
  BY DEF BackupTypeOK, Staged
<1>3. Aged'
  <2>1. \A o \in object : o.of = r => FALSE
    BY SMTT(30) DEF Counted, Sent
  <2> QED BY <2>1, ClockAssumption DEF BackupTypeOK, Aged, Running
<1>4. Counted'
  <2>1. local[r] = 1..0 /\ 0 \in 0..(Last - 1)
    BY ClockAssumption DEF Counted, Last
  <2>2. \A q \in Backup : Sent(q)' = Sent(q) /\ local'[q] = local[q]
    BY DEF Sent
  <2>3. Last' = Last
    BY DEF Last
  <2>4. \A q \in Backup : q # r => stage'[q] = stage[q]
    BY DEF BackupTypeOK
  <2>5. stage'[r] \in {"dump", "err"} /\ Sent(r) = {}
    BY DEF BackupTypeOK, Counted
  <2> QED BY <2>1, <2>2, <2>3, <2>4, <2>5 DEF Counted
<1>5. HasAll'
  BY DEF BackupTypeOK, HasAll, Sent, Shard
<1>6. BackupsKept'
  <2>1. \A q \in Backup : Whole(q)' <=> Whole(q)
    BY DEF Whole, Shard
  <2>2. \A q \in Backup : stage'[q] = "ok" => stage[q] = "ok" /\ begun'[q] = begun[q]
    BY DEF BackupTypeOK
  <2> QED BY <2>1, <2>2 DEF BackupsKept
<1> QED BY <1>1, <1>2, <1>3, <1>4, <1>5, <1>6

LEMMA NothingToRemoveKeeps == ASSUME BInv, NEW r \in Backup, NothingToRemove(r) PROVE BInv'
<1>1. stage[r] \in {"expire", "expires3"} => Whole(r)
  BY DEF BInv, HasAll, Whole, Sent
<1>2. Ends(r)
  BY <1>1 DEF NothingToRemove, Ends
<1> QED BY <1>2, EndKeeps

LEMMA KilledKeeps == ASSUME BInv, NEW r \in Backup, Killed(r) PROVE BInv'
<1>1. Ends(r)
  BY DEF Killed, Running, Ends
<1> QED BY <1>1, EndKeeps

(* Nothing of a run that is under way, or was begun within the days it was     *)
(* asked to be kept, is among what a run removes.                             *)
LEMMA ExpireLocalKeeps == ASSUME BInv, NEW r \in Backup, RemoveLocalExpired(r) PROVE BInv'
<1> USE DEF BInv
<1>0. /\ stage[r] = "expire" /\ now >= expire * Day /\ expire = 1 /\ r \in Backup
      /\ UNCHANGED <<kind, expire, now, begun, touched, object>>
  BY DEF RemoveLocalExpired, Staged
<1>1. PICK gone \in SUBSET Expired(r) :
        /\ local' = [q \in Backup |-> IF q \in gone THEN {} ELSE local[q]]
        /\ Proceed(r, "ok") \/ Proceed(r, "err")
  BY DEF RemoveLocalExpired
<1>2. now >= Day
  BY <1>0, ClockAssumption DEF BackupTypeOK
<1>3. ASSUME NEW q \in Backup, stage[q] # "none", now <= begun[q] + Day
      PROVE  q \notin gone
  <2>1. ExpireTime(r) <= begun[q]
    BY <1>0, <1>2, <1>3, Young
  <2>2. begun[q] <= touched[q]
    BY <1>3 DEF Aged
  <2>3. ExpireTime(r) \in Int /\ begun[q] \in Nat /\ touched[q] \in Nat
    BY <1>0, ClockAssumption DEF BackupTypeOK, ExpireTime
  <2>4. ~(touched[q] < ExpireTime(r))
    BY <2>1, <2>2, <2>3
  <2> QED BY <2>4 DEF Expired
<1>4. ASSUME NEW q \in Backup, Running(q)
      PROVE  local'[q] = local[q]
  <2>1. now <= begun[q] + Day
    BY <1>4, LongestAssumption, ClockAssumption DEF Aged, BackupTypeOK
  <2>2. q \notin gone
    BY <1>3, <1>4, <2>1 DEF Running
  <2> QED BY <1>1, <2>2
<1>5. ASSUME NEW q \in Backup PROVE local'[q] \in {local[q], {}}
  BY <1>1
<1>6. /\ \A q \in Backup : q # r => stage'[q] = stage[q]
      /\ stage'[r] \in {"ok", "err"}
  BY <1>1 DEF Proceed, BackupTypeOK
<1>7. \A q \in Backup : Sent(q)' = Sent(q)
  BY <1>0 DEF Sent
<1>8. Shard' = Shard /\ Last' = Last
  BY <1>0 DEF Shard, Last
<1>11. BackupTypeOK'
  <2>1. local' \in [Backup -> SUBSET Shard]
    BY <1>1 DEF BackupTypeOK
  <2>2. stage' \in [Backup -> {"none", "dump", "expire", "upload", "removelocal",
                               "expires3", "ok", "err"}]
    BY <1>1 DEF BackupTypeOK, Proceed
  <2> QED BY <2>1, <2>2, <1>0, <1>8 DEF BackupTypeOK
<1>12. Staged'
  BY <1>0, <1>6 DEF Staged
<1>13. Aged'
  <2>1. \A q \in Backup : Running(q)' => Running(q)
    BY <1>0, <1>6 DEF Running
  <2> QED BY <2>1, <1>0, <1>6 DEF Aged
<1>14. Counted'
  <2>1. \A q \in Backup : stage'[q] = "none" => local'[q] = {}
    BY <1>5, <1>6 DEF Counted
  <2>2. ASSUME NEW q \in Backup, stage'[q] \in {"dump", "upload"}
        PROVE  local'[q] = local[q] /\ stage'[q] = stage[q]
    BY <1>4, <1>6, <2>2 DEF Running
  <2> QED BY <1>0, <1>6, <1>7, <1>8, <2>1, <2>2 DEF Counted
<1>15. HasAll'
  <2>1. ASSUME NEW q \in Backup, stage'[q] \in {"expire", "upload", "removelocal", "expires3"}
        PROVE  local'[q] = local[q] /\ stage'[q] = stage[q]
    BY <1>4, <1>6, <2>1 DEF Running
  <2> QED BY <1>7, <1>8, <2>1 DEF HasAll
<1>16. BackupsKept'
  <2>1. \A q \in Backup : /\ Whole(q) <=> local[q] = Shard \/ Sent(q) = Shard
                          /\ Whole(q)' <=> local'[q] = Shard \/ Sent(q) = Shard
    BY <1>7, <1>8 DEF Whole, Sent
  <2>2. Whole(r)'
    <3>1. local[r] = Shard /\ Running(r)
      BY <1>0 DEF HasAll, Running
    <3> QED BY <3>1, <1>0, <1>4, <2>1
  <2>3. ASSUME NEW q \in Backup, q # r, stage'[q] = "ok",
               expire = 0 \/ now <= begun[q] + expire * Day
        PROVE  Whole(q)'
    <3>1. stage[q] = "ok" /\ Whole(q)
      BY <1>6, <2>3 DEF BackupsKept
    <3>2. now <= begun[q] + Day
      BY <1>0, <2>3, ClockAssumption DEF BackupTypeOK
    <3>3. local'[q] = local[q]
      BY <1>1, <1>3, <3>1, <3>2
    <3> QED BY <2>1, <3>1, <3>3
  <2> QED BY <1>0, <2>2, <2>3 DEF BackupsKept
<1> QED BY <1>11, <1>12, <1>13, <1>14, <1>15, <1>16

(* The files go once the objects are there.                                   *)
LEMMA RemoveLocalKeeps == ASSUME BInv, NEW r \in Backup, RemoveLocal(r) PROVE BInv'
<1>1. CASE UNCHANGED local /\ Proceed(r, "err")
  <2>1. Ends(r)
    BY <1>1 DEF RemoveLocal, Ends
  <2> QED BY <2>1, EndKeeps
<1>2. CASE /\ local' = [local EXCEPT ![r] = {}]
           /\ Proceed(r, IF expire # 0 THEN "expires3" ELSE "ok")
  <2> USE DEF BInv
  <2>0. /\ stage[r] = "removelocal" /\ kind = "s3" /\ Sent(r) = Shard
        /\ UNCHANGED <<kind, expire, now, begun, touched, object>>
    BY DEF RemoveLocal, Staged, HasAll
  <2>1. /\ \A q \in Backup : q # r => stage'[q] = stage[q] /\ local'[q] = local[q]
        /\ stage'[r] = IF expire # 0 THEN "expires3" ELSE "ok"
    BY <1>2 DEF Proceed, BackupTypeOK
  <2>2. stage'[r] \in {"ok", "expires3"} /\ (stage'[r] = "expires3" => expire = 1)
    BY <2>1 DEF Staged
  <2>3. \A q \in Backup : Sent(q)' = Sent(q)
    BY <2>0 DEF Sent
  <2>4. Shard' = Shard /\ Last' = Last
    BY <2>0 DEF Shard, Last
  <2>11. BackupTypeOK'
    <3>1. local' \in [Backup -> SUBSET Shard]
      BY <1>2 DEF BackupTypeOK
    <3>2. stage' \in [Backup -> {"none", "dump", "expire", "upload", "removelocal",
                                 "expires3", "ok", "err"}]
      BY <1>2 DEF BackupTypeOK, Proceed
    <3> QED BY <3>1, <3>2, <2>0, <2>4 DEF BackupTypeOK
  <2>12. Staged'
    BY <2>0, <2>1, <2>2 DEF Staged
  <2>13. Aged'
    <3>1. \A q \in Backup : Running(q)' => Running(q)
      BY <2>0, <2>1 DEF Running
    <3> QED BY <3>1, <2>0, <2>1 DEF Aged
  <2>14. Counted'
    BY <2>1, <2>2, <2>3, <2>4 DEF Counted
  <2>15. HasAll'
    BY <2>0, <2>1, <2>2, <2>3, <2>4 DEF HasAll
  <2>16. BackupsKept'
    <3>1. \A q \in Backup : /\ Whole(q) <=> local[q] = Shard \/ Sent(q) = Shard
                            /\ Whole(q)' <=> local'[q] = Shard \/ Sent(q) = Shard
      BY <2>3, <2>4 DEF Whole, Sent
    <3>2. Whole(r)' /\ \A q \in Backup : q # r => (Whole(q)' <=> Whole(q))
      BY <3>1, <2>0, <2>1
    <3> QED BY <3>2, <2>0, <2>1 DEF BackupsKept
  <2> QED BY <2>11, <2>12, <2>13, <2>14, <2>15, <2>16
<1> QED BY <1>1, <1>2 DEF RemoveLocal

(* The objects of a run that is under way, or recent, are not old either.     *)
LEMMA ExpireObjectsKeeps == ASSUME BInv, NEW r \in Backup, RemoveFromS3(r) PROVE BInv'
<1> USE DEF BInv
<1>0. /\ stage[r] = "expires3" /\ kind = "s3" /\ expire = 1 /\ Sent(r) = Shard
      /\ UNCHANGED <<kind, expire, now, begun, local, touched>>
      /\ Proceed(r, "ok") \/ Proceed(r, "err")
  BY DEF RemoveFromS3, Staged, HasAll
<1>1. PICK gone \in SUBSET {o \in object : o.at < ExpireTime(r)} : object' = object \ gone
  BY DEF RemoveFromS3
<1>2. ASSUME NEW q \in Backup, now <= begun[q] + Day
      PROVE  Sent(q)' = Sent(q)
  <2>1. ExpireTime(r) <= begun[q]
    BY <1>0, <1>2, Young
  <2>2. ExpireTime(r) \in Int /\ begun[q] \in Nat
    BY <1>0, ClockAssumption DEF BackupTypeOK, ExpireTime
  <2>3. \A o \in object : o.of = q => begun[q] <= o.at /\ o.at \in Nat
    BY DEF Aged, BackupTypeOK
  <2>4. \A o \in object : o.of = q => ~(o.at < ExpireTime(r))
    BY <2>1, <2>2, <2>3
  <2>5. \A o \in object : o.of = q => o \in object'
    BY <1>1, <2>4
  <2>6. \A o \in object' : o \in object
    BY <1>1
  <2> QED BY <2>5, <2>6 DEF Sent
<1>3. ASSUME NEW q \in Backup, Running(q) PROVE Sent(q)' = Sent(q)
  <2>1. now <= begun[q] + Day
    BY <1>3, LongestAssumption, ClockAssumption DEF Aged, BackupTypeOK
  <2> QED BY <1>2, <2>1
<1>4. \A q \in Backup : Sent(q)' \subseteq Sent(q)
  BY <1>1 DEF Sent
<1>6. /\ \A q \in Backup : q # r => stage'[q] = stage[q]
      /\ stage'[r] \in {"ok", "err"}
  BY <1>0 DEF Proceed, BackupTypeOK
<1>8. Shard' = Shard /\ Last' = Last
  BY <1>0 DEF Shard, Last
<1>11. BackupTypeOK'
  <2>1. object' \in SUBSET [of : Backup, shard : Shard, at : Nat]
    BY <1>1 DEF BackupTypeOK
  <2>2. stage' \in [Backup -> {"none", "dump", "expire", "upload", "removelocal",
                               "expires3", "ok", "err"}]
    BY <1>0 DEF BackupTypeOK, Proceed
  <2> QED BY <2>1, <2>2, <1>0, <1>8 DEF BackupTypeOK
<1>12. Staged'
  BY <1>0, <1>6 DEF Staged
<1>13. Aged'
  <2>1. \A q \in Backup : Running(q)' => Running(q)
    BY <1>0, <1>6 DEF Running
  <2>2. \A o \in object' : o \in object
    BY <1>1
  <2> QED BY <2>1, <2>2, <1>0, <1>6 DEF Aged
<1>14. Counted'
  <2>1. \A q \in Backup : stage'[q] \in {"none", "dump"} => Sent(q)' = {}
    BY <1>4, <1>6 DEF Counted
  <2>2. ASSUME NEW q \in Backup, stage'[q] = "upload"
        PROVE  Sent(q)' = Sent(q) /\ stage'[q] = stage[q]
    BY <1>3, <1>6, <2>2 DEF Running
  <2> QED BY <1>0, <1>6, <1>8, <2>1, <2>2 DEF Counted
<1>15. HasAll'
  <2>1. ASSUME NEW q \in Backup, stage'[q] \in {"expire", "upload", "removelocal", "expires3"}
        PROVE  Sent(q)' = Sent(q) /\ stage'[q] = stage[q]
    BY <1>3, <1>6, <2>1 DEF Running
  <2> QED BY <1>0, <1>8, <2>1 DEF HasAll
<1>16. BackupsKept'
  <2>1. \A q \in Backup : /\ Whole(q) <=> local[q] = Shard \/ Sent(q) = Shard
                          /\ Whole(q)' <=> local[q] = Shard \/ Sent(q)' = Shard
    BY <1>0, <1>8 DEF Whole, Sent
  <2>2. Whole(r)'
    <3>1. Running(r)
      BY <1>0 DEF Running
    <3> QED BY <3>1, <1>0, <1>3, <2>1
  <2>3. ASSUME NEW q \in Backup, q # r, stage'[q] = "ok", now <= begun[q] + expire * Day
        PROVE  Whole(q)'
    <3>1. stage[q] = "ok" /\ Whole(q)
      BY <1>6, <2>3 DEF BackupsKept
    <3>2. now <= begun[q] + Day
      BY <1>0, <2>3, ClockAssumption DEF BackupTypeOK
    <3> QED BY <1>2, <2>1, <3>1, <3>2
  <2> QED BY <1>0, <2>2, <2>3 DEF BackupsKept
<1> QED BY <1>11, <1>12, <1>13, <1>14, <1>15, <1>16

(* A file more, and the last one.                                             *)
LEMMA DumpKeeps == ASSUME BInv, NEW r \in Backup, Dump(r) PROVE BInv'
<1>1. CASE UNCHANGED local /\ Proceed(r, "err")
  <2>1. Ends(r)
    BY <1>1 DEF Dump, Ends
  <2> QED BY <2>1, EndKeeps
<1>2. CASE /\ local' = [local EXCEPT ![r] = @ \cup {NextShard(@)}]
           /\ IF Shard \subseteq local'[r] THEN Proceed(r, AfterDump(r)) ELSE UNCHANGED stage
  <2> USE DEF BInv
  <2>0. /\ stage[r] = "dump" /\ touched' = [touched EXCEPT ![r] = now]
        /\ UNCHANGED <<kind, expire, now, begun, object>>
    BY DEF Dump
  <2>1. PICK k \in 0..(Last - 1) : local[r] = 1..k
    BY <2>0 DEF Counted
  <2>2. Last \in Nat \ {0} /\ Shard = 1..Last /\ Shard' = Shard /\ Last' = Last
    BY <2>0, ClockAssumption DEF Last, Shard
  <2>3. k \in Nat /\ k + 1 <= Last
    BY <2>2
  <2>4. local'[r] = 1..(k + 1)
    <3>1. local'[r] = local[r] \cup {NextShard(local[r])}
      BY <1>2 DEF BackupTypeOK
    <3> QED BY <3>1, <2>1, <2>3, Following
  <2>5. \A q \in Backup : q # r => local'[q] = local[q] /\ stage'[q] = stage[q]
                                   /\ touched'[q] = touched[q]
    BY <1>2, <2>0 DEF BackupTypeOK, Proceed
  <2>6. /\ Shard \subseteq local'[r] <=> k + 1 = Last
        /\ local[r] \subseteq local'[r] /\ local'[r] \subseteq Shard
    BY <2>1, <2>2, <2>3, <2>4
  <2>7. AfterDump(r) \in {"upload", "expire", "ok"}
    BY DEF AfterDump
  <2>8. \/ k + 1 # Last /\ stage' = stage
        \/ k + 1 = Last /\ stage' = [stage EXCEPT ![r] = AfterDump(r)] /\ local'[r] = Shard
    BY <1>2, <2>2, <2>4, <2>6 DEF Proceed
  <2>9. \A q \in Backup : Sent(q)' = Sent(q)
    BY <2>0 DEF Sent
  <2>10. Sent(r) = {}
    BY <2>0 DEF Counted
  <2>11. BackupTypeOK'
    <3>1. local' \in [Backup -> SUBSET Shard]
      BY <1>2, <2>6, <2>5 DEF BackupTypeOK
    <3>2. stage' \in [Backup -> {"none", "dump", "expire", "upload", "removelocal",
                                 "expires3", "ok", "err"}]
      BY <2>7, <2>8 DEF BackupTypeOK
    <3> QED BY <3>1, <3>2, <2>0, <2>2 DEF BackupTypeOK
  <2>12. Staged'
    <3>1. stage'[r] \in {"dump", AfterDump(r)}
      BY <2>0, <2>8 DEF BackupTypeOK
    <3>2. /\ AfterDump(r) = "upload" => kind = "s3"
          /\ AfterDump(r) = "expire" => kind # "s3" /\ expire = 1
      BY DEF AfterDump, Staged, BackupTypeOK
    <3> QED BY <3>1, <3>2, <2>0, <2>5, <2>7 DEF Staged
  <2>13. Aged'
    <3>1. Running(r)
      BY <2>0 DEF Running
    <3>2. \A q \in Backup : Running(q)' => Running(q)
      BY <3>1, <2>5 DEF Running
    <3>3. /\ touched'[r] = now /\ begun[r] <= now
          /\ \A q \in Backup : stage'[q] # "none" => stage[q] # "none"
      BY <2>0, <2>5 DEF BackupTypeOK, Aged
    <3> QED BY <3>2, <3>3, <2>0, <2>5 DEF Aged
  <2>14. Counted'
    <3>1. \A q \in Backup \ {r} :
            stage'[q] = stage[q] /\ local'[q] = local[q] /\ Sent(q)' = Sent(q)
      BY <2>5, <2>9
    <3>2. stage'[r] = "dump" => k + 1 \in 0..(Last - 1) /\ local'[r] = 1..(k + 1)
      BY <2>2, <2>3, <2>4, <2>7, <2>8 DEF BackupTypeOK
    <3>3. stage'[r] # "none" /\ Sent(r)' = {} /\ Sent(r)' = 1..0 /\ 0 \in 0..(Last - 1)
      BY <2>0, <2>2, <2>7, <2>8, <2>9, <2>10 DEF BackupTypeOK
    <3> QED BY <3>1, <3>2, <3>3, <2>2 DEF Counted
  <2>15. HasAll'
    <3>1. stage'[r] \notin {"removelocal", "expires3"}
      BY <2>0, <2>7, <2>8 DEF BackupTypeOK
    <3>2. stage'[r] \in {"expire", "upload"} => local'[r] = Shard
      BY <2>0, <2>8 DEF BackupTypeOK
    <3> QED BY <3>1, <3>2, <2>2, <2>5, <2>9 DEF HasAll
  <2>16. BackupsKept'
    <3>1. \A q \in Backup : Whole(q)' <=> local'[q] = Shard \/ Sent(q) = Shard
      BY <2>2, <2>9 DEF Whole, Sent
    <3>2. \A q \in Backup : Whole(q) <=> local[q] = Shard \/ Sent(q) = Shard
      BY DEF Whole, Sent
    <3>3. \A q \in Backup \ {r} : Whole(q) => Whole(q)'
      BY <3>1, <3>2, <2>5
    <3>4. Whole(r) => Whole(r)'
      <4>1. local[r] = Shard => local'[r] = Shard
        BY <2>6
      <4> QED BY <3>1, <3>2, <4>1
    <3>5. stage'[r] = "ok" => Whole(r)'
      BY <3>1, <2>0, <2>8
    <3>6. \A q \in Backup \ {r} : stage'[q] = "ok" => stage[q] = "ok"
      BY <2>5
    <3> QED BY <3>3, <3>4, <3>5, <3>6, <2>0 DEF BackupsKept
  <2> QED BY <2>11, <2>12, <2>13, <2>14, <2>15, <2>16
<1> QED BY <1>1, <1>2 DEF Dump

(* An object more, and the last one.                                          *)
LEMMA UploadKeeps == ASSUME BInv, NEW r \in Backup, BackupToS3(r) PROVE BInv'
<1>1. CASE UNCHANGED object /\ Proceed(r, "err")
  <2>1. Ends(r)
    BY <1>1 DEF BackupToS3, Ends
  <2> QED BY <2>1, EndKeeps
<1>2. CASE /\ object' = object \cup {[of |-> r, shard |-> NextShard(Sent(r)), at |-> now]}
           /\ IF NextShard(Sent(r)) = Shards THEN Proceed(r, "removelocal")
                                             ELSE UNCHANGED stage
  <2> USE DEF BInv
  <2>0. stage[r] = "upload" /\ UNCHANGED <<kind, expire, now, begun, local, touched>>
    BY DEF BackupToS3
  <2>1. PICK k \in 0..(Last - 1) : Sent(r) = 1..k
    BY <2>0 DEF Counted
  <2>2. /\ kind = "s3" /\ Last = Shards /\ Shards \in Nat \ {0}
        /\ Shard = 1..Last /\ Shard' = Shard /\ Last' = Last
    BY <2>0, ClockAssumption DEF Last, Shard, Staged
  <2>3. k \in Nat /\ k + 1 <= Last /\ k + 1 \in Shard
    BY <2>2
  <2>4. NextShard(Sent(r)) = k + 1
    BY <2>1, <2>3, Following
  <2>5. Sent(r)' = 1..(k + 1)
    <3>0. object' = object \cup {[of |-> r, shard |-> k + 1, at |-> now]}
      BY <1>2, <2>4
    <3>1. Sent(r)' = Sent(r) \cup {k + 1}
      <4> DEFINE new == [of |-> r, shard |-> k + 1, at |-> now]
      <4>1. new \in object' /\ new.of = r /\ new.shard = k + 1
        BY <3>0
      <4>2. \A o \in object' : o \in object \/ o = new
        BY <3>0
      <4>3. \A o \in object : o \in object'
        BY <3>0
      <4> HIDE DEF new
      <4>4. Sent(r)' \subseteq Sent(r) \cup {k + 1}
        BY <4>1, <4>2 DEF Sent
      <4>5. Sent(r) \cup {k + 1} \subseteq Sent(r)'
        BY <4>1, <4>3 DEF Sent
      <4> QED BY <4>4, <4>5
    <3> QED BY <3>1, <2>1, <2>3, Following
  <2>6. \A q \in Backup : q # r => Sent(q)' = Sent(q)
    BY <1>2 DEF Sent
  <2>7. \/ k + 1 # Last /\ stage' = stage
        \/ k + 1 = Last /\ stage' = [stage EXCEPT ![r] = "removelocal"] /\ Sent(r)' = Shard
    BY <1>2, <2>2, <2>4, <2>5 DEF Proceed
  <2>8. \A q \in Backup : q # r => stage'[q] = stage[q]
    BY <2>7 DEF BackupTypeOK
  <2>9. stage'[r] \in {"upload", "removelocal"} /\ local[r] = Shard
    BY <2>0, <2>7 DEF BackupTypeOK, HasAll
  <2>11. BackupTypeOK'
    <3>1. object' \in SUBSET [of : Backup, shard : Shard, at : Nat]
      BY <1>2, <2>3, <2>4 DEF BackupTypeOK
    <3>2. stage' \in [Backup -> {"none", "dump", "expire", "upload", "removelocal",
                                 "expires3", "ok", "err"}]
      BY <2>7 DEF BackupTypeOK
    <3> QED BY <3>1, <3>2, <2>0, <2>2 DEF BackupTypeOK
  <2>12. Staged'
    BY <2>0, <2>2, <2>8, <2>9 DEF Staged
  <2>13. Aged'
    <3>1. \A q \in Backup : Running(q)' => Running(q)
      BY <2>0, <2>8 DEF Running
    <3>2. \A q \in Backup : stage'[q] # "none" => stage[q] # "none"
      BY <2>0, <2>8
    <3>3. \A o \in object' : o \in object \/ (o.of = r /\ o.at = now)
      <4>1. object' = object \cup {[of |-> r, shard |-> k + 1, at |-> now]}
        BY <1>2, <2>4
      <4> QED BY <4>1
    <3>4. begun[r] <= now
      BY DEF Aged
    <3> QED BY <3>1, <3>2, <3>3, <3>4, <2>0 DEF Aged
  <2>14. Counted'
    <3>1. \A q \in Backup \ {r} :
            stage'[q] = stage[q] /\ local'[q] = local[q] /\ Sent(q)' = Sent(q)
      BY <2>0, <2>6, <2>8
    <3>2. stage'[r] = "upload" => k + 1 \in 0..(Last - 1) /\ Sent(r)' = 1..(k + 1)
      BY <2>2, <2>3, <2>5, <2>7 DEF BackupTypeOK
    <3> QED BY <3>1, <3>2, <2>2, <2>9 DEF Counted
  <2>15. HasAll'
    <3>1. stage'[r] = "removelocal" => Sent(r)' = Shard
      BY <2>0, <2>7
    <3> QED BY <3>1, <2>0, <2>2, <2>6, <2>8, <2>9 DEF HasAll
  <2>16. BackupsKept'
    <3>1. \A q \in Backup : Whole(q)' <=> local[q] = Shard \/ Sent(q)' = Shard
      BY <2>0, <2>2 DEF Whole, Sent
    <3>2. \A q \in Backup : Whole(q) <=> local[q] = Shard \/ Sent(q) = Shard
      BY DEF Whole, Sent
    <3>3. \A q \in Backup : Whole(q) => Whole(q)'
      BY <3>1, <3>2, <2>6, <2>9
    <3>4. \A q \in Backup : stage'[q] = "ok" => stage[q] = "ok"
      BY <2>8, <2>9
    <3> QED BY <3>3, <3>4, <2>0 DEF BackupsKept
  <2> QED BY <2>11, <2>12, <2>13, <2>14, <2>15, <2>16
<1> QED BY <1>1, <1>2 DEF BackupToS3, Sent

LEMMA TickKeeps == ASSUME BInv, Tick PROVE BInv'
<1> USE DEF BInv, Tick
<1>1. BackupTypeOK'
  BY DEF BackupTypeOK, Shard
<1>2. Staged'
  BY DEF BackupTypeOK, Staged
<1>3. Aged'
  BY ClockAssumption DEF BackupTypeOK, Aged, Running
<1>4. Counted'
  BY DEF BackupTypeOK, Counted, Sent, Last
<1>5. HasAll'
  BY DEF BackupTypeOK, HasAll, Sent, Shard
<1>6. BackupsKept'
  <2>1. \A q \in Backup : Whole(q)' <=> Whole(q)
    BY DEF Whole, Shard
  <2>2. ASSUME NEW q \in Backup, now + 1 <= begun[q] + expire * Day
        PROVE  now <= begun[q] + expire * Day
    BY <2>2, ClockAssumption DEF BackupTypeOK, Staged
  <2> QED BY <2>1, <2>2 DEF BackupsKept
<1> QED BY <1>1, <1>2, <1>3, <1>4, <1>5, <1>6

LEMMA BackupInitially == BackupInit => BInv
<1> SUFFICES ASSUME BackupInit PROVE BInv
  OBVIOUS
<1> USE DEF BackupInit
<1>1. BackupTypeOK
  BY DEF BackupTypeOK
<1>2. Staged
  BY DEF Staged
<1>3. Aged
  BY DEF Aged, Running
<1>4. Counted
  BY DEF Counted, Sent
<1>5. HasAll
  BY DEF HasAll
<1>6. BackupsKept
  BY DEF BackupsKept
<1> QED BY <1>1, <1>2, <1>3, <1>4, <1>5, <1>6 DEF BInv

LEMMA BackupStepKeeps == BInv /\ [BackupNext]_backupVars => BInv'
<1> SUFFICES ASSUME BInv, [BackupNext]_backupVars PROVE BInv'
  OBVIOUS
<1>1. CASE UNCHANGED backupVars
  BY <1>1 DEF backupVars, BInv, BackupTypeOK, Staged, Aged, Counted, HasAll, BackupsKept,
              Running, Sent, Last, Shard, Whole
<1>2. ASSUME NEW r \in Backup, BackupRuns(r) PROVE BInv'
  BY <1>2, BeginBackupKeeps, DumpKeeps, ExpireLocalKeeps, NothingToRemoveKeeps, UploadKeeps,
     RemoveLocalKeeps, ExpireObjectsKeeps DEF BackupRuns
<1>3. ASSUME NEW r \in Backup, Killed(r) PROVE BInv'
  BY <1>3, KilledKeeps
<1>4. CASE Tick
  BY <1>4, TickKeeps
<1> QED BY <1>1, <1>2, <1>3, <1>4 DEF BackupNext

(* Backups and their removal in any interleaving, failing and killed anywhere: *)
(* no file or object of a run that is under way, or that was reported as made  *)
(* within the days asked for, is removed.                                     *)
THEOREM BackupInvariance == BackupSpec => []BInv
  BY BackupInitially, BackupStepKeeps, PTL DEF BackupSpec

LEMMA BackupsByInvariant == BInv => BackupsKept
  BY DEF BInv

-------------------------------------------------------------------------------
(* The composition. *)

LEMMA MaintInitially == Init => TextInit /\ JoinInit /\ BackupInit
  BY DEF Init, TextIdle, BackupIdle

LEMMA MaintStep ==
  [Next]_maintVars => [TextNext]_textVars /\ [JoinNext]_joinVars /\ [BackupNext]_backupVars
  BY DEF Next, Joining, Editing, BackingUp, maintVars

(* Every behaviour of the composition is, seen from the files, one of          *)
(* ConfigText; from the replica set, one of ReplicaSetJoin; from the backups,  *)
(* one of BackupRun.                                                           *)
THEOREM PartsInComposition == Spec => TextSpec /\ JoinSpec /\ BackupSpec
  BY MaintInitially, MaintStep, PTL DEF Spec, TextSpec, JoinSpec, BackupSpec

(* UserGrant, AutofailoverGrantuser, LinuxAdd, LinuxDel, registering and       *)
(* deregistering, any number of them at once, on any names: what was reported  *)
(* stays in the file and with the server, and so do the lines of others that   *)
(* the commands are able to keep (Kept: a grant takes comments away and cuts   *)
(* longer entries); trust ends and removed targets are asked no more, unless   *)
(* an edit was clobbered.                                                      *)
THEOREM RecordsAlwaysKept == Spec => []RecordsKept
  BY PartsInComposition, TextInvariance, KeptByInvariant, PTL

(* Any number of machines found or join a replica set at once, lose answers,   *)
(* give up and undo: every member has an _id and a host of its own, and a node *)
(* whose installation was reported as done is a member.                        *)
THEOREM JoinsAlwaysMembers == Spec => []JoinsAreMembers
  BY PartsInComposition, JoinInvariance, MembersByInvariant, PTL

(* Any number of backups of any number of shards, one starting before the      *)
(* other has ended: what was reported as made is there for the days asked for. *)
THEOREM BackupsAlwaysKept == Spec => []BackupsKept
  BY PartsInComposition, BackupInvariance, BackupsByInvariant, PTL

AreaOK == area \in {"join", "text", "backup"}

LEMMA AreaTyped == Spec => []AreaOK
<1>1. Init => AreaOK
  BY DEF Init, AreaOK
<1>2. AreaOK /\ [Next]_maintVars => AreaOK'
  BY DEF Next, Joining, Editing, BackingUp, maintVars, AreaOK
<1> QED BY <1>1, <1>2, PTL DEF Spec

(* All three parts keep to their types. *)
THEOREM MaintTypeCorrect == Spec => []MaintTypeOK
<1>1. IInv /\ JInv /\ BInv /\ AreaOK => MaintTypeOK
  BY DEF IInv, JInv, BInv, AreaOK, MaintTypeOK
<1> QED BY <1>1, AreaTyped, PartsInComposition, TextInvariance, JoinInvariance,
           BackupInvariance, PTL
================================================================================
