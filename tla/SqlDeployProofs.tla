---- MODULE SqlDeployProofs ----
(***************************************************************************)
(* Proofs about the deployments of MariaDB, Galera, PostgreSQL and         *)
(* pg_auto_failover and the add-slave commands, for any files, machines    *)
(* and number of runs.  What is left of a list of nodes is a tail of it,   *)
(* so that its length says where in the list the loop is.                  *)
(***************************************************************************)
EXTENDS SqlDeploy, Integers, TLAPS, SequenceTheorems, FiniteSetTheorems

Joiners   == Joining!Joiners
Expansion == file.product = "pgauto" /\ file.fresh # <<>>
Last      == Len(file.nodes)

(* The lists of DropTmpDir and of the rollback or removal. *)
DropList == IF file.product = "pgauto" THEN PgAuto!Drops ELSE Nodes
RollList == IF file.product = "pgauto"
              THEN IF op = "remove" THEN PgAuto!Removed ELSE PgAuto!Roll
            ELSE IF file.product \in Joiners THEN <<>> ELSE Nodes

(* t is a tail of the list L, and not empty; Gone counts what it has lost. *)
Gone(t, L) == Len(L) - Len(t)
TailOf(t, L) ==
  /\ t \in Seq(Nat) /\ Len(t) \in 1..Len(L)
  /\ \A j \in 1..Len(t) : t[j] = L[Gone(t, L) + j]

-------------------------------------------------------------------------------
(* Files and lists. *)

LEMMA FileTyped ==
  ASSUME file \in Files
  PROVE  /\ file.nodes \in Seq(Slot) /\ Last \in Nat \ {0}
         /\ file.fresh \in Seq(Slot) /\ Len(file.fresh) \in Nat
         /\ Places \in Seq(Slot) /\ Len(Places) = Last + Len(file.fresh)
         /\ DOMAIN Places = 1..Len(Places)
         /\ \A n \in DOMAIN Places : At(n) \in Slot /\ HostOf(n) \in Host
<1>1. /\ file.nodes \in Seq(Slot) /\ file.nodes # <<>> /\ file.fresh \in Seq(Slot)
  BY FilesAssumption
<1>2. Last \in Nat \ {0} /\ Len(file.fresh) \in Nat
  BY <1>1, EmptySeq, LenProperties DEF Last
<1>3. /\ Places \in Seq(Slot) /\ Len(Places) = Last + Len(file.fresh)
  BY <1>1, ConcatProperties DEF Places, Last
<1>4. DOMAIN Places = 1..Len(Places)
  BY <1>3, LenProperties
<1>5. ASSUME NEW n \in DOMAIN Places PROVE At(n) \in Slot /\ HostOf(n) \in Host
  <2>1. At(n) \in Slot
    BY <1>3, <1>4, <1>5, ElementOfSeq DEF At
  <2> QED
    BY <2>1 DEF HostOf, Slot
<1> QED
  BY <1>1, <1>2, <1>3, <1>4, <1>5

LEMMA NodesList ==
  ASSUME file \in Files
  PROVE  /\ Nodes \in Seq(Nat) /\ Len(Nodes) = Last
         /\ \A i \in 1..Last : Nodes[i] = i
         /\ Slaves \in Seq(Nat) /\ Len(Slaves) = Last - 1
         /\ \A i \in 1..(Last - 1) : Slaves[i] = i + 1
<1>1. Last \in Nat \ {0}
  BY FileTyped
<1>2. /\ Nodes \in Seq(Nat) /\ Len(Nodes) = Last
      /\ \A i \in 1..Last : Nodes[i] = i
  BY <1>1 DEF Nodes, Last
<1>3. Nodes # <<>>
  BY <1>1, <1>2, EmptySeq
<1>4. /\ Slaves \in Seq(Nat) /\ Len(Slaves) = Last - 1
      /\ \A i \in 1..Len(Slaves) : Slaves[i] = Nodes[i + 1]
  BY <1>1, <1>2, <1>3, HeadTailProperties DEF Slaves
<1> QED
  BY <1>1, <1>2, <1>4

(* The tail of a tail. *)
LEMMA TailShrinks ==
  ASSUME NEW L \in Seq(Nat), NEW t, TailOf(t, L)
  PROVE  /\ t # <<>> /\ Head(t) = L[Gone(t, L) + 1]
         /\ Gone(t, L) + 1 \in 1..Len(L)
         /\ Len(t) > 1 => /\ TailOf(Tail(t), L) /\ Tail(t) # <<>>
                          /\ Gone(Tail(t), L) = Gone(t, L) + 1
         /\ ~(Len(t) > 1) => Gone(t, L) + 1 = Len(L)
<1>1. t \in Seq(Nat) /\ Len(t) \in 1..Len(L) /\ Len(L) \in Nat
  BY LenProperties DEF TailOf
<1>2. t # <<>> /\ Head(t) = t[1] /\ Tail(t) \in Seq(Nat) /\ Len(Tail(t)) = Len(t) - 1
      /\ \A j \in 1..Len(Tail(t)) : Tail(t)[j] = t[j + 1]
  <2>1. t # <<>>
    BY <1>1, EmptySeq
  <2> QED
    BY <1>1, <2>1, HeadTailProperties
<1>3. Head(t) = L[Gone(t, L) + 1] /\ Gone(t, L) + 1 \in 1..Len(L)
  BY <1>1, <1>2 DEF TailOf, Gone
<1>4. ASSUME Len(t) > 1
      PROVE  TailOf(Tail(t), L) /\ Tail(t) # <<>> /\ Gone(Tail(t), L) = Gone(t, L) + 1
  <2>1. Len(Tail(t)) \in 1..Len(L) /\ Gone(Tail(t), L) = Gone(t, L) + 1
    BY <1>1, <1>2, <1>4 DEF Gone
  <2>2. Tail(t) # <<>>
    <3>1. Len(Tail(t)) # 0
      BY <1>1, <1>2, <1>4
    <3> QED
      BY <1>2, <3>1, EmptySeq
  <2>3. ASSUME NEW j \in 1..Len(Tail(t)) PROVE Tail(t)[j] = L[Gone(Tail(t), L) + j]
    <3>1. j + 1 \in 1..Len(t) /\ Gone(t, L) + (j + 1) = Gone(Tail(t), L) + j
      BY <1>1, <1>2, <2>1, <2>3 DEF Gone
    <3>2. Tail(t)[j] = t[j + 1] /\ t[j + 1] = L[Gone(t, L) + (j + 1)]
      BY <1>2, <2>3, <3>1 DEF TailOf
    <3> QED
      BY <3>1, <3>2
  <2> QED
    BY <1>2, <2>1, <2>2, <2>3 DEF TailOf
<1>5. ~(Len(t) > 1) => Gone(t, L) + 1 = Len(L)
  BY <1>1 DEF Gone
<1> QED
  BY <1>2, <1>3, <1>4, <1>5

LEMMA WholeIsTail ==
  ASSUME NEW L \in Seq(Nat), L # <<>>
  PROVE  TailOf(L, L) /\ Gone(L, L) = 0
<1>1. Len(L) \in Nat \ {0}
  BY EmptySeq, LenProperties
<1> QED
  BY <1>1 DEF TailOf, Gone

LEMMA SeqOfNats ==
  ASSUME NEW D, D \subseteq Nat, NEW s \in Seq(D)
  PROVE  /\ s \in Seq(Nat) /\ Len(s) \in Nat
         /\ \A i \in 1..Len(s) : s[i] \in D
<1>1. Len(s) \in Nat /\ s \in [1..Len(s) -> D]
  BY LenProperties, SeqDef
<1>2. s \in [1..Len(s) -> Nat]
  BY <1>1
<1> QED
  BY <1>1, <1>2, IsASeq

LEMMA TailTyped ==
  ASSUME NEW D, NEW s \in Seq(D), s # <<>>
  PROVE  /\ Tail(s) \in Seq(D) /\ Len(Tail(s)) = Len(s) - 1
         /\ \A i \in 1..Len(Tail(s)) : Tail(s)[i] = s[i + 1]
  BY HeadTailProperties

(* The lists of a run stay within its file; n is in a list. *)
Within(L) == \A i \in 1..Len(L) : L[i] \in DOMAIN Places
Visits(L, n) == \E i \in 1..Len(L) : L[i] = n

(* Two lists, one after the other. *)
LEMMA Joined ==
  ASSUME NEW D, NEW s \in Seq(D), NEW t \in Seq(D), NEW u, u = s \o t
  PROVE  /\ u \in Seq(D) /\ Len(u) = Len(s) + Len(t)
         /\ \A i \in 1..Len(s) : u[i] = s[i]
         /\ \A i \in 1..Len(t) : u[Len(s) + i] = t[i]
         /\ \A n : Visits(u, n) <=> Visits(s, n) \/ Visits(t, n)
<1>1. /\ u \in Seq(D) /\ Len(u) = Len(s) + Len(t)
      /\ \A i \in 1..(Len(s) + Len(t)) :
           u[i] = IF i <= Len(s) THEN s[i] ELSE t[i - Len(s)]
  BY ConcatProperties
<1>2. Len(s) \in Nat /\ Len(t) \in Nat
  BY LenProperties
<1>3. ASSUME NEW i \in 1..Len(s) PROVE u[i] = s[i] /\ i \in 1..Len(u)
  <2>1. i \in 1..(Len(s) + Len(t)) /\ i <= Len(s)
    BY <1>2
  <2> QED
    BY <1>1, <2>1
<1>4. ASSUME NEW i \in 1..Len(t) PROVE u[Len(s) + i] = t[i] /\ Len(s) + i \in 1..Len(u)
  <2>1. /\ Len(s) + i \in 1..(Len(s) + Len(t)) /\ ~(Len(s) + i <= Len(s))
        /\ (Len(s) + i) - Len(s) = i
    BY <1>2
  <2> QED
    BY <1>1, <2>1
<1>5. ASSUME NEW i \in 1..Len(u) PROVE Visits(s, u[i]) \/ Visits(t, u[i])
  <2>1. CASE i <= Len(s)
    <3>1. i \in 1..Len(s)
      BY <1>2, <2>1
    <3> QED
      BY <1>3, <3>1 DEF Visits
  <2>2. CASE ~(i <= Len(s))
    <3>1. i - Len(s) \in 1..Len(t) /\ Len(s) + (i - Len(s)) = i
      BY <1>1, <1>2, <2>2
    <3>2. u[i] = t[i - Len(s)]
      BY <1>4, <3>1
    <3> QED
      BY <3>1, <3>2 DEF Visits
  <2> QED
    BY <2>1, <2>2
<1>6. ASSUME NEW n, Visits(s, n) \/ Visits(t, n) PROVE Visits(u, n)
  BY <1>3, <1>4, <1>6 DEF Visits
<1>7. ASSUME NEW n, Visits(u, n) PROVE Visits(s, n) \/ Visits(t, n)
  BY <1>5, <1>7 DEF Visits
<1> QED
  BY <1>1, <1>3, <1>4, <1>6, <1>7

(* The lists of pg_auto_failover: the data nodes, the new ones but the first. *)
LEMMA PgLists ==
  ASSUME file \in Files, file.product = "pgauto"
  PROVE  /\ Last >= 2
         /\ PgAuto!Monitor \in Seq(DOMAIN Places) /\ PgAuto!Master \in Seq(DOMAIN Places)
         /\ Len(PgAuto!Monitor) = 1 /\ Len(PgAuto!Master) = 1
         /\ PgAuto!Monitor[1] = 1 /\ PgAuto!Master[1] = 2
         /\ PgAuto!PGslave \in Seq(DOMAIN Places) /\ Len(PgAuto!PGslave) = Last - 2
         /\ \A i \in 1..(Last - 2) : PgAuto!PGslave[i] = i + 2
         /\ PgAuto!NewPGslave \in Seq(DOMAIN Places)
         /\ PgAuto!NewPGdata <=> file.fresh # <<>>
<1>1. Last \in Nat /\ Last >= 2 /\ Len(file.fresh) \in Nat /\ file.fresh \in Seq(Slot)
      /\ DOMAIN Places = 1..(Last + Len(file.fresh))
  BY FileTyped, KindsAssumption DEF Last
<1>2. PgAuto!NewPGdata <=> file.fresh # <<>>
  BY DEF PgAuto!NewPGdata
<1>3. /\ PgAuto!Monitor = <<1>> /\ PgAuto!Master = <<2>>
  BY DEF PgAuto!Monitor, PgAuto!Master
<1>4. /\ PgAuto!PGslave = Tail(Slaves)
  BY DEF PgAuto!PGslave, PgAuto!Slaves, PgAuto!Nodes, Slaves, Nodes
<1>5. /\ Slaves \in Seq(Nat) /\ Len(Slaves) = Last - 1
      /\ \A i \in 1..(Last - 1) : Slaves[i] = i + 1
  BY NodesList
<1>6. Slaves # <<>>
  BY <1>1, <1>5, EmptySeq
<1>7. /\ PgAuto!PGslave \in Seq(Nat) /\ Len(PgAuto!PGslave) = Last - 2
      /\ \A i \in 1..(Last - 2) : PgAuto!PGslave[i] = i + 2
  <2>1. /\ Tail(Slaves) \in Seq(Nat) /\ Len(Tail(Slaves)) = Len(Slaves) - 1
        /\ \A i \in 1..Len(Tail(Slaves)) : Tail(Slaves)[i] = Slaves[i + 1]
    BY <1>5, <1>6, TailTyped
  <2>2. Len(Tail(Slaves)) = Last - 2
    BY <1>1, <1>5, <2>1
  <2>3. ASSUME NEW i \in 1..(Last - 2) PROVE Tail(Slaves)[i] = i + 2
    <3>1. i + 1 \in 1..(Last - 1) /\ i \in 1..Len(Tail(Slaves))
      BY <1>1, <2>2
    <3> QED
      BY <1>5, <2>1, <3>1
  <2> QED
    BY <1>4, <2>1, <2>2, <2>3
<1>8. PgAuto!PGslave \in Seq(DOMAIN Places)
  <2>1. \A i \in 1..(Last - 2) : PgAuto!PGslave[i] \in DOMAIN Places
    BY <1>1, <1>7
  <2> QED
    BY <1>7, <2>1, LenProperties, IsASeq
<1>9. PgAuto!NewPGslave \in Seq(DOMAIN Places)
  <2>1. CASE file.fresh = <<>>
    BY <1>2, <2>1 DEF PgAuto!NewPGslave
  <2>2. CASE file.fresh # <<>>
    <3>1. PgAuto!NewPGslave = Tail(Fresh)
      BY <1>2, <2>2 DEF PgAuto!NewPGslave, PgAuto!Fresh, Fresh
    <3>2. Len(file.fresh) # 0
      BY <1>1, <2>2, EmptySeq
    <3>3. Fresh \in [1..Len(file.fresh) -> DOMAIN Places]
      <4>1. \A i \in 1..Len(file.fresh) : Last + i \in DOMAIN Places
        BY <1>1
      <4> QED
        BY <4>1 DEF Fresh, Last
    <3>4. Fresh \in Seq(DOMAIN Places) /\ Len(Fresh) = Len(file.fresh)
      BY <1>1, <3>3, IsASeq, LenProperties
    <3>5. Fresh # <<>>
      BY <3>2, <3>4, EmptySeq
    <3> QED
      BY <3>1, <3>4, <3>5, TailTyped
  <2> QED
    BY <2>1, <2>2
<1>10. <<1>> \in Seq(DOMAIN Places) /\ <<2>> \in Seq(DOMAIN Places)
  BY <1>1
<1> QED
  BY <1>1, <1>2, <1>3, <1>7, <1>8, <1>9, <1>10

LEMMA WithinSeq ==
  ASSUME file \in Files, NEW L \in Seq(DOMAIN Places)
  PROVE  L \in Seq(Nat) /\ Len(L) \in Nat /\ Within(L)
<1>1. DOMAIN Places \subseteq Nat
  BY FileTyped
<1> QED
  BY <1>1, SeqOfNats DEF Within

(* The lists of pg_auto_failover, put together. *)
LEMMA PgForward ==
  ASSUME file \in Files, file.product = "pgauto"
  PROVE  /\ PgAuto!Forward \in Seq(DOMAIN Places) /\ PgAuto!Forward # <<>>
         /\ \A n \in 2..Last : Visits(PgAuto!Forward, n)
         /\ ~Expansion => PgAuto!Forward = Nodes
         /\ Expansion => \A n : Visits(PgAuto!NewPGslave, n) => Visits(PgAuto!Forward, n)
<1> DEFINE First == IF PgAuto!NewPGdata THEN PgAuto!NewPGslave ELSE PgAuto!Monitor
           Front == First \o PgAuto!Master
<1>1. First \in Seq(DOMAIN Places) /\ Len(First) \in Nat
  BY PgLists, WithinSeq
<1>2. PgAuto!Forward = Front \o PgAuto!PGslave
  BY DEF PgAuto!Forward
<1>3. ~Expansion => First = PgAuto!Monitor
  BY PgLists DEF Expansion
<1>4. Expansion => First = PgAuto!NewPGslave
  BY PgLists DEF Expansion
<1> HIDE DEF First
<1>5. /\ Front \in Seq(DOMAIN Places) /\ Len(Front) = Len(First) + Len(PgAuto!Master)
      /\ \A i \in 1..Len(First) : Front[i] = First[i]
      /\ \A i \in 1..Len(PgAuto!Master) : Front[Len(First) + i] = PgAuto!Master[i]
      /\ \A n : Visits(Front, n) <=> Visits(First, n) \/ Visits(PgAuto!Master, n)
  <2>1. PgAuto!Master \in Seq(DOMAIN Places)
    BY PgLists
  <2> QED
    BY <1>1, <2>1, Joined
<1> HIDE DEF Front
<1>6. /\ PgAuto!Forward \in Seq(DOMAIN Places)
      /\ Len(PgAuto!Forward) = Len(Front) + Len(PgAuto!PGslave)
      /\ \A i \in 1..Len(Front) : PgAuto!Forward[i] = Front[i]
      /\ \A i \in 1..Len(PgAuto!PGslave) : PgAuto!Forward[Len(Front) + i] = PgAuto!PGslave[i]
      /\ \A n : Visits(PgAuto!Forward, n) <=> Visits(Front, n) \/ Visits(PgAuto!PGslave, n)
  <2>1. PgAuto!PGslave \in Seq(DOMAIN Places)
    BY PgLists
  <2>2. Front \in Seq(DOMAIN Places)
    BY <1>5
  <2>3. PgAuto!Forward \in Seq(DOMAIN Places)
    BY <1>2, <2>1, <2>2, Joined
  <2>4. Len(PgAuto!Forward) = Len(Front) + Len(PgAuto!PGslave)
    BY <1>2, <2>1, <2>2, Joined
  <2>5. \A i \in 1..Len(Front) : PgAuto!Forward[i] = Front[i]
    BY <1>2, <2>1, <2>2, Joined
  <2>6. \A i \in 1..Len(PgAuto!PGslave) : PgAuto!Forward[Len(Front) + i] = PgAuto!PGslave[i]
    BY <1>2, <2>1, <2>2, Joined
  <2>7. \A n : Visits(PgAuto!Forward, n) <=> Visits(Front, n) \/ Visits(PgAuto!PGslave, n)
    BY <1>2, <2>1, <2>2, Joined
  <2> QED
    BY <2>3, <2>4, <2>5, <2>6, <2>7
<1>7. Last \in Nat /\ Last >= 2
  BY FileTyped, PgLists
<1>8. ASSUME NEW n \in 2..Last PROVE Visits(PgAuto!Forward, n)
  <2>1. CASE n = 2
    <3>1. Visits(PgAuto!Master, 2)
      BY PgLists DEF Visits
    <3> QED
      BY <1>5, <1>6, <2>1, <3>1
  <2>2. CASE n # 2
    <3>1. n - 2 \in 1..Len(PgAuto!PGslave) /\ PgAuto!PGslave[n - 2] = n
      BY <1>7, <2>2, PgLists
    <3>2. Visits(PgAuto!PGslave, n)
      BY <3>1 DEF Visits
    <3> QED
      BY <1>6, <3>2
  <2> QED
    BY <2>1, <2>2
<1>9. PgAuto!Forward # <<>>
  <2>1. Visits(PgAuto!Forward, 2)
    BY <1>7, <1>8
  <2> QED
    BY <2>1 DEF Visits
<1>10. ASSUME ~Expansion PROVE PgAuto!Forward = Nodes
  <2>1. Len(First) = 1 /\ First[1] = 1
    BY <1>3, <1>10, PgLists
  <2>2. Len(Front) = 2 /\ Front[1] = 1 /\ Front[2] = 2
    <3>1. Len(PgAuto!Master) = 1 /\ PgAuto!Master[1] = 2 /\ Len(First) + 1 = 2
      BY <2>1, PgLists
    <3>2. 1 \in 1..Len(First) /\ 1 \in 1..Len(PgAuto!Master)
      BY <2>1, <3>1
    <3> QED
      BY <1>5, <2>1, <3>1, <3>2
  <2>3. Len(PgAuto!Forward) = Last
    BY <1>6, <1>7, <2>2, PgLists
  <2>4. ASSUME NEW i \in 1..Last PROVE PgAuto!Forward[i] = i
    <3>1. CASE i <= 2
      BY <1>6, <1>7, <2>2, <3>1
    <3>2. CASE i > 2
      <4>1. i - 2 \in 1..Len(PgAuto!PGslave) /\ PgAuto!PGslave[i - 2] = i
        BY <1>7, <3>2, PgLists
      <4>2. Len(Front) + (i - 2) = i
        BY <2>2, <3>2
      <4> QED
        BY <1>6, <4>1, <4>2
    <3> QED
      BY <1>7, <3>1, <3>2
  <2>5. /\ Nodes \in Seq(Nat) /\ Len(Nodes) = Last
        /\ \A i \in 1..Last : Nodes[i] = i
    BY NodesList
  <2>6. PgAuto!Forward \in Seq(Nat)
    BY <1>6, WithinSeq
  <2> QED
    BY <2>3, <2>4, <2>5, <2>6, SeqEqual
<1>11. ASSUME Expansion, NEW n, Visits(PgAuto!NewPGslave, n) PROVE Visits(PgAuto!Forward, n)
  BY <1>4, <1>5, <1>6, <1>11
<1> QED
  BY <1>6, <1>8, <1>9, <1>10, <1>11

LEMMA VisitedList ==
  ASSUME file \in Files
  PROVE  /\ Visited \in Seq(Nat) /\ Visited # <<>> /\ Within(Visited)
         /\ ~Expansion => Visited = Nodes
         /\ Expansion => Visits(Visited, 2)
<1>1. CASE file.product # "pgauto"
  <2>1. Visited = Nodes /\ ~Expansion
    BY <1>1 DEF Visited, Expansion
  <2>2. Last \in Nat \ {0} /\ DOMAIN Places = 1..(Last + Len(file.fresh)) /\ Len(file.fresh) \in Nat
    BY FileTyped
  <2>3. Nodes \in Seq(Nat) /\ Len(Nodes) = Last /\ \A i \in 1..Last : Nodes[i] = i
    BY NodesList
  <2>4. Nodes # <<>>
    BY <2>2, <2>3, EmptySeq
  <2>5. Within(Nodes)
    BY <2>2, <2>3 DEF Within
  <2> QED
    BY <2>1, <2>3, <2>4, <2>5
<1>2. CASE file.product = "pgauto"
  <2>1. Visited = PgAuto!Forward
    BY <1>2 DEF Visited
  <2>2. PgAuto!Forward \in Seq(Nat) /\ Within(PgAuto!Forward)
    BY <1>2, PgForward, WithinSeq
  <2>3. 2 \in 2..Last
    BY <1>2, FileTyped, PgLists
  <2>4. Visits(PgAuto!Forward, 2)
    BY <1>2, <2>3, PgForward
  <2> QED
    BY <1>2, <2>1, <2>2, <2>4, PgForward
<1> QED
  BY <1>1, <1>2

LEMMA PgBackward ==
  ASSUME file \in Files, file.product = "pgauto"
  PROVE  /\ DropList \in Seq(DOMAIN Places) /\ DropList # <<>>
         /\ RollList \in Seq(DOMAIN Places)
         /\ ~Expansion => \A n : Visits(RollList, n) <=> n \in 1..Last
         /\ Expansion => \A n : Visits(RollList, n) => Visits(Visited, n)
         /\ op = "remove" => \A n : Visits(Visited, n) => Visits(RollList, n)
<1> DEFINE Data == PgAuto!PGslave \o PgAuto!Master
           All  == Data \o PgAuto!Monitor
           Old  == PgAuto!NewPGslave \o PgAuto!PGslave
           Gone3 == Old \o PgAuto!Master
           First == IF PgAuto!NewPGdata THEN PgAuto!NewPGslave ELSE PgAuto!Monitor
           Some == First \o PgAuto!PGslave
           Drop == Some \o PgAuto!Master
           Front == First \o PgAuto!Master
           Fwd == Front \o PgAuto!PGslave
<1>1. /\ PgAuto!PGslave \in Seq(DOMAIN Places)
      /\ PgAuto!Master \in Seq(DOMAIN Places)
      /\ PgAuto!Monitor \in Seq(DOMAIN Places)
      /\ PgAuto!NewPGslave \in Seq(DOMAIN Places)
      /\ First \in Seq(DOMAIN Places)
  BY PgLists
<1>2. /\ DropList = Drop
      /\ Visited = Fwd
      /\ Expansion => RollList = IF op = "remove" THEN Gone3 ELSE PgAuto!NewPGslave
      /\ ~Expansion => RollList = All
      /\ ~Expansion => First = PgAuto!Monitor
      /\ Expansion => First = PgAuto!NewPGslave
  BY PgLists DEF DropList, PgAuto!Drops, RollList, PgAuto!Removed, PgAuto!Roll, PgAuto!Undo,
                 Expansion, Visited, PgAuto!Forward
<1> HIDE DEF First
<1>3. Data \in Seq(DOMAIN Places)
      /\ \A n : Visits(Data, n) <=> Visits(PgAuto!PGslave, n) \/ Visits(PgAuto!Master, n)
  BY <1>1, Joined
<1>4. Old \in Seq(DOMAIN Places)
      /\ \A n : Visits(Old, n) <=> Visits(PgAuto!NewPGslave, n) \/ Visits(PgAuto!PGslave, n)
  BY <1>1, Joined
<1>5. Some \in Seq(DOMAIN Places)
  BY <1>1, Joined
<1>6. Front \in Seq(DOMAIN Places)
      /\ \A n : Visits(Front, n) <=> Visits(First, n) \/ Visits(PgAuto!Master, n)
  BY <1>1, Joined
<1> HIDE DEF Data, Old, Some, Front
<1>7. All \in Seq(DOMAIN Places)
      /\ \A n : Visits(All, n) <=> Visits(Data, n) \/ Visits(PgAuto!Monitor, n)
  <2>1. PgAuto!Monitor \in Seq(DOMAIN Places) /\ Data \in Seq(DOMAIN Places)
    BY <1>1, <1>3
  <2> QED
    BY <2>1, Joined, Zenon
<1>8. Gone3 \in Seq(DOMAIN Places)
      /\ \A n : Visits(Gone3, n) <=> Visits(Old, n) \/ Visits(PgAuto!Master, n)
  <2>1. PgAuto!Master \in Seq(DOMAIN Places) /\ Old \in Seq(DOMAIN Places)
    BY <1>1, <1>4
  <2> QED
    BY <2>1, Joined, Zenon
<1>9. Drop \in Seq(DOMAIN Places)
      /\ \A n : Visits(Drop, n) <=> Visits(Some, n) \/ Visits(PgAuto!Master, n)
  <2>1. PgAuto!Master \in Seq(DOMAIN Places) /\ Some \in Seq(DOMAIN Places)
    BY <1>1, <1>5
  <2> QED
    BY <2>1, Joined, Zenon
<1>10. \A n : Visits(Fwd, n) <=> Visits(Front, n) \/ Visits(PgAuto!PGslave, n)
  <2>1. PgAuto!PGslave \in Seq(DOMAIN Places) /\ Front \in Seq(DOMAIN Places)
    BY <1>1, <1>6
  <2> QED
    BY <2>1, Joined, Zenon
<1> HIDE DEF All, Gone3, Drop, Fwd
<1>11. /\ \A n : Visits(PgAuto!Monitor, n) <=> n = 1
       /\ \A n : Visits(PgAuto!Master, n) <=> n = 2
       /\ \A n : Visits(PgAuto!PGslave, n) <=> n \in 3..Last
  <2>1. Last \in Nat /\ Last >= 2
    BY FileTyped, PgLists
  <2>2. \A n : Visits(PgAuto!Monitor, n) <=> n = 1
    <3>1. Len(PgAuto!Monitor) = 1 /\ PgAuto!Monitor[1] = 1
      BY PgLists
    <3>2. \A i : i \in 1..Len(PgAuto!Monitor) <=> i = 1
      BY <3>1
    <3> QED
      BY <3>1, <3>2 DEF Visits
  <2>3. \A n : Visits(PgAuto!Master, n) <=> n = 2
    <3>1. Len(PgAuto!Master) = 1 /\ PgAuto!Master[1] = 2
      BY PgLists
    <3>2. \A i : i \in 1..Len(PgAuto!Master) <=> i = 1
      BY <3>1
    <3> QED
      BY <3>1, <3>2 DEF Visits
  <2>4. ASSUME NEW n, Visits(PgAuto!PGslave, n) PROVE n \in 3..Last
    BY <2>1, <2>4, PgLists DEF Visits
  <2>5. ASSUME NEW n \in 3..Last PROVE Visits(PgAuto!PGslave, n)
    <3>1. n - 2 \in 1..Len(PgAuto!PGslave) /\ PgAuto!PGslave[n - 2] = n
      BY <2>1, PgLists
    <3> QED
      BY <3>1 DEF Visits
  <2> QED
    BY <2>2, <2>3, <2>4, <2>5
<1>12. DropList # <<>>
  <2>1. Visits(Drop, 2)
    BY <1>9, <1>11
  <2> QED
    BY <1>2, <2>1 DEF Visits
<1>13. RollList \in Seq(DOMAIN Places)
  BY <1>1, <1>2, <1>7, <1>8
<1>14. ASSUME ~Expansion PROVE \A n : Visits(RollList, n) <=> n \in 1..Last
  <2>1. \A n : n \in 1..Last <=> n = 1 \/ n = 2 \/ n \in 3..Last
    <3>1. Last \in Nat /\ Last >= 2
      BY FileTyped, PgLists
    <3> QED
      BY <3>1
  <2> QED
    BY <1>2, <1>3, <1>7, <1>11, <1>14, <2>1
<1>15. ASSUME Expansion, NEW n, Visits(RollList, n) PROVE Visits(Visited, n)
  BY <1>2, <1>4, <1>6, <1>8, <1>10, <1>15
<1>16. ASSUME op = "remove", NEW n, Visits(Visited, n) PROVE Visits(RollList, n)
  BY <1>2, <1>3, <1>4, <1>6, <1>7, <1>8, <1>10, <1>16
<1> QED
  BY <1>2, <1>9, <1>12, <1>13, <1>14, <1>15, <1>16

(* What is needed of the lists of a run. *)
LEMMA RunLists ==
  ASSUME file \in Files
  PROVE  /\ DropList \in Seq(Nat) /\ DropList # <<>> /\ Within(DropList)
         /\ RollList \in Seq(Nat) /\ Within(RollList)
         /\ \A n : Visits(RollList, n) => Visits(Visited, n)
         /\ op = "remove" /\ file.product \notin Joiners => RollList # <<>>
         /\ ~Expansion /\ file.product \notin Joiners =>
              RollList # <<>> /\ \A n : Visits(RollList, n) <=> n \in 1..Last
<1>1. Last \in Nat \ {0}
  BY FileTyped
<1>2. /\ Nodes \in Seq(Nat) /\ Nodes # <<>> /\ Within(Nodes)
      /\ \A n : Visits(Nodes, n) <=> n \in 1..Last
  <2>1. Nodes \in Seq(Nat) /\ Len(Nodes) = Last /\ \A i \in 1..Last : Nodes[i] = i
    BY NodesList
  <2>2. Nodes # <<>>
    BY <1>1, <2>1, EmptySeq
  <2>3. Within(Nodes)
    <3>1. DOMAIN Places = 1..(Last + Len(file.fresh)) /\ Len(file.fresh) \in Nat
      BY FileTyped
    <3> QED
      BY <1>1, <2>1, <3>1 DEF Within
  <2> QED
    BY <2>1, <2>2, <2>3 DEF Visits
<1>3. CASE file.product = "pgauto"
  <2>1. /\ DropList \in Seq(Nat) /\ DropList # <<>> /\ Within(DropList)
        /\ RollList \in Seq(Nat) /\ Within(RollList)
    BY <1>3, PgBackward, WithinSeq
  <2>2. ~Expansion => \A n : Visits(RollList, n) <=> n \in 1..Last
    BY <1>3, PgBackward
  <2>3. ASSUME NEW n, Visits(RollList, n) PROVE Visits(Visited, n)
    <3>1. CASE Expansion
      BY <1>3, <2>3, <3>1, PgBackward
    <3>2. CASE ~Expansion
      BY <1>2, <2>2, <2>3, <3>2, VisitedList
    <3> QED
      BY <3>1, <3>2
  <2>4. ~Expansion => RollList # <<>>
    <3>1. ~Expansion => Visits(RollList, 1)
      BY <1>1, <2>2
    <3> QED
      BY <3>1 DEF Visits
  <2>5. op = "remove" => RollList # <<>>
    <3>1. Expansion => Visits(Visited, 2)
      BY VisitedList
    <3>2. Expansion /\ op = "remove" => Visits(RollList, 2)
      BY <1>3, <3>1, PgBackward
    <3> QED
      BY <2>4, <3>2 DEF Visits
  <2> QED
    BY <2>1, <2>2, <2>3, <2>4, <2>5
<1>4. CASE file.product # "pgauto" /\ file.product \in Joiners
  <2>1. DropList = Nodes /\ RollList = <<>>
    BY <1>4 DEF DropList, RollList
  <2>2. <<>> \in Seq(Nat) /\ Within(<<>>) /\ \A n : ~Visits(<<>>, n)
    BY DEF Within, Visits
  <2> QED
    BY <1>2, <1>4, <2>1, <2>2
<1>5. CASE file.product # "pgauto" /\ file.product \notin Joiners
  <2>1. DropList = Nodes /\ RollList = Nodes /\ Visited = Nodes
    BY <1>5 DEF DropList, RollList, Visited
  <2> QED
    BY <1>2, <2>1
<1> QED
  BY <1>3, <1>4, <1>5

LEMMA JoinerLists ==
  ASSUME file \in Files, file.product \in Joiners
  PROVE  /\ Last = 1 /\ Nodes = <<1>> /\ Visited = <<1>> /\ DropList = <<1>> /\ RollList = <<>>
         /\ ~Expansion
<1>1. Last = 1
  BY KindsAssumption DEF Joiners, Last
<1>2. Nodes = <<1>>
  BY <1>1 DEF Nodes, Last
<1>3. file.product # "pgauto"
  BY DEF Joiners, Joining!Joiners
<1> QED
  BY <1>1, <1>2, <1>3 DEF Visited, DropList, RollList, Expansion

(* The same file, the same lists. *)
LEMMA SameLists ==
  ASSUME UNCHANGED <<file, op>>
  PROVE  /\ UNCHANGED <<Nodes, Slaves, Visited, DropList, RollList, Last, Places>>
         /\ Expansion' = Expansion
         /\ \A n : At(n)' = At(n)
<1>1. UNCHANGED file
  OBVIOUS
<1>2. UNCHANGED <<Nodes, Slaves, Places, Last>> /\ Expansion' = Expansion /\ \A n : At(n)' = At(n)
  BY <1>1 DEF Nodes, Slaves, Places, Last, Expansion, At
<1>3. UNCHANGED <<PgAuto!Forward, PgAuto!Drops, PgAuto!Removed, PgAuto!Roll>>
  BY <1>1 DEF PgAuto!Forward, PgAuto!Drops, PgAuto!Removed, PgAuto!Roll, PgAuto!Undo,
     PgAuto!NewPGdata,
              PgAuto!NewPGslave, PgAuto!PGslave, PgAuto!Monitor, PgAuto!Master, PgAuto!Fresh,
              PgAuto!Slaves, PgAuto!Nodes
<1> QED
  BY <1>1, <1>2, <1>3 DEF Visited, DropList, RollList

(* The list a run begins with. *)
LEMMA ForwardBegins ==
  ASSUME file \in Files, file.product = "pgauto"
  PROVE  PgAuto!ForwardOf(file) = Visited
<1>1. Last \in Nat /\ Last >= 2 /\ Len(file.fresh) \in Nat
  BY FileTyped, PgLists
<1> DEFINE First == IF file.fresh = <<>> THEN PgAuto!Monitor
                    ELSE [i \in 1..Len(file.fresh) - 1 |-> Last + 1 + i]
           Rest == [i \in 1..Last - 1 |-> i + 1]
<1>2. PgAuto!ForwardOf(file) = First \o Rest
  BY DEF PgAuto!ForwardOf, Last
<1>3. Rest \in Seq(Nat) /\ Len(Rest) = Last - 1 /\ \A i \in 1..(Last - 1) : Rest[i] = i + 1
  BY <1>1
<1>4. First = (IF PgAuto!NewPGdata THEN PgAuto!NewPGslave ELSE PgAuto!Monitor)
  <2>1. CASE file.fresh = <<>>
    BY <2>1, PgLists
  <2>2. CASE file.fresh # <<>>
    <3>1. PgAuto!NewPGslave = Tail(Fresh)
      BY <2>2, PgLists DEF PgAuto!NewPGslave, PgAuto!Fresh, Fresh
    <3>2. Fresh \in Seq(Nat) /\ Len(Fresh) = Len(file.fresh)
          /\ \A i \in 1..Len(file.fresh) : Fresh[i] = Last + i
      BY <1>1 DEF Fresh, Last
    <3>3. Len(file.fresh) # 0
      BY <2>2, EmptySeq, FileTyped
    <3>4. Fresh # <<>>
      BY <3>2, <3>3, EmptySeq
    <3>5. /\ Tail(Fresh) \in Seq(Nat) /\ Len(Tail(Fresh)) = Len(file.fresh) - 1
          /\ \A i \in 1..Len(Tail(Fresh)) : Tail(Fresh)[i] = Fresh[i + 1]
      BY <3>2, <3>4, TailTyped
    <3>6. \A i \in 1..(Len(file.fresh) - 1) : Tail(Fresh)[i] = Last + 1 + i
      BY <1>1, <3>2, <3>5
    <3>7. /\ First \in Seq(Nat) /\ Len(First) = Len(file.fresh) - 1
          /\ \A i \in 1..(Len(file.fresh) - 1) : First[i] = Last + 1 + i
      BY <1>1, <2>2, <3>3
    <3> HIDE DEF First
    <3>8. First = Tail(Fresh)
      BY <3>5, <3>6, <3>7, SeqEqual
    <3> QED
      BY <2>2, <3>1, <3>8, PgLists
  <2> QED
    BY <2>1, <2>2
<1> DEFINE Begun == First \o Rest
           Front == First \o PgAuto!Master
           Fwd   == Front \o PgAuto!PGslave
<1>5. PgAuto!ForwardOf(file) = Begun /\ Visited = Fwd
  BY <1>2, <1>4 DEF Visited, PgAuto!Forward
<1>6. First \in Seq(Nat) /\ PgAuto!Master \in Seq(Nat) /\ PgAuto!PGslave \in Seq(Nat)
  BY <1>4, PgLists, WithinSeq
<1> HIDE DEF First, Rest
<1>7. /\ Begun \in Seq(Nat) /\ Len(Begun) = Len(First) + Len(Rest)
      /\ \A i \in 1..Len(First) : Begun[i] = First[i]
      /\ \A i \in 1..Len(Rest) : Begun[Len(First) + i] = Rest[i]
  <2>1. First \in Seq(Nat) /\ Rest \in Seq(Nat)
    BY <1>3, <1>6
  <2> QED
    BY <2>1, Joined
<1>8. /\ Front \in Seq(Nat) /\ Len(Front) = Len(First) + Len(PgAuto!Master)
      /\ \A i \in 1..Len(First) : Front[i] = First[i]
      /\ \A i \in 1..Len(PgAuto!Master) : Front[Len(First) + i] = PgAuto!Master[i]
  BY <1>6, Joined
<1> HIDE DEF Begun, Front
<1>9. /\ Fwd \in Seq(Nat) /\ Len(Fwd) = Len(Front) + Len(PgAuto!PGslave)
      /\ \A i \in 1..Len(Front) : Fwd[i] = Front[i]
      /\ \A i \in 1..Len(PgAuto!PGslave) : Fwd[Len(Front) + i] = PgAuto!PGslave[i]
  <2>1. Front \in Seq(Nat)
    BY <1>8
  <2> QED
    BY <1>6, <2>1, Joined
<1> HIDE DEF Fwd
<1>10. /\ Len(PgAuto!Master) = 1 /\ PgAuto!Master[1] = 2 /\ Len(PgAuto!PGslave) = Last - 2
       /\ \A i \in 1..(Last - 2) : PgAuto!PGslave[i] = i + 2
       /\ Len(First) \in Nat
  BY <1>6, PgLists, LenProperties
<1>11. Len(Begun) = Len(Fwd) /\ Len(Fwd) = Len(First) + (Last - 1)
  BY <1>1, <1>3, <1>7, <1>8, <1>9, <1>10
<1>12. ASSUME NEW i \in 1..Len(Fwd) PROVE Begun[i] = Fwd[i]
  <2>1. CASE i <= Len(First)
    <3>1. i \in 1..Len(First) /\ i \in 1..Len(Front)
      BY <1>8, <1>10, <1>11, <2>1
    <3> QED
      BY <1>7, <1>8, <1>9, <3>1
  <2>2. CASE i = Len(First) + 1
    <3>1. 1 \in 1..Len(Rest) /\ 1 \in 1..Len(PgAuto!Master) /\ i \in 1..Len(Front)
      BY <1>1, <1>3, <1>8, <1>10, <2>2
    <3>2. Begun[i] = 2
      BY <1>3, <1>7, <2>2, <3>1
    <3>3. Fwd[i] = 2
      BY <1>8, <1>9, <1>10, <2>2, <3>1
    <3> QED
      BY <3>2, <3>3
  <2>3. CASE i > Len(First) + 1
    <3> DEFINE j == i - (Len(First) + 1)
    <3>1. /\ j \in 1..(Last - 2) /\ Len(Front) + j = i
          /\ j + 1 \in 1..(Last - 1) /\ Len(First) + (j + 1) = i
      BY <1>1, <1>8, <1>10, <1>11, <2>3
    <3> HIDE DEF j
    <3>2. Fwd[i] = j + 2
      BY <1>9, <1>10, <3>1
    <3>3. Begun[i] = (j + 1) + 1
      BY <1>3, <1>7, <3>1
    <3> QED
      BY <3>1, <3>2, <3>3
  <2> QED
    BY <1>10, <1>11, <2>1, <2>2, <2>3
<1>13. Begun = Fwd
  BY <1>7, <1>9, <1>11, <1>12, SeqEqual
<1> QED
  BY <1>5, <1>13
-------------------------------------------------------------------------------
(* Each product's module has the operators of Rollout as its own; they are the *)
(* same.                                                                       *)
LEMMA MariaDBSame ==
  /\ MariaDB!Nodes = Nodes /\ MariaDB!Slaves = Slaves /\ MariaDB!node = node /\ \A n : MariaDB!At(n) = At(n)
  /\ \A p, ns : (MariaDB!Enter(p, ns) <=> Enter(p, ns)) /\ (MariaDB!Advance(p, ns) <=> Advance(p, ns))
  /\ \A drop : MariaDB!GiveUp(drop) <=> GiveUp(drop)
  /\ \A roll, drop : MariaDB!FailInstallation(roll, drop) <=> FailInstallation(roll, drop)
  BY DEF MariaDB!Nodes, Nodes, MariaDB!Slaves, Slaves, MariaDB!node, node, MariaDB!At,
         At, MariaDB!Places, Places, MariaDB!Enter, Enter, MariaDB!Advance, Advance,
         MariaDB!GiveUp, GiveUp, MariaDB!FailInstallation, FailInstallation


LEMMA MariaDBLoops ==
  /\ \A can, p, ns : MariaDB!ConnectEach(can, p, ns) <=> ConnectEach(can, p, ns)
  /\ \A p, ns : MariaDB!CheckTmpDirOn(p, ns) <=> CheckTmpDirOn(p, ns)
  /\ \A p, ns, drop : MariaDB!ScpTo(p, ns, drop) <=> ScpTo(p, ns, drop)
  /\ \A p, ns, drop : MariaDB!CheckEnvOn(p, ns, drop) <=> CheckEnvOn(p, ns, drop)
  /\ \A made, joins, p, ns, roll, drop :
       MariaDB!InstallOn(made, joins, p, ns, roll, drop) <=> InstallOn(made, joins, p, ns, roll, drop)
  /\ \A drop : MariaDB!UNInstallOn(drop) <=> UNInstallOn(drop)
  /\ \A last : MariaDB!DropOn(last) <=> DropOn(last)
<1> USE DEF MariaDB!Nodes, Nodes, MariaDB!Slaves, Slaves, MariaDB!Places, Places,
            MariaDB!At, At, MariaDB!node, node, MariaDB!HostOf, HostOf, MariaDB!fileVars,
            fileVars, MariaDB!histVars, histVars, MariaDB!Enter, Enter, MariaDB!Advance,
            Advance, MariaDB!Return, Return, MariaDB!GiveUp, GiveUp,
            MariaDB!FailInstallation, FailInstallation, MariaDB!Mark, Mark,
            MariaDB!KeepLinks, KeepLinks, MariaDB!Slot, Slot, MariaDB!CheckTmpDirOK,
            CheckTmpDirOK, MariaDB!ScpResults, ScpResults, MariaDB!CheckEnvOK, CheckEnvOK,
            MariaDB!InstState, InstState, MariaDB!InstallResults, InstallResults,
            MariaDB!UNInstallResults, UNInstallResults, MariaDB!AfterDropTmpDir,
            AfterDropTmpDir, MariaDB!CdFails, CdFails,
            MariaDB!NoShell, NoShell, MariaDB!NoSftp, NoSftp
<1>1. \A can, p, ns : MariaDB!ConnectEach(can, p, ns) <=> ConnectEach(can, p, ns)
  BY DEF MariaDB!ConnectEach, ConnectEach
<1>2. \A p, ns : MariaDB!CheckTmpDirOn(p, ns) <=> CheckTmpDirOn(p, ns)
  BY DEF MariaDB!CheckTmpDirOn, CheckTmpDirOn
<1>3. \A p, ns, drop : MariaDB!ScpTo(p, ns, drop) <=> ScpTo(p, ns, drop)
  BY DEF MariaDB!ScpTo, ScpTo
<1>4. \A p, ns, drop : MariaDB!CheckEnvOn(p, ns, drop) <=> CheckEnvOn(p, ns, drop)
  BY DEF MariaDB!CheckEnvOn, CheckEnvOn
<1>5. \A made, joins, p, ns, roll, drop :
        MariaDB!InstallOn(made, joins, p, ns, roll, drop) <=> InstallOn(made, joins, p, ns, roll, drop)
  BY DEF MariaDB!InstallOn, InstallOn
<1>6. \A drop : MariaDB!UNInstallOn(drop) <=> UNInstallOn(drop)
  BY DEF MariaDB!UNInstallOn, UNInstallOn
<1>7. \A last : MariaDB!DropOn(last) <=> DropOn(last)
  BY DEF MariaDB!DropOn, DropOn
<1> QED
  BY <1>1, <1>2, <1>3, <1>4, <1>5, <1>6, <1>7


LEMMA GaleraSame ==
  /\ Galera!Nodes = Nodes /\ Galera!Slaves = Slaves /\ Galera!node = node /\ \A n : Galera!At(n) = At(n)
  /\ \A p, ns : (Galera!Enter(p, ns) <=> Enter(p, ns)) /\ (Galera!Advance(p, ns) <=> Advance(p, ns))
  /\ \A drop : Galera!GiveUp(drop) <=> GiveUp(drop)
  /\ \A roll, drop : Galera!FailInstallation(roll, drop) <=> FailInstallation(roll, drop)
  BY DEF Galera!Nodes, Nodes, Galera!Slaves, Slaves, Galera!node, node, Galera!At, At,
         Galera!Places, Places, Galera!Enter, Enter, Galera!Advance, Advance,
         Galera!GiveUp, GiveUp, Galera!FailInstallation, FailInstallation


LEMMA GaleraLoops ==
  /\ \A can, p, ns : Galera!ConnectEach(can, p, ns) <=> ConnectEach(can, p, ns)
  /\ \A p, ns : Galera!CheckTmpDirOn(p, ns) <=> CheckTmpDirOn(p, ns)
  /\ \A p, ns, drop : Galera!ScpTo(p, ns, drop) <=> ScpTo(p, ns, drop)
  /\ \A p, ns, drop : Galera!CheckEnvOn(p, ns, drop) <=> CheckEnvOn(p, ns, drop)
  /\ \A made, joins, p, ns, roll, drop :
       Galera!InstallOn(made, joins, p, ns, roll, drop) <=> InstallOn(made, joins, p, ns, roll, drop)
  /\ \A drop : Galera!UNInstallOn(drop) <=> UNInstallOn(drop)
  /\ \A last : Galera!DropOn(last) <=> DropOn(last)
<1> USE DEF Galera!Nodes, Nodes, Galera!Slaves, Slaves, Galera!Places, Places, Galera!At,
            At, Galera!node, node, Galera!HostOf, HostOf, Galera!fileVars, fileVars,
            Galera!histVars, histVars, Galera!Enter, Enter, Galera!Advance, Advance,
            Galera!Return, Return, Galera!GiveUp, GiveUp, Galera!FailInstallation,
            FailInstallation, Galera!Mark, Mark, Galera!KeepLinks, KeepLinks, Galera!Slot,
            Slot, Galera!CheckTmpDirOK, CheckTmpDirOK, Galera!ScpResults, ScpResults,
            Galera!CheckEnvOK, CheckEnvOK, Galera!InstState, InstState,
            Galera!InstallResults, InstallResults, Galera!UNInstallResults,
            UNInstallResults, Galera!AfterDropTmpDir, AfterDropTmpDir, Galera!CdFails,
            CdFails,
            Galera!NoShell, NoShell, Galera!NoSftp, NoSftp
<1>1. \A can, p, ns : Galera!ConnectEach(can, p, ns) <=> ConnectEach(can, p, ns)
  BY DEF Galera!ConnectEach, ConnectEach
<1>2. \A p, ns : Galera!CheckTmpDirOn(p, ns) <=> CheckTmpDirOn(p, ns)
  BY DEF Galera!CheckTmpDirOn, CheckTmpDirOn
<1>3. \A p, ns, drop : Galera!ScpTo(p, ns, drop) <=> ScpTo(p, ns, drop)
  BY DEF Galera!ScpTo, ScpTo
<1>4. \A p, ns, drop : Galera!CheckEnvOn(p, ns, drop) <=> CheckEnvOn(p, ns, drop)
  BY DEF Galera!CheckEnvOn, CheckEnvOn
<1>5. \A made, joins, p, ns, roll, drop :
        Galera!InstallOn(made, joins, p, ns, roll, drop) <=> InstallOn(made, joins, p, ns, roll, drop)
  BY DEF Galera!InstallOn, InstallOn
<1>6. \A drop : Galera!UNInstallOn(drop) <=> UNInstallOn(drop)
  BY DEF Galera!UNInstallOn, UNInstallOn
<1>7. \A last : Galera!DropOn(last) <=> DropOn(last)
  BY DEF Galera!DropOn, DropOn
<1> QED
  BY <1>1, <1>2, <1>3, <1>4, <1>5, <1>6, <1>7


LEMMA PgsqlSame ==
  /\ Pgsql!Nodes = Nodes /\ Pgsql!Slaves = Slaves /\ Pgsql!node = node /\ \A n : Pgsql!At(n) = At(n)
  /\ \A p, ns : (Pgsql!Enter(p, ns) <=> Enter(p, ns)) /\ (Pgsql!Advance(p, ns) <=> Advance(p, ns))
  /\ \A drop : Pgsql!GiveUp(drop) <=> GiveUp(drop)
  /\ \A roll, drop : Pgsql!FailInstallation(roll, drop) <=> FailInstallation(roll, drop)
  BY DEF Pgsql!Nodes, Nodes, Pgsql!Slaves, Slaves, Pgsql!node, node, Pgsql!At, At,
         Pgsql!Places, Places, Pgsql!Enter, Enter, Pgsql!Advance, Advance, Pgsql!GiveUp,
         GiveUp, Pgsql!FailInstallation, FailInstallation


LEMMA PgsqlLoops ==
  /\ \A can, p, ns : Pgsql!ConnectEach(can, p, ns) <=> ConnectEach(can, p, ns)
  /\ \A p, ns : Pgsql!CheckTmpDirOn(p, ns) <=> CheckTmpDirOn(p, ns)
  /\ \A p, ns, drop : Pgsql!ScpTo(p, ns, drop) <=> ScpTo(p, ns, drop)
  /\ \A p, ns, drop : Pgsql!CheckEnvOn(p, ns, drop) <=> CheckEnvOn(p, ns, drop)
  /\ \A made, joins, p, ns, roll, drop :
       Pgsql!InstallOn(made, joins, p, ns, roll, drop) <=> InstallOn(made, joins, p, ns, roll, drop)
  /\ \A drop : Pgsql!UNInstallOn(drop) <=> UNInstallOn(drop)
  /\ \A last : Pgsql!DropOn(last) <=> DropOn(last)
<1> USE DEF Pgsql!Nodes, Nodes, Pgsql!Slaves, Slaves, Pgsql!Places, Places, Pgsql!At, At,
            Pgsql!node, node, Pgsql!HostOf, HostOf, Pgsql!fileVars, fileVars,
            Pgsql!histVars, histVars, Pgsql!Enter, Enter, Pgsql!Advance, Advance,
            Pgsql!Return, Return, Pgsql!GiveUp, GiveUp, Pgsql!FailInstallation,
            FailInstallation, Pgsql!Mark, Mark, Pgsql!KeepLinks, KeepLinks, Pgsql!Slot,
            Slot, Pgsql!CheckTmpDirOK, CheckTmpDirOK, Pgsql!ScpResults, ScpResults,
            Pgsql!CheckEnvOK, CheckEnvOK, Pgsql!InstState, InstState,
            Pgsql!InstallResults, InstallResults, Pgsql!UNInstallResults,
            UNInstallResults, Pgsql!AfterDropTmpDir, AfterDropTmpDir, Pgsql!CdFails,
            CdFails,
            Pgsql!NoShell, NoShell, Pgsql!NoSftp, NoSftp
<1>1. \A can, p, ns : Pgsql!ConnectEach(can, p, ns) <=> ConnectEach(can, p, ns)
  BY DEF Pgsql!ConnectEach, ConnectEach
<1>2. \A p, ns : Pgsql!CheckTmpDirOn(p, ns) <=> CheckTmpDirOn(p, ns)
  BY DEF Pgsql!CheckTmpDirOn, CheckTmpDirOn
<1>3. \A p, ns, drop : Pgsql!ScpTo(p, ns, drop) <=> ScpTo(p, ns, drop)
  BY DEF Pgsql!ScpTo, ScpTo
<1>4. \A p, ns, drop : Pgsql!CheckEnvOn(p, ns, drop) <=> CheckEnvOn(p, ns, drop)
  BY DEF Pgsql!CheckEnvOn, CheckEnvOn
<1>5. \A made, joins, p, ns, roll, drop :
        Pgsql!InstallOn(made, joins, p, ns, roll, drop) <=> InstallOn(made, joins, p, ns, roll, drop)
  BY DEF Pgsql!InstallOn, InstallOn
<1>6. \A drop : Pgsql!UNInstallOn(drop) <=> UNInstallOn(drop)
  BY DEF Pgsql!UNInstallOn, UNInstallOn
<1>7. \A last : Pgsql!DropOn(last) <=> DropOn(last)
  BY DEF Pgsql!DropOn, DropOn
<1> QED
  BY <1>1, <1>2, <1>3, <1>4, <1>5, <1>6, <1>7


LEMMA PgAutoSame ==
  /\ PgAuto!Nodes = Nodes /\ PgAuto!Slaves = Slaves /\ PgAuto!node = node /\ \A n : PgAuto!At(n) = At(n)
  /\ \A p, ns : (PgAuto!Enter(p, ns) <=> Enter(p, ns)) /\ (PgAuto!Advance(p, ns) <=> Advance(p, ns))
  /\ \A drop : PgAuto!GiveUp(drop) <=> GiveUp(drop)
  /\ \A roll, drop : PgAuto!FailInstallation(roll, drop) <=> FailInstallation(roll, drop)
  BY DEF PgAuto!Nodes, Nodes, PgAuto!Slaves, Slaves, PgAuto!node, node, PgAuto!At, At,
         PgAuto!Places, Places, PgAuto!Enter, Enter, PgAuto!Advance, Advance,
         PgAuto!GiveUp, GiveUp, PgAuto!FailInstallation, FailInstallation


LEMMA PgAutoLoops ==
  /\ \A can, p, ns : PgAuto!ConnectEach(can, p, ns) <=> ConnectEach(can, p, ns)
  /\ \A p, ns : PgAuto!CheckTmpDirOn(p, ns) <=> CheckTmpDirOn(p, ns)
  /\ \A p, ns, drop : PgAuto!ScpTo(p, ns, drop) <=> ScpTo(p, ns, drop)
  /\ \A p, ns, drop : PgAuto!CheckEnvOn(p, ns, drop) <=> CheckEnvOn(p, ns, drop)
  /\ \A made, joins, p, ns, roll, drop :
       PgAuto!InstallOn(made, joins, p, ns, roll, drop) <=> InstallOn(made, joins, p, ns, roll, drop)
  /\ \A drop : PgAuto!UNInstallOn(drop) <=> UNInstallOn(drop)
  /\ \A last : PgAuto!DropOn(last) <=> DropOn(last)
<1> USE DEF PgAuto!Nodes, Nodes, PgAuto!Slaves, Slaves, PgAuto!Places, Places, PgAuto!At,
            At, PgAuto!node, node, PgAuto!HostOf, HostOf, PgAuto!fileVars, fileVars,
            PgAuto!histVars, histVars, PgAuto!Enter, Enter, PgAuto!Advance, Advance,
            PgAuto!Return, Return, PgAuto!GiveUp, GiveUp, PgAuto!FailInstallation,
            FailInstallation, PgAuto!Mark, Mark, PgAuto!KeepLinks, KeepLinks, PgAuto!Slot,
            Slot, PgAuto!CheckTmpDirOK, CheckTmpDirOK, PgAuto!ScpResults, ScpResults,
            PgAuto!CheckEnvOK, CheckEnvOK, PgAuto!InstState, InstState,
            PgAuto!InstallResults, InstallResults, PgAuto!UNInstallResults,
            UNInstallResults, PgAuto!AfterDropTmpDir, AfterDropTmpDir, PgAuto!CdFails,
            CdFails,
            PgAuto!NoShell, NoShell, PgAuto!NoSftp, NoSftp
<1>1. \A can, p, ns : PgAuto!ConnectEach(can, p, ns) <=> ConnectEach(can, p, ns)
  BY DEF PgAuto!ConnectEach, ConnectEach
<1>2. \A p, ns : PgAuto!CheckTmpDirOn(p, ns) <=> CheckTmpDirOn(p, ns)
  BY DEF PgAuto!CheckTmpDirOn, CheckTmpDirOn
<1>3. \A p, ns, drop : PgAuto!ScpTo(p, ns, drop) <=> ScpTo(p, ns, drop)
  BY DEF PgAuto!ScpTo, ScpTo
<1>4. \A p, ns, drop : PgAuto!CheckEnvOn(p, ns, drop) <=> CheckEnvOn(p, ns, drop)
  BY DEF PgAuto!CheckEnvOn, CheckEnvOn
<1>5. \A made, joins, p, ns, roll, drop :
        PgAuto!InstallOn(made, joins, p, ns, roll, drop) <=> InstallOn(made, joins, p, ns, roll, drop)
  BY DEF PgAuto!InstallOn, InstallOn
<1>6. \A drop : PgAuto!UNInstallOn(drop) <=> UNInstallOn(drop)
  BY DEF PgAuto!UNInstallOn, UNInstallOn
<1>7. \A last : PgAuto!DropOn(last) <=> DropOn(last)
  BY DEF PgAuto!DropOn, DropOn
<1> QED
  BY <1>1, <1>2, <1>3, <1>4, <1>5, <1>6, <1>7


LEMMA JoiningSame ==
  /\ Joining!Nodes = Nodes /\ Joining!Slaves = Slaves /\ Joining!node = node /\ \A n : Joining!At(n) = At(n)
  /\ \A p, ns : (Joining!Enter(p, ns) <=> Enter(p, ns)) /\ (Joining!Advance(p, ns) <=> Advance(p, ns))
  /\ \A drop : Joining!GiveUp(drop) <=> GiveUp(drop)
  /\ \A roll, drop : Joining!FailInstallation(roll, drop) <=> FailInstallation(roll, drop)
  BY DEF Joining!Nodes, Nodes, Joining!Slaves, Slaves, Joining!node, node, Joining!At,
         At, Joining!Places, Places, Joining!Enter, Enter, Joining!Advance, Advance,
         Joining!GiveUp, GiveUp, Joining!FailInstallation, FailInstallation


LEMMA JoiningLoops ==
  /\ \A can, p, ns : Joining!ConnectEach(can, p, ns) <=> ConnectEach(can, p, ns)
  /\ \A p, ns : Joining!CheckTmpDirOn(p, ns) <=> CheckTmpDirOn(p, ns)
  /\ \A p, ns, drop : Joining!ScpTo(p, ns, drop) <=> ScpTo(p, ns, drop)
  /\ \A p, ns, drop : Joining!CheckEnvOn(p, ns, drop) <=> CheckEnvOn(p, ns, drop)
  /\ \A made, joins, p, ns, roll, drop :
       Joining!InstallOn(made, joins, p, ns, roll, drop) <=> InstallOn(made, joins, p, ns, roll, drop)
  /\ \A drop : Joining!UNInstallOn(drop) <=> UNInstallOn(drop)
  /\ \A last : Joining!DropOn(last) <=> DropOn(last)
<1> USE DEF Joining!Nodes, Nodes, Joining!Slaves, Slaves, Joining!Places, Places,
            Joining!At, At, Joining!node, node, Joining!HostOf, HostOf, Joining!fileVars,
            fileVars, Joining!histVars, histVars, Joining!Enter, Enter, Joining!Advance,
            Advance, Joining!Return, Return, Joining!GiveUp, GiveUp,
            Joining!FailInstallation, FailInstallation, Joining!Mark, Mark,
            Joining!KeepLinks, KeepLinks, Joining!Slot, Slot, Joining!CheckTmpDirOK,
            CheckTmpDirOK, Joining!ScpResults, ScpResults, Joining!CheckEnvOK, CheckEnvOK,
            Joining!InstState, InstState, Joining!InstallResults, InstallResults,
            Joining!UNInstallResults, UNInstallResults, Joining!AfterDropTmpDir,
            AfterDropTmpDir, Joining!CdFails, CdFails,
            Joining!NoShell, NoShell, Joining!NoSftp, NoSftp
<1>1. \A can, p, ns : Joining!ConnectEach(can, p, ns) <=> ConnectEach(can, p, ns)
  BY DEF Joining!ConnectEach, ConnectEach
<1>2. \A p, ns : Joining!CheckTmpDirOn(p, ns) <=> CheckTmpDirOn(p, ns)
  BY DEF Joining!CheckTmpDirOn, CheckTmpDirOn
<1>3. \A p, ns, drop : Joining!ScpTo(p, ns, drop) <=> ScpTo(p, ns, drop)
  BY DEF Joining!ScpTo, ScpTo
<1>4. \A p, ns, drop : Joining!CheckEnvOn(p, ns, drop) <=> CheckEnvOn(p, ns, drop)
  BY DEF Joining!CheckEnvOn, CheckEnvOn
<1>5. \A made, joins, p, ns, roll, drop :
        Joining!InstallOn(made, joins, p, ns, roll, drop) <=> InstallOn(made, joins, p, ns, roll, drop)
  BY DEF Joining!InstallOn, InstallOn
<1>6. \A drop : Joining!UNInstallOn(drop) <=> UNInstallOn(drop)
  BY DEF Joining!UNInstallOn, UNInstallOn
<1>7. \A last : Joining!DropOn(last) <=> DropOn(last)
  BY DEF Joining!DropOn, DropOn
<1> QED
  BY <1>1, <1>2, <1>3, <1>4, <1>5, <1>6, <1>7
-------------------------------------------------------------------------------
(* Where a run is: the types, which command it is, and what each phase has     *)
(* left to visit.                                                              *)
Deployed == {"mariadb", "galera", "pgsql", "pgauto"}
Own      == {"replica", "change", "master", "repluser", "basebackup", "chown", "start",
             "verify", "datasync", "changemaster"}
Begun    == phase # "done" \/ result # "none"

TypeInv ==
  /\ SqlTypeOK /\ todo \in Seq(Nat)
  /\ before.inst \in [Slot -> InstState] /\ others \in Nat /\ blemish \in BOOLEAN

RunInv ==
  Begun => /\ file.product \in Deployed \cup Joiners
           /\ op = "add" <=> file.product \in Joiners
           /\ file.product = "galera" => op = "deploy"
           /\ file.product \in Deployed => Last >= 2

ControlInv ==
  /\ phase \in {"replica", "change", "master"} => file.product = "mariadb"
  /\ phase \in {"repluser", "basebackup", "chown", "start"} => file.product = "pgsql"
  /\ phase = "verify" => file.product \in {"pgsql", "mariadb-slave"}
  /\ phase \in {"datasync", "changemaster", "undo"} => file.product = "mariadb-slave"
  /\ phase = "uninstall" => op # "add"
  /\ op = "remove" => phase \in {"connect", "checktmp", "scp", "uninstall", "drop", "done"}
  /\ phase \notin {"uninstall", "drop", "done"} => result = "none"
  /\ phase = "uninstall" => result = IF op = "remove" THEN "none" ELSE "err"
  /\ phase = "drop" => result \in {"none", "err"}

ListInv ==
  /\ phase \in {"connect", "checktmp", "scp", "checkenv", "install"} => TailOf(todo, Visited)
  /\ phase \in {"replica", "basebackup", "chown", "start"} => TailOf(todo, Slaves)
  /\ phase \in {"change", "master", "repluser", "verify", "datasync", "changemaster", "undo"} =>
       todo = <<1>>
  /\ phase = "uninstall" => TailOf(todo, RollList)
  /\ phase = "drop" => todo # <<>> /\ Within(todo)

Where == TypeInv /\ RunInv /\ ControlInv /\ ListInv

-------------------------------------------------------------------------------
(* The kinds of steps.  A loop's step moves on, or gives up in one of the three *)
(* ways.                                                                       *)
Links == [Slot -> {"none", "set", "up"}]
Proceed(p, ns) == Enter(p, ns) /\ UNCHANGED result

Connecting ==
  /\ phase = "connect"
  /\ \/ Advance("checktmp", Visited) /\ UNCHANGED result
     \/ Return("err")
  /\ UNCHANGED <<fileVars, lost, tmp, home, inst, link, loaded, histVars>>

Checking ==
  /\ phase = "checktmp"
  /\ \/ Advance("scp", Visited) /\ UNCHANGED result
     \/ Return("err")
  /\ UNCHANGED <<fileVars, lost, tmp, home, inst, link, loaded, histVars>>

Copying ==
  /\ phase = "scp"
  /\ tmp' \in [Host -> TmpState]
  /\ \/ op = "remove" /\ Advance("uninstall", RollList) /\ UNCHANGED result
     \/ op # "remove" /\ Advance("checkenv", Visited) /\ UNCHANGED result
     \/ op = "add" /\ Advance("install", Visited) /\ UNCHANGED result
     \/ GiveUp(DropList)
  /\ UNCHANGED <<fileVars, lost, home, inst, link, loaded, histVars>>

Looking ==
  /\ phase = "checkenv"
  /\ \/ inst[At(node)] = "free" /\ Advance("install", Visited) /\ UNCHANGED result
     \/ GiveUp(DropList)
  /\ UNCHANGED <<fileVars, lost, tmp, home, inst, link, loaded, histVars>>

(* What a node is after its installation, whether it is pointed at its master  *)
(* by then, and where the run goes after the last node.                        *)
Made == IF file.product = "pgsql" /\ node # 1 THEN "files" ELSE "up"
Pointed == \/ file.product = "mariadb" /\ node # 1
           \/ file.product \in Joiners \ {"mariadb-slave"}
After == IF file.product = "mariadb" THEN "replica"
         ELSE IF file.product = "pgsql" THEN "repluser"
         ELSE IF file.product = "mariadb-slave" THEN "datasync" ELSE "drop"
AfterList == IF file.product = "mariadb" THEN Slaves
             ELSE IF file.product \in {"pgsql", "mariadb-slave"} THEN <<1>> ELSE DropList

Installing ==
  /\ phase = "install"
  /\ link' \in Links
  /\ \/ /\ inst[At(node)] = "free" /\ inst' = [inst EXCEPT ![At(node)] = Made]
        /\ \A s \in Slot : s # At(node) => link'[s] = link[s]
        /\ Pointed => link'[At(node)] # "none"
        /\ Advance(After, AfterList) /\ UNCHANGED <<result, blemish>>
     \/ /\ \E i \in InstState : /\ inst' = [inst EXCEPT ![At(node)] = i]
                                /\ inst[At(node)] # "free" => i = inst[At(node)]
                                /\ Mark(i = "orphan")
        /\ FailInstallation(RollList, DropList)
  /\ UNCHANGED <<fileVars, lost, tmp, home, loaded, before, others, runs>>

Removing ==
  /\ phase = "uninstall"
  /\ link' \in Links
  /\ \E i \in InstState, ok \in BOOLEAN :
       /\ inst' = [inst EXCEPT ![At(node)] = i]
       /\ ok => i = IF inst[At(node)] = "orphan" THEN "orphan" ELSE "free"
       /\ Mark(~ok)
  /\ Advance("drop", DropList)
  /\ UNCHANGED <<fileVars, result, lost, tmp, home, loaded, before, others, runs>>

Dropping ==
  /\ phase = "drop"
  /\ tmp' \in [Host -> TmpState] /\ home' \in [Host -> {"intact", "wiped"}]
  /\ UNCHANGED blemish \/ Mark(TRUE)
  /\ \/ Len(todo) > 1 /\ Proceed("drop", Tail(todo))
     \/ ~(Len(todo) > 1) /\ Return(IF result = "none" THEN "ok" ELSE result)
     \/ op = "remove" /\ Return(IF result = "none" THEN "killed" ELSE result)
  /\ UNCHANGED <<fileVars, lost, inst, link, loaded, before, others, runs>>

(* After the installation: a step that changes no instance. *)
OwnMove ==
  \/ phase = "replica" /\ Len(todo) > 1 /\ Proceed("replica", Tail(todo))
  \/ phase = "replica" /\ ~(Len(todo) > 1) /\ file.mode = "MM" /\ Proceed("change", <<1>>)
  \/ phase = "replica" /\ ~(Len(todo) > 1) /\ file.mode # "MM" /\ Proceed("drop", DropList)
  \/ phase = "change" /\ Proceed("master", <<1>>) /\ link'[At(1)] # "none"
  \/ phase = "master" /\ Proceed("drop", DropList)
  \/ phase = "repluser" /\ Proceed("basebackup", Slaves)
  \/ phase = "basebackup" /\ Proceed("chown", todo)
  \/ phase = "chown" /\ Proceed("start", todo)
  \/ phase = "verify" /\ Proceed("drop", DropList) /\ (op = "add" => link[At(1)] # "none")
  \/ phase = "datasync" /\ Proceed("changemaster", <<1>>)
  \/ phase = "changemaster" /\ Proceed("verify", <<1>>)
  \/ phase \in {"datasync", "changemaster"} /\ Proceed("undo", <<1>>)
OwnFailure ==
  /\ phase \in Own
  /\ \/ op = "deploy" /\ FailInstallation(RollList, DropList)
     \/ op = "add" /\ GiveUp(DropList)
LinksGrow == link' \in Links /\ \A s \in Slot : link[s] # "none" => link'[s] # "none"
OwnStep ==
  /\ OwnMove \/ OwnFailure
  /\ LinksGrow /\ loaded' \subseteq Slot
  /\ UNCHANGED <<fileVars, lost, tmp, home, inst, histVars>>

(* Of pgsql, a slave is started; of add-slave of MariaDB, what was joined half *)
(* is undone.                                                                  *)
Starting ==
  /\ phase = "start"
  /\ \/ /\ inst[At(node)] = "files"
        /\ inst' = [inst EXCEPT ![At(node)] = "up"] /\ link' = [link EXCEPT ![At(node)] = "set"]
        /\ \/ Len(todo) > 1 /\ Proceed("basebackup", Tail(todo))
           \/ ~(Len(todo) > 1) /\ Proceed("verify", <<1>>)
           \/ FailInstallation(RollList, DropList)
     \/ UNCHANGED <<inst, link>> /\ FailInstallation(RollList, DropList)
  /\ UNCHANGED <<fileVars, lost, tmp, home, loaded, histVars>>

Undoing ==
  /\ phase = "undo"
  /\ link' \in Links
  /\ \E i \in InstState, bad \in BOOLEAN :
       inst' = [inst EXCEPT ![Joining!Target] = i] /\ Mark(bad)
  /\ GiveUp(DropList)
  /\ UNCHANGED <<fileVars, lost, tmp, home, loaded, before, others, runs>>

ProgramStep ==
  \/ Connecting \/ Checking \/ Copying \/ Looking \/ Installing \/ Removing \/ Dropping
  \/ OwnStep \/ Starting \/ Undoing
-------------------------------------------------------------------------------
(* The loops' bodies are steps of these kinds. *)

(* The node at hand is a node of the file. *)
LEMMA NodeAtHand ==
  ASSUME Where, phase # "done"
  PROVE  /\ todo # <<>> /\ node \in DOMAIN Places /\ At(node) \in Slot /\ HostOf(node) \in Host
         /\ inst[At(node)] \in InstState
<1>1. todo # <<>> /\ todo \in Seq(Nat) /\ file \in Files
  BY DEF Where, TypeInv, SqlTypeOK
<1>2. Len(todo) \in Nat \ {0} /\ DOMAIN todo = 1..Len(todo) /\ node = todo[1]
  BY <1>1, EmptySeq, LenProperties, HeadTailProperties DEF node
<1>a. \A i \in DOMAIN todo : todo[i] \in DOMAIN Places
  BY Zenon DEF Where, TypeInv, SqlTypeOK
<1>3. node \in DOMAIN Places
  BY <1>2, <1>a
<1>4. At(node) \in Slot /\ HostOf(node) \in Host
  BY <1>1, <1>3, FileTyped
<1> QED
  BY <1>1, <1>3, <1>4 DEF Where, TypeInv, SqlTypeOK

LEMMA ResultsTyped ==
  /\ \A t \in TmpState : \A r \in ScpResults(t) : r.tmp \in TmpState
  /\ \A t \in TmpState : AfterDropTmpDir(t) \in TmpState
  /\ \A i \in InstState : \A r \in InstallResults(i) :
       /\ r.inst \in InstState /\ (i # "free" => r.inst = i /\ ~r.ok)
       /\ r.ok => r.inst = "up"
  /\ \A i \in InstState : \A r \in UNInstallResults(i) :
       /\ r.inst \in InstState /\ r.ok \in BOOLEAN
       /\ r.ok => r.inst = IF i = "orphan" THEN "orphan" ELSE "free"
<1>1. ASSUME NEW t \in TmpState, NEW r \in ScpResults(t)
      PROVE  r.tmp \in TmpState
  <2> DEFINE copied == IF t = "foreign" THEN "foreign" ELSE "ours"
  <2>1. \/ r = [tmp |-> "file", ok |-> FALSE]
        \/ r = [tmp |-> copied, ok |-> TRUE]
        \/ r = [tmp |-> copied, ok |-> FALSE]
        \/ r = [tmp |-> t, ok |-> FALSE]
    BY <1>1 DEF ScpResults
  <2>2. copied \in TmpState
    BY DEF TmpState
  <2> HIDE DEF copied
  <2> QED
    BY <2>1, <2>2 DEF TmpState
<1>2. \A t \in TmpState : AfterDropTmpDir(t) \in TmpState
  BY DEF AfterDropTmpDir, TmpState, CdFails
<1>3. ASSUME NEW i \in InstState, NEW r \in InstallResults(i)
      PROVE  /\ r.inst \in InstState /\ (i # "free" => r.inst = i /\ ~r.ok)
             /\ r.ok => r.inst = "up"
  <2>1. CASE i # "free"
    <3>1. r = [inst |-> i, ok |-> FALSE]
      BY <1>3, <2>1 DEF InstallResults, CheckEnvOK
    <3> QED
      BY <3>1
  <2>2. CASE i = "free"
    <3>1. r = [inst |-> "up", ok |-> TRUE] \/ \E j \in InstState : r = [inst |-> j, ok |-> FALSE]
      BY <1>3, <2>2, Zenon DEF InstallResults, CheckEnvOK
    <3> QED
      BY <2>2, <3>1 DEF InstState
  <2> QED
    BY <2>1, <2>2
<1>4. ASSUME NEW i \in InstState, NEW r \in UNInstallResults(i)
      PROVE  /\ r.inst \in InstState /\ r.ok \in BOOLEAN
             /\ r.ok => r.inst = IF i = "orphan" THEN "orphan" ELSE "free"
  <2>1. CASE i \in {"free", "orphan"}
    <3>1. r = [inst |-> i, ok |-> TRUE] \/ r = [inst |-> i, ok |-> FALSE]
      BY <1>4, <2>1 DEF UNInstallResults
    <3>2. r.inst = i /\ (r.ok = TRUE \/ r.ok = FALSE)
      BY <3>1
    <3> QED
      BY <2>1, <3>2
  <2>2. CASE i \notin {"free", "orphan"}
    <3>1. \/ r = [inst |-> "free", ok |-> TRUE]
          \/ r = [inst |-> "free", ok |-> FALSE]
          \/ r = [inst |-> "files", ok |-> FALSE]
          \/ r = [inst |-> i, ok |-> FALSE]
      BY <1>4, <2>2 DEF UNInstallResults
    <3>2. r.inst \in {"free", "files", i}
      BY <3>1
    <3>3. CASE r = [inst |-> "free", ok |-> TRUE]
      <4>1. r.ok = TRUE /\ r.inst = "free"
        BY <3>3
      <4> QED
        BY <2>2, <4>1 DEF InstState
    <3>4. CASE r # [inst |-> "free", ok |-> TRUE]
      <4>1. r.ok = FALSE
        BY <3>1, <3>4
      <4> QED
        BY <2>2, <3>2, <4>1 DEF InstState
    <3> QED
      BY <3>3, <3>4
  <2> QED
    BY <2>1, <2>2
<1> QED
  BY <1>1, <1>2, <1>3, <1>4

LEMMA ScpKinds ==
  ASSUME Where, NEW p, NEW ns, ScpTo(p, ns, DropList),
         \/ op = "remove" /\ p = "uninstall" /\ ns = RollList
         \/ op # "remove" /\ p = "checkenv" /\ ns = Visited
         \/ op = "add" /\ p = "install" /\ ns = Visited
  PROVE  Copying
<1>0. phase = "scp"
  BY DEF ScpTo
<1>1. HostOf(node) \in Host /\ tmp[HostOf(node)] \in TmpState
  BY <1>0, NodeAtHand DEF Where, TypeInv, SqlTypeOK
<1>2. PICK r \in (IF NoSftp(node) THEN {[tmp |-> tmp[HostOf(node)], ok |-> FALSE]}
                                   ELSE ScpResults(tmp[HostOf(node)])) :
        /\ tmp' = [tmp EXCEPT ![HostOf(node)] = r.tmp]
        /\ (Advance(p, ns) /\ UNCHANGED result) \/ GiveUp(DropList)
  BY Zenon DEF ScpTo
<1>3. r.tmp \in TmpState
  BY <1>1, <1>2, ResultsTyped
<1>4. tmp' \in [Host -> TmpState]
  BY <1>1, <1>2, <1>3 DEF Where, TypeInv, SqlTypeOK
<1>5. UNCHANGED <<fileVars, lost, home, inst, link, loaded, histVars>>
  BY DEF ScpTo
<1> QED
  BY <1>0, <1>2, <1>4, <1>5 DEF Copying

LEMMA KeptLinksTyped ==
  ASSUME Where, KeepLinks
  PROVE  link' \in Links
  BY DEF Where, TypeInv, SqlTypeOK, KeepLinks, Links

LEMMA UNInstallKinds ==
  ASSUME Where, UNInstallOn(DropList)
  PROVE  Removing
<1>0. phase = "uninstall" /\ KeepLinks
  BY DEF UNInstallOn
<1>1. inst[At(node)] \in InstState
  BY <1>0, NodeAtHand
<1>2. PICK r \in (IF NoShell(node) THEN {[inst |-> inst[At(node)], ok |-> FALSE]}
                                   ELSE UNInstallResults(inst[At(node)])) :
        inst' = [inst EXCEPT ![At(node)] = r.inst] /\ Mark(~r.ok)
  BY Zenon DEF UNInstallOn
<1>3. /\ r.inst \in InstState /\ r.ok \in BOOLEAN
      /\ r.ok => r.inst = IF inst[At(node)] = "orphan" THEN "orphan" ELSE "free"
  <2>1. CASE NoShell(node)
    <3>1. r = [inst |-> inst[At(node)], ok |-> FALSE]
      BY <1>2, <2>1
    <3> QED
      BY <1>1, <3>1
  <2>2. CASE ~NoShell(node)
    <3>1. r \in UNInstallResults(inst[At(node)])
      BY <1>2, <2>2
    <3> QED
      BY <1>1, <3>1, ResultsTyped
  <2> QED
    BY <2>1, <2>2
<1>4. /\ Advance("drop", DropList)
      /\ UNCHANGED <<fileVars, result, lost, tmp, home, loaded, before, others, runs>>
  BY DEF UNInstallOn
<1> QED
  BY <1>0, <1>2, <1>3, <1>4, KeptLinksTyped, Zenon DEF Removing

LEMMA DropKinds ==
  ASSUME Where, NEW last \in {"ok", "killed"}, DropOn(last), last = "killed" => op = "remove"
  PROVE  Dropping
<1>0. phase = "drop"
  BY DEF DropOn
<1>1. HostOf(node) \in Host /\ tmp[HostOf(node)] \in TmpState
  BY <1>0, NodeAtHand DEF Where, TypeInv, SqlTypeOK
<1>2. /\ tmp' \in [Host -> TmpState] /\ home' \in [Host -> {"intact", "wiped"}]
      /\ UNCHANGED blemish \/ Mark(TRUE)
  <2>1. CASE UNCHANGED <<tmp, home>> /\ Mark(TRUE)
    BY <2>1 DEF Where, TypeInv, SqlTypeOK
  <2>2. CASE /\ tmp'  = [tmp EXCEPT ![HostOf(node)] = AfterDropTmpDir(tmp[HostOf(node)])]
             /\ home' = [home EXCEPT ![HostOf(node)] = IF CdFails(tmp[HostOf(node)]) THEN "wiped" ELSE @]
             /\ UNCHANGED blemish
    BY <1>1, <2>2, ResultsTyped DEF Where, TypeInv, SqlTypeOK, CdFails
  <2> QED
    BY <2>1, <2>2 DEF DropOn
<1>3. /\ \/ Len(todo) > 1 /\ Proceed("drop", Tail(todo))
         \/ ~(Len(todo) > 1) /\ Return(IF result = "none" THEN last ELSE result)
      /\ UNCHANGED <<fileVars, lost, inst, link, loaded, before, others, runs>>
  BY <1>0 DEF DropOn, Proceed, Enter
<1>4. CASE last = "ok"
  BY <1>0, <1>2, <1>3, <1>4 DEF Dropping
<1>5. CASE last = "killed"
  BY <1>0, <1>2, <1>3, <1>5 DEF Dropping
<1> QED
  BY <1>4, <1>5

(* "made" is the state the command leaves the node in; where it "joins", the   *)
(* node is pointed at its master.                                              *)
LEMMA InstallKinds ==
  ASSUME Where, NEW made, NEW joins \in BOOLEAN, made = Made, Pointed => joins, joins => made = "up",
         InstallOn(made, joins, After, AfterList, RollList, DropList)
  PROVE  Installing
<1> DEFINE s == At(node)
           Changes(l) == link' = IF inst[s] = "free" /\ inst'[s] = "up"
                                   THEN [link EXCEPT ![s] = l] ELSE link
<1>0. phase = "install" /\ UNCHANGED <<fileVars, lost, tmp, home, loaded, before, others, runs>>
  BY DEF InstallOn
<1>1. s \in Slot /\ inst[s] \in InstState /\ link \in Links /\ inst \in [Slot -> InstState]
  BY <1>0, NodeAtHand DEF Where, TypeInv, SqlTypeOK, Links
<1>2. PICK r \in (IF NoShell(node) THEN {[inst |-> inst[s], ok |-> FALSE]}
                                   ELSE InstallResults(inst[s])) :
        /\ inst' = [inst EXCEPT ![s] = IF r.ok THEN made ELSE r.inst]
        /\ \E l \in IF ~joins THEN {"none"} ELSE IF r.ok THEN {"set"} ELSE {"none", "set"} :
             Changes(l)
        /\ Mark(r.inst = "orphan")
        /\ IF r.ok THEN Advance(After, AfterList) /\ UNCHANGED result
                   ELSE FailInstallation(RollList, DropList)
  BY Zenon DEF InstallOn
<1>3. PICK l \in IF ~joins THEN {"none"} ELSE IF r.ok THEN {"set"} ELSE {"none", "set"} : Changes(l)
  BY <1>2
<1>4. l \in {"none", "set"} /\ (joins /\ r.ok => l = "set")
  BY <1>3
<1>5. link' \in Links
  BY <1>1, <1>3, <1>4 DEF Links
<1>6. /\ r.inst \in InstState /\ (inst[s] # "free" => r.inst = inst[s] /\ ~r.ok)
      /\ r.ok => r.inst = "up"
  <2>1. CASE NoShell(node)
    <3>1. r = [inst |-> inst[s], ok |-> FALSE]
      BY <1>2, <2>1
    <3>2. r.inst = inst[s] /\ r.ok = FALSE
      BY <3>1
    <3> QED
      BY <1>1, <3>2
  <2>2. CASE ~NoShell(node)
    <3>1. r \in InstallResults(inst[s])
      BY <1>2, <2>2
    <3> QED
      BY <1>1, <3>1, ResultsTyped
  <2> QED
    BY <2>1, <2>2
<1>7. CASE r.ok
  <2>1. inst[s] = "free" /\ inst' = [inst EXCEPT ![s] = Made]
    BY <1>2, <1>6, <1>7
  <2>2. Advance(After, AfterList) /\ UNCHANGED result
    BY <1>2, <1>7
  <2>3. UNCHANGED blemish
    <3>1. ~(r.inst = "orphan")
      BY <1>6, <1>7
    <3>2. blemish \in BOOLEAN
      BY DEF Where, TypeInv
    <3> QED
      BY <1>2, <3>1, <3>2 DEF Mark
  <2>4. \A t \in Slot : t # s => link'[t] = link[t]
    BY <1>1, <1>3 DEF Links
  <2>5. Pointed => link'[s] # "none"
    <3> SUFFICES ASSUME Pointed PROVE link'[s] # "none"
      OBVIOUS
    <3>1. joins /\ Made = "up" /\ l = "set"
      BY <1>4, <1>7
    <3>2. inst'[s] = "up"
      BY <1>1, <2>1, <3>1
    <3>3. link' = [link EXCEPT ![s] = "set"]
      BY <1>3, <2>1, <3>1, <3>2
    <3> QED
      BY <1>1, <3>3 DEF Links
  <2> QED
    BY <1>0, <1>5, <2>1, <2>2, <2>3, <2>4, <2>5, Zenon DEF Installing
<1>8. CASE ~r.ok
  <2>1. /\ inst' = [inst EXCEPT ![s] = r.inst] /\ Mark(r.inst = "orphan")
        /\ FailInstallation(RollList, DropList)
    BY <1>2, <1>8
  <2> QED
    BY <1>0, <1>5, <1>6, <2>1, Zenon DEF Installing
<1> QED
  BY <1>7, <1>8

(* The loops shared by the products. *)
LEMMA LoopKinds ==
  ASSUME Where
  PROVE  /\ \A can : ConnectEach(can, "checktmp", Visited) => Connecting
         /\ CheckTmpDirOn("scp", Visited) => Checking
         /\ CheckEnvOn("install", Visited, DropList) => Looking
<1>1. \A can : ConnectEach(can, "checktmp", Visited) => Connecting
  BY DEF ConnectEach, Connecting
<1>2. CheckTmpDirOn("scp", Visited) => Checking
  BY DEF CheckTmpDirOn, Checking
<1>3. CheckEnvOn("install", Visited, DropList) => Looking
  BY DEF CheckEnvOn, Looking, CheckEnvOK
<1> QED
  BY <1>1, <1>2, <1>3

(* A run that has not returned is a run. *)
LEMMA RunFacts ==
  ASSUME Where, phase # "done"
  PROVE  /\ file \in Files /\ 1 \in DOMAIN Places /\ At(1) \in Slot
         /\ op = "add" <=> file.product \in Joiners
         /\ op \in {"deploy", "remove", "add"}
         /\ phase \in Own \cup {"checkenv", "install", "undo"} => op # "remove"
         /\ link \in Links /\ loaded \subseteq Slot
<1>1. file \in Files /\ Begun /\ op \in {"deploy", "remove", "add"}
  BY DEF Where, TypeInv, SqlTypeOK, Begun
<1>2. 1 \in DOMAIN Places
  <2>1. Last \in Nat \ {0} /\ Len(file.fresh) \in Nat /\ Len(Places) = Last + Len(file.fresh)
        /\ DOMAIN Places = 1..Len(Places)
    BY <1>1, FileTyped
  <2> QED
    BY <2>1
<1>3. At(1) \in Slot
  BY <1>1, <1>2, FileTyped
<1>4. op = "add" <=> file.product \in Joiners
  BY <1>1 DEF Where, RunInv
<1>5. phase \in Own \cup {"checkenv", "install", "undo"} => op # "remove"
  BY DEF Where, ControlInv, Own
<1>6. link \in Links /\ loaded \subseteq Slot
  BY DEF Where, TypeInv, SqlTypeOK, Links
<1> QED
  BY <1>1, <1>2, <1>3, <1>4, <1>5, <1>6


LEMMA MariaDBStep ==
  ASSUME Where, MariaDB!Program
  PROVE  ProgramStep
<1>0. file.product = "mariadb" /\ file.product \notin Joiners
      /\ Visited = Nodes /\ DropList = Nodes /\ RollList = Nodes
  <2>1. file.product = "mariadb"
    BY DEF MariaDB!Program, MariaDB!Mine, MariaDB!Connect, MariaDB!CheckTmpDir, MariaDB!Scp,
       MariaDB!CheckEnv, MariaDB!Install, MariaDB!CheckReplicaSetStatus, MariaDB!MMChangeSlave,
       MariaDB!CheckMasterReplicaStatus, MariaDB!UNInstall, MariaDB!DropTmpDir
  <2> QED
    BY <2>1 DEF Joiners, Joining!Joiners, Visited, DropList, RollList
<1>1. ASSUME MariaDB!Connect PROVE Connecting
  <2>1. ConnectEach(TRUE, "checktmp", Visited)
    BY <1>1, <1>0, MariaDBLoops, MariaDBSame DEF MariaDB!Connect
  <2> QED
    BY <2>1, LoopKinds
<1>2. ASSUME MariaDB!CheckTmpDir PROVE Checking
  <2>1. CheckTmpDirOn("scp", Visited)
    BY <1>2, <1>0, MariaDBLoops, MariaDBSame DEF MariaDB!CheckTmpDir
  <2> QED
    BY <2>1, LoopKinds
<1>3. ASSUME MariaDB!Scp PROVE Copying
  <2>1. ScpTo(IF op = "deploy" THEN "checkenv" ELSE "uninstall", Nodes, DropList)
    BY <1>3, <1>0, MariaDBLoops, MariaDBSame DEF MariaDB!Scp
  <2>2. op \in {"deploy", "remove"}
    BY <1>0, <2>1, RunFacts DEF ScpTo
  <2>3. CASE op = "deploy"
    BY <1>0, <2>1, <2>3, ScpKinds
  <2>4. CASE op = "remove"
    BY <1>0, <2>1, <2>4, ScpKinds
  <2> QED
    BY <2>2, <2>3, <2>4
<1>4. ASSUME MariaDB!CheckEnv PROVE Looking
  <2>1. CheckEnvOn("install", Visited, DropList)
    BY <1>4, <1>0, MariaDBLoops, MariaDBSame DEF MariaDB!CheckEnv
  <2> QED
    BY <2>1, LoopKinds
<1>5. ASSUME MariaDB!UNInstall PROVE Removing
  <2>1. UNInstallOn(DropList)
    BY <1>5, <1>0, MariaDBLoops, MariaDBSame DEF MariaDB!UNInstall
  <2> QED
    BY <2>1, UNInstallKinds
<1>6. ASSUME MariaDB!DropTmpDir PROVE Dropping
  <2>1. DropOn("ok")
    BY <1>6, <1>0, MariaDBLoops, MariaDBSame DEF MariaDB!DropTmpDir
  <2> QED
    BY <2>1, DropKinds
<1>7. ASSUME MariaDB!Install PROVE Installing
  <2>1. InstallOn("up", node # 1, After, AfterList, RollList, DropList)
    BY <1>7, <1>0, MariaDBLoops, MariaDBSame DEF MariaDB!Install, After, AfterList
  <2>2. "up" = Made /\ (Pointed => node # 1) /\ ((node # 1) => Made = "up")
    BY <1>0 DEF Made, Pointed, Joiners, Joining!Joiners
  <2> QED
    BY <2>1, <2>2, InstallKinds
<1>8. ASSUME MariaDB!CheckReplicaSetStatus PROVE OwnStep
  <2>1. phase = "replica"
    BY <1>8 DEF MariaDB!CheckReplicaSetStatus
  <2>2. op = "deploy" /\ link \in Links /\ loaded \subseteq Slot /\ At(1) \in Slot
    BY <1>0, <2>1, RunFacts DEF Own
  <2> QED
    BY <1>8, <1>0, <2>1, <2>2, MariaDBSame DEF MariaDB!CheckReplicaSetStatus, MariaDB!fileVars,
       fileVars, MariaDB!histVars, histVars, OwnStep, OwnMove, OwnFailure, Own, LinksGrow,
       Proceed, Enter, Advance
<1>9. ASSUME MariaDB!MMChangeSlave PROVE OwnStep
  <2>1. phase = "change"
    BY <1>9 DEF MariaDB!MMChangeSlave
  <2>2. op = "deploy" /\ link \in Links /\ loaded \subseteq Slot /\ At(1) \in Slot
    BY <1>0, <2>1, RunFacts DEF Own
  <2>3. UNCHANGED <<fileVars, lost, tmp, home, inst, loaded, histVars>>
    BY <1>9 DEF MariaDB!MMChangeSlave, MariaDB!fileVars, fileVars, MariaDB!histVars, histVars
  <2>4. CASE link' = [link EXCEPT ![At(1)] = "set"] /\ Proceed("master", <<1>>)
    <3>1. LinksGrow /\ link'[At(1)] # "none"
      BY <2>2, <2>4 DEF Links, LinksGrow
    <3> QED
      BY <2>1, <2>2, <2>3, <2>4, <3>1 DEF OwnStep, OwnMove
  <2>5. ASSUME NEW l \in {link[At(1)], "set"}, link' = [link EXCEPT ![At(1)] = l],
               FailInstallation(Nodes, Nodes)
        PROVE  OwnStep
    <3>1. LinksGrow
      BY <2>2, <2>5 DEF Links, LinksGrow
    <3> QED
      BY <1>0, <2>1, <2>2, <2>3, <2>5, <3>1 DEF OwnStep, OwnFailure, Own
  <2> QED
    BY <1>9, <2>4, <2>5, MariaDBSame DEF MariaDB!MMChangeSlave, Proceed
<1>10. ASSUME MariaDB!CheckMasterReplicaStatus PROVE OwnStep
  <2>1. phase = "master"
    BY <1>10 DEF MariaDB!CheckMasterReplicaStatus
  <2>2. op = "deploy" /\ link \in Links /\ loaded \subseteq Slot /\ At(1) \in Slot
    BY <1>0, <2>1, RunFacts DEF Own
  <2> QED
    BY <1>10, <1>0, <2>1, <2>2, MariaDBSame DEF MariaDB!CheckMasterReplicaStatus,
       MariaDB!fileVars, fileVars, MariaDB!histVars, histVars, OwnStep, OwnMove, OwnFailure, Own,
       LinksGrow, Proceed, Enter, Advance
<1> QED
  BY <1>1, <1>2, <1>3, <1>4, <1>5, <1>6, <1>7, <1>8, <1>9, <1>10 DEF MariaDB!Program, ProgramStep

LEMMA GaleraStep ==
  ASSUME Where, Galera!Program
  PROVE  ProgramStep
<1>0. file.product = "galera" /\ file.product \notin Joiners
      /\ Visited = Nodes /\ DropList = Nodes /\ RollList = Nodes
  <2>1. file.product = "galera"
    BY DEF Galera!Program, Galera!Mine, Galera!Connect, Galera!CheckTmpDir, Galera!Scp,
       Galera!CheckEnv, Galera!Install, Galera!UNInstall, Galera!DropTmpDir
  <2> QED
    BY <2>1 DEF Joiners, Joining!Joiners, Visited, DropList, RollList
<1>1. ASSUME Galera!Connect PROVE Connecting
  <2>1. ConnectEach(TRUE, "checktmp", Visited)
    BY <1>1, <1>0, GaleraLoops, GaleraSame DEF Galera!Connect
  <2> QED
    BY <2>1, LoopKinds
<1>2. ASSUME Galera!CheckTmpDir PROVE Checking
  <2>1. CheckTmpDirOn("scp", Visited)
    BY <1>2, <1>0, GaleraLoops, GaleraSame DEF Galera!CheckTmpDir
  <2> QED
    BY <2>1, LoopKinds
<1>3. ASSUME Galera!Scp PROVE Copying
  <2>1. ScpTo("checkenv", Visited, DropList)
    BY <1>3, <1>0, GaleraLoops, GaleraSame DEF Galera!Scp
  <2>2. op = "deploy"
    BY <1>0, <2>1 DEF ScpTo, Where, RunInv, Begun
  <2> QED
    BY <1>0, <2>1, <2>2, ScpKinds
<1>4. ASSUME Galera!CheckEnv PROVE Looking
  <2>1. CheckEnvOn("install", Visited, DropList)
    BY <1>4, <1>0, GaleraLoops, GaleraSame DEF Galera!CheckEnv
  <2> QED
    BY <2>1, LoopKinds
<1>5. ASSUME Galera!UNInstall PROVE Removing
  <2>1. UNInstallOn(DropList)
    BY <1>5, <1>0, GaleraLoops, GaleraSame DEF Galera!UNInstall
  <2> QED
    BY <2>1, UNInstallKinds
<1>6. ASSUME Galera!DropTmpDir PROVE Dropping
  <2>1. DropOn("ok")
    BY <1>6, <1>0, GaleraLoops, GaleraSame DEF Galera!DropTmpDir
  <2> QED
    BY <2>1, DropKinds
<1>7. ASSUME Galera!Install PROVE Installing
  <2>1. InstallOn("up", node # 1, After, AfterList, RollList, DropList)
    BY <1>7, <1>0, GaleraLoops, GaleraSame DEF Galera!Install, After, AfterList,
       Galera!GaleraInstall, Joiners, Joining!Joiners
  <2>2. "up" = Made /\ (Pointed => node # 1) /\ ((node # 1) => Made = "up")
    BY <1>0 DEF Made, Pointed, Joiners, Joining!Joiners
  <2> QED
    BY <2>1, <2>2, InstallKinds
<1> QED
  BY <1>1, <1>2, <1>3, <1>4, <1>5, <1>6, <1>7 DEF Galera!Program, ProgramStep

LEMMA PgsqlStep ==
  ASSUME Where, Pgsql!Program
  PROVE  ProgramStep
<1>0. file.product = "pgsql" /\ file.product \notin Joiners
      /\ Visited = Nodes /\ DropList = Nodes /\ RollList = Nodes
  <2>1. file.product = "pgsql"
    BY DEF Pgsql!Program, Pgsql!Mine, Pgsql!Connect, Pgsql!CheckTmpDir, Pgsql!Scp,
       Pgsql!CheckEnv, Pgsql!Install, Pgsql!CreateReplUser, Pgsql!Replication, Pgsql!ChownData,
       Pgsql!SystemCtl, Pgsql!CheckSlaves, Pgsql!UNInstall, Pgsql!DropTmpDir
  <2> QED
    BY <2>1 DEF Joiners, Joining!Joiners, Visited, DropList, RollList
<1>1. ASSUME Pgsql!Connect PROVE Connecting
  <2>1. ConnectEach(TRUE, "checktmp", Visited)
    BY <1>1, <1>0, PgsqlLoops, PgsqlSame DEF Pgsql!Connect
  <2> QED
    BY <2>1, LoopKinds
<1>2. ASSUME Pgsql!CheckTmpDir PROVE Checking
  <2>1. CheckTmpDirOn("scp", Visited)
    BY <1>2, <1>0, PgsqlLoops, PgsqlSame DEF Pgsql!CheckTmpDir
  <2> QED
    BY <2>1, LoopKinds
<1>3. ASSUME Pgsql!Scp PROVE Copying
  <2>1. ScpTo(IF op = "deploy" THEN "checkenv" ELSE "uninstall", Nodes, DropList)
    BY <1>3, <1>0, PgsqlLoops, PgsqlSame DEF Pgsql!Scp
  <2>2. op \in {"deploy", "remove"}
    BY <1>0, <2>1, RunFacts DEF ScpTo
  <2>3. CASE op = "deploy"
    BY <1>0, <2>1, <2>3, ScpKinds
  <2>4. CASE op = "remove"
    BY <1>0, <2>1, <2>4, ScpKinds
  <2> QED
    BY <2>2, <2>3, <2>4
<1>4. ASSUME Pgsql!CheckEnv PROVE Looking
  <2>1. CheckEnvOn("install", Visited, DropList)
    BY <1>4, <1>0, PgsqlLoops, PgsqlSame DEF Pgsql!CheckEnv
  <2> QED
    BY <2>1, LoopKinds
<1>5. ASSUME Pgsql!UNInstall PROVE Removing
  <2>1. UNInstallOn(DropList)
    BY <1>5, <1>0, PgsqlLoops, PgsqlSame DEF Pgsql!UNInstall
  <2> QED
    BY <2>1, UNInstallKinds
<1>6. ASSUME Pgsql!DropTmpDir PROVE Dropping
  <2>1. DropOn("ok")
    BY <1>6, <1>0, PgsqlLoops, PgsqlSame DEF Pgsql!DropTmpDir
  <2> QED
    BY <2>1, DropKinds
<1>7. ASSUME Pgsql!Install PROVE Installing
  <2>1. InstallOn((IF node = 1 THEN "up" ELSE "files"), FALSE, After, AfterList, RollList, DropList)
    BY <1>7, <1>0, PgsqlLoops, PgsqlSame DEF Pgsql!Install, After, AfterList
  <2>2. (IF node = 1 THEN "up" ELSE "files") = Made /\ (Pointed => FALSE) /\ ((FALSE) => Made = "up")
    BY <1>0 DEF Made, Pointed, Joiners, Joining!Joiners
  <2> QED
    BY <2>1, <2>2, InstallKinds
<1>8. ASSUME Pgsql!CreateReplUser PROVE OwnStep
  <2>1. phase = "repluser"
    BY <1>8 DEF Pgsql!CreateReplUser
  <2>2. op = "deploy" /\ link \in Links /\ loaded \subseteq Slot /\ At(1) \in Slot
    BY <1>0, <2>1, RunFacts DEF Own
  <2> QED
    BY <1>8, <1>0, <2>1, <2>2, PgsqlSame DEF Pgsql!CreateReplUser, Pgsql!Command, Pgsql!fileVars,
       fileVars, Pgsql!histVars, histVars, OwnStep, OwnMove, OwnFailure, Own, LinksGrow, Proceed,
       Enter, Advance
<1>9. ASSUME Pgsql!Replication PROVE OwnStep
  <2>1. phase = "basebackup"
    BY <1>9 DEF Pgsql!Replication
  <2>2. op = "deploy" /\ link \in Links /\ loaded \subseteq Slot /\ At(1) \in Slot
    BY <1>0, <2>1, RunFacts DEF Own
  <2> QED
    BY <1>9, <1>0, <2>1, <2>2, PgsqlSame DEF Pgsql!Replication, Pgsql!Command, Pgsql!fileVars,
       fileVars, Pgsql!histVars, histVars, OwnStep, OwnMove, OwnFailure, Own, LinksGrow, Proceed,
       Enter, Advance
<1>10. ASSUME Pgsql!ChownData PROVE OwnStep
  <2>1. phase = "chown"
    BY <1>10 DEF Pgsql!ChownData
  <2>2. op = "deploy" /\ link \in Links /\ loaded \subseteq Slot /\ At(1) \in Slot
    BY <1>0, <2>1, RunFacts DEF Own
  <2> QED
    BY <1>10, <1>0, <2>1, <2>2, PgsqlSame DEF Pgsql!ChownData, Pgsql!Command, Pgsql!fileVars,
       fileVars, Pgsql!histVars, histVars, OwnStep, OwnMove, OwnFailure, Own, LinksGrow, Proceed,
       Enter, Advance
<1>11. ASSUME Pgsql!SystemCtl PROVE Starting
  BY <1>11, <1>0, PgsqlSame DEF Pgsql!SystemCtl, Pgsql!fileVars, fileVars, Pgsql!histVars,
     histVars, Starting, Proceed, Enter
<1>12. ASSUME Pgsql!CheckSlaves PROVE OwnStep
  <2>1. phase = "verify"
    BY <1>12 DEF Pgsql!CheckSlaves
  <2>2. op = "deploy" /\ link \in Links /\ loaded \subseteq Slot /\ At(1) \in Slot
    BY <1>0, <2>1, RunFacts DEF Own
  <2> QED
    BY <1>12, <1>0, <2>1, <2>2, PgsqlSame DEF Pgsql!CheckSlaves, Pgsql!Command, Pgsql!fileVars,
       fileVars, Pgsql!histVars, histVars, OwnStep, OwnMove, OwnFailure, Own, LinksGrow, Proceed,
       Enter, Advance
<1> QED
  BY <1>1, <1>2, <1>3, <1>4, <1>5, <1>6, <1>7, <1>8, <1>9, <1>10, <1>11, <1>12 DEF Pgsql!Program,
     ProgramStep

LEMMA PgAutoStep ==
  ASSUME Where, PgAuto!Program
  PROVE  ProgramStep
<1>0. file.product = "pgauto" /\ file.product \notin Joiners
      /\ Visited = PgAuto!Forward /\ DropList = PgAuto!Drops
      /\ RollList = IF op = "remove" THEN PgAuto!Removed ELSE PgAuto!Roll
  <2>1. file.product = "pgauto"
    BY DEF PgAuto!Program, PgAuto!Mine, PgAuto!Connect, PgAuto!CheckTmpDir, PgAuto!Scp,
       PgAuto!CheckEnv, PgAuto!Install, PgAuto!UNInstall, PgAuto!DropTmpDir
  <2> QED
    BY <2>1 DEF Joiners, Joining!Joiners, Visited, DropList, RollList
<1>1. ASSUME PgAuto!Connect PROVE Connecting
  <2>1. ConnectEach(file.key => node <= Len(file.nodes), "checktmp", Visited)
    BY <1>1, <1>0, PgAutoLoops, PgAutoSame DEF PgAuto!Connect
  <2> QED
    BY <2>1, LoopKinds
<1>2. ASSUME PgAuto!CheckTmpDir PROVE Checking
  <2>1. CheckTmpDirOn("scp", Visited)
    BY <1>2, <1>0, PgAutoLoops, PgAutoSame DEF PgAuto!CheckTmpDir
  <2> QED
    BY <2>1, LoopKinds
<1>3. ASSUME PgAuto!Scp PROVE Copying
  <2>1. phase = "scp"
    BY <1>3, PgAutoLoops DEF PgAuto!Scp, ScpTo
  <2>2. op \in {"deploy", "remove"}
    BY <1>0, <2>1, RunFacts
  <2>3. CASE op = "deploy"
    <3>1. ScpTo("checkenv", Visited, DropList)
      BY <1>3, <1>0, <2>3, PgAutoLoops DEF PgAuto!Scp
    <3> QED
      BY <2>3, <3>1, ScpKinds
  <2>4. CASE op = "remove"
    <3>1. ScpTo("uninstall", RollList, DropList)
      BY <1>3, <1>0, <2>4, PgAutoLoops DEF PgAuto!Scp
    <3> QED
      BY <2>4, <3>1, ScpKinds
  <2> QED
    BY <2>2, <2>3, <2>4
<1>4. ASSUME PgAuto!CheckEnv PROVE Looking
  <2>1. CheckEnvOn("install", Visited, DropList)
    BY <1>4, <1>0, PgAutoLoops, PgAutoSame DEF PgAuto!CheckEnv
  <2> QED
    BY <2>1, LoopKinds
<1>5. ASSUME PgAuto!UNInstall PROVE Removing
  <2>1. UNInstallOn(DropList)
    BY <1>5, <1>0, PgAutoLoops, PgAutoSame DEF PgAuto!UNInstall
  <2> QED
    BY <2>1, UNInstallKinds
<1>6. ASSUME PgAuto!DropTmpDir PROVE Dropping
  <2>1. DropOn(IF op = "remove" /\ PgAuto!NewPGdata THEN "killed" ELSE "ok")
    BY <1>6, PgAutoLoops DEF PgAuto!DropTmpDir
  <2>2. CASE op = "remove" /\ PgAuto!NewPGdata
    BY <2>1, <2>2, DropKinds
  <2>3. CASE ~(op = "remove" /\ PgAuto!NewPGdata)
    BY <2>1, <2>3, DropKinds
  <2> QED
    BY <2>2, <2>3
<1>7. ASSUME PgAuto!Install PROVE Installing
  <2>1. phase = "install" /\ \E joins \in BOOLEAN :
          InstallOn("up", joins, "drop", DropList, PgAuto!Roll, DropList)
    <3>1. \E joins \in BOOLEAN : InstallOn("up", joins, "drop", DropList, PgAuto!Roll, DropList)
      <4>1. CASE PgAuto!MonitorInstall
        BY <4>1, <1>0, PgAutoLoops DEF PgAuto!MonitorInstall
      <4>2. CASE PgAuto!PGdataInstall
        <5>1. InstallOn("up", PgAuto!node > 2, "drop", DropList, PgAuto!Roll, DropList)
          BY <4>2, <1>0, PgAutoLoops DEF PgAuto!PGdataInstall
        <5>2. (PgAuto!node > 2) \in BOOLEAN
          OBVIOUS
        <5> QED
          BY <5>1, <5>2, Zenon
      <4> QED
        BY <1>7, <4>1, <4>2 DEF PgAuto!Install
    <3> QED
      BY <3>1 DEF InstallOn
  <2>2. After = "drop" /\ AfterList = DropList /\ RollList = PgAuto!Roll /\ Made = "up" /\ ~Pointed
    <3>1. op # "remove"
      BY <2>1, RunFacts
    <3> QED
      BY <1>0, <3>1 DEF After, AfterList, Made, Pointed
  <2> QED
    BY <2>1, <2>2, InstallKinds
<1> QED
  BY <1>1, <1>2, <1>3, <1>4, <1>5, <1>6, <1>7 DEF PgAuto!Program, ProgramStep

LEMMA JoiningStep ==
  ASSUME Where, Joining!Program
  PROVE  ProgramStep
<1>a. phase # "done" /\ file.product \in Joiners
  BY JoiningLoops DEF Joining!Program, Joining!Mine, Joiners, Joining!Connect,
     Joining!CheckTmpDir, Joining!Scp, Joining!CheckEnv, Joining!InstallAndJoin,
     Joining!InstallMariaDB, Joining!DataSync, Joining!ChangeMaster, Joining!UndoJoin,
     Joining!CheckSlavestatus, Joining!DropTmpDir,
     ConnectEach, CheckTmpDirOn, ScpTo, CheckEnvOn, InstallOn, DropOn
<1>b. /\ op = "add" /\ file \in Files /\ link \in Links /\ loaded \subseteq Slot
      /\ At(1) \in Slot /\ 1 \in DOMAIN Places
  BY <1>a, RunFacts
<1>0. Visited = <<1>> /\ DropList = <<1>> /\ RollList = <<>> /\ Joining!One = <<1>>
  BY <1>a, <1>b, JoinerLists DEF Joining!One
<1>c. Joining!Target \in Slot /\ Joining!New = At(1)
  <2>1. HostOf(1) \in Host /\ file.from \in Slot
    BY <1>b, FileTyped, FilesAssumption
  <2>2. Joining!Target = <<HostOf(1), file.from[2]>>
    BY DEF Joining!Target, Joining!HostOf, HostOf, Joining!At, At, Joining!Places, Places
  <2> QED
    BY <2>1, <2>2, JoiningSame DEF Slot, Joining!New
<1>1. ASSUME Joining!Connect PROVE Connecting
  <2>1. ConnectEach(TRUE, "checktmp", Visited)
    BY <1>1, <1>0, JoiningLoops, JoiningSame DEF Joining!Connect
  <2> QED
    BY <2>1, LoopKinds
<1>2. ASSUME Joining!CheckTmpDir PROVE Checking
  <2>1. CheckTmpDirOn("scp", Visited)
    BY <1>2, <1>0, JoiningLoops, JoiningSame DEF Joining!CheckTmpDir
  <2> QED
    BY <2>1, LoopKinds
<1>3. ASSUME Joining!Scp PROVE Copying
  <2>1. ScpTo(IF file.product = "pgsql-slave" THEN "install" ELSE "checkenv", Visited, DropList)
    BY <1>3, <1>0, JoiningLoops DEF Joining!Scp
  <2>2. CASE file.product = "pgsql-slave"
    BY <1>b, <2>1, <2>2, ScpKinds
  <2>3. CASE file.product # "pgsql-slave"
    BY <1>b, <2>1, <2>3, ScpKinds
  <2> QED
    BY <2>2, <2>3
<1>4. ASSUME Joining!CheckEnv PROVE Looking
  <2>1. CheckEnvOn("install", Visited, DropList)
    BY <1>4, <1>0, JoiningLoops, JoiningSame DEF Joining!CheckEnv
  <2> QED
    BY <2>1, LoopKinds
<1>6. ASSUME Joining!DropTmpDir PROVE Dropping
  <2>1. DropOn("ok")
    BY <1>6, <1>0, JoiningLoops, JoiningSame DEF Joining!DropTmpDir
  <2> QED
    BY <2>1, DropKinds
<1>7. ASSUME Joining!InstallAndJoin PROVE Installing
  <2>1. file.product \in Joiners \ {"mariadb-slave"}
    BY <1>7, <1>a DEF Joining!InstallAndJoin, Joining!MariaDB
  <2>2. /\ After = "drop" /\ AfterList = DropList /\ Made = "up"
    BY <2>1 DEF After, AfterList, Made, Joiners, Joining!Joiners
  <2>3. InstallOn("up", TRUE, After, AfterList, RollList, DropList)
    BY <1>7, <1>0, <2>2, JoiningLoops DEF Joining!InstallAndJoin
  <2> QED
    BY <2>2, <2>3, InstallKinds
<1>8. ASSUME Joining!InstallMariaDB PROVE Installing
  <2>1. file.product = "mariadb-slave"
    BY <1>8 DEF Joining!InstallMariaDB, Joining!MariaDB
  <2>2. /\ After = "datasync" /\ AfterList = <<1>> /\ Made = "up" /\ ~Pointed
    BY <2>1 DEF After, AfterList, Made, Pointed, Joiners, Joining!Joiners
  <2>3. InstallOn("up", FALSE, After, AfterList, RollList, DropList)
    BY <1>8, <1>0, <2>2, JoiningLoops DEF Joining!InstallMariaDB
  <2> QED
    BY <2>2, <2>3, InstallKinds
<1>9. ASSUME Joining!DataSync PROVE OwnStep
  <2>1. /\ phase = "datasync" /\ (Proceed("changemaster", <<1>>) \/ Proceed("undo", <<1>>))
        /\ UNCHANGED <<fileVars, lost, tmp, home, inst, link, histVars>>
    BY <1>9, <1>0, JoiningSame DEF Joining!DataSync, Proceed, Joining!fileVars, fileVars,
       Joining!histVars, histVars
  <2>2. loaded' \subseteq Slot
    BY <1>9, <1>b, <1>c DEF Joining!DataSync
  <2>3. LinksGrow
    BY <1>b, <2>1 DEF LinksGrow
  <2> QED
    BY <2>1, <2>2, <2>3 DEF OwnStep, OwnMove
<1>10. ASSUME Joining!ChangeMaster PROVE OwnStep
  <2>1. /\ phase = "changemaster"
        /\ UNCHANGED <<fileVars, lost, tmp, home, inst, loaded, histVars>>
    BY <1>10 DEF Joining!ChangeMaster, Joining!fileVars, fileVars, Joining!histVars, histVars
  <2>2. Proceed("verify", <<1>>) \/ Proceed("undo", <<1>>) \/ GiveUp(DropList)
    BY <1>10, <1>0, JoiningSame DEF Joining!ChangeMaster, Proceed
  <2>3. LinksGrow
    <3>1. link' = link \/ link' = [link EXCEPT ![Joining!Target] = "set"]
      BY <1>10, <1>b, <1>c DEF Joining!ChangeMaster, Links
    <3> QED
      BY <1>b, <1>c, <3>1 DEF LinksGrow, Links
  <2> QED
    BY <1>b, <2>1, <2>2, <2>3 DEF OwnStep, OwnMove, OwnFailure, Own
<1>11. ASSUME Joining!UndoJoin PROVE Undoing
  <2>1. /\ phase = "undo" /\ KeepLinks /\ GiveUp(DropList)
        /\ UNCHANGED <<fileVars, lost, tmp, home, loaded, before, others, runs>>
    BY <1>11, <1>0, JoiningSame DEF Joining!UndoJoin, Joining!fileVars, fileVars,
       Joining!histVars, histVars, Joining!KeepLinks, KeepLinks,
       Joining!Slot, Slot
  <2>2. PICK r \in UNInstallResults(inst[Joining!Target]) :
          /\ inst' = [inst EXCEPT ![Joining!Target] =
                        IF Joining!Target # Joining!New /\ r.inst = "free" /\ inst[Joining!Target] # "free"
                          THEN "files" ELSE r.inst]
          /\ Mark(~r.ok)
    BY <1>11 DEF Joining!UndoJoin, Joining!UNInstallResults, UNInstallResults, Joining!Mark, Mark
  <2>3. inst[Joining!Target] \in InstState
    BY <1>c DEF Where, TypeInv, SqlTypeOK
  <2>4. r.inst \in InstState /\ r.ok \in BOOLEAN
    BY <2>2, <2>3, ResultsTyped
  <2> DEFINE i == IF Joining!Target # Joining!New /\ r.inst = "free" /\ inst[Joining!Target] # "free"
                    THEN "files" ELSE r.inst
  <2>5. i \in InstState
    BY <2>4 DEF InstState
  <2>6. inst' = [inst EXCEPT ![Joining!Target] = i] /\ Mark(~r.ok)
    BY <2>2
  <2> HIDE DEF i
  <2> QED
    BY <2>1, <2>4, <2>5, <2>6, KeptLinksTyped, Zenon DEF Undoing
<1>12. ASSUME Joining!CheckSlavestatus PROVE OwnStep
  <2>1. /\ phase = "verify"
        /\ (Proceed("drop", DropList) /\ link[At(1)] = "up") \/ GiveUp(DropList)
        /\ UNCHANGED <<fileVars, lost, tmp, home, inst, link, loaded, histVars>>
    BY <1>12, <1>0, <1>c, JoiningSame DEF Joining!CheckSlavestatus, Joining!fileVars, fileVars,
       Joining!histVars, histVars, Proceed
  <2>2. LinksGrow
    BY <1>b, <2>1 DEF LinksGrow
  <2> QED
    BY <1>b, <2>1, <2>2 DEF OwnStep, OwnMove, OwnFailure, Own
<1> QED
  BY <1>1, <1>2, <1>3, <1>4, <1>6, <1>7, <1>8, <1>9, <1>10, <1>11, <1>12 DEF Joining!Program,
     ProgramStep

LEMMA ProgramKinds ==
  ASSUME Where, Program
  PROVE  ProgramStep
  BY MariaDBStep, GaleraStep, PgsqlStep, PgAutoStep, JoiningStep DEF Program
-------------------------------------------------------------------------------
(* What a step leaves to visit. *)

(* ListInv for any phase and list, of the file at hand. *)
Listed(p, t) ==
  /\ p \in {"connect", "checktmp", "scp", "checkenv", "install"} => TailOf(t, Visited)
  /\ p \in {"replica", "basebackup", "chown", "start"} => TailOf(t, Slaves)
  /\ p \in {"change", "master", "repluser", "verify", "datasync", "changemaster", "undo"} => t = <<1>>
  /\ p = "uninstall" => TailOf(t, RollList)
  /\ p = "drop" => t \in Seq(Nat) /\ t # <<>> /\ Within(t)
  /\ p = "done" => t = <<>>

LEMMA TailOfTyped ==
  ASSUME NEW L \in Seq(Nat), Within(L), NEW t, TailOf(t, L)
  PROVE  t \in Seq(Nat) /\ t # <<>> /\ Within(t)
<1>1. t \in Seq(Nat) /\ Len(t) \in 1..Len(L) /\ Len(L) \in Nat /\ t # <<>>
  BY EmptySeq, LenProperties DEF TailOf
<1>2. ASSUME NEW i \in 1..Len(t) PROVE t[i] \in DOMAIN Places
  <2>1. t[i] = L[Gone(t, L) + i] /\ Gone(t, L) + i \in 1..Len(L)
    BY <1>1 DEF TailOf, Gone
  <2> QED
    BY <2>1 DEF Within
<1> QED
  BY <1>1, <1>2 DEF Within

LEMMA ListedTyped ==
  ASSUME file \in Files, NEW p \in Phases, NEW t, Listed(p, t)
  PROVE  t \in Seq(Nat) /\ (p = "done" <=> t = <<>>) /\ \A i \in DOMAIN t : t[i] \in DOMAIN Places
<1>1. SUFFICES /\ t \in Seq(Nat) /\ Within(t)
               /\ p = "done" <=> t = <<>>
  <2>1. t \in Seq(Nat) => DOMAIN t = 1..Len(t)
    BY LenProperties
  <2> QED
    BY <2>1 DEF Within
<1>2. Visited \in Seq(Nat) /\ Within(Visited)
  BY VisitedList
<1>3. RollList \in Seq(Nat) /\ Within(RollList)
  BY RunLists
<1>4. Slaves \in Seq(Nat) /\ Within(Slaves) /\ 1 \in DOMAIN Places
  <2>1. /\ Last \in Nat \ {0} /\ Len(file.fresh) \in Nat /\ DOMAIN Places = 1..Len(Places)
        /\ Len(Places) = Last + Len(file.fresh)
    BY FileTyped
  <2>2. Slaves \in Seq(Nat) /\ Len(Slaves) = Last - 1 /\ \A i \in 1..(Last - 1) : Slaves[i] = i + 1
    BY NodesList
  <2> QED
    BY <2>1, <2>2 DEF Within
<1>5. CASE p \in {"connect", "checktmp", "scp", "checkenv", "install"}
  BY <1>2, <1>5, TailOfTyped DEF Listed
<1>6. CASE p \in {"replica", "basebackup", "chown", "start"}
  BY <1>4, <1>6, TailOfTyped DEF Listed
<1>7. CASE p \in {"change", "master", "repluser", "verify", "datasync", "changemaster", "undo"}
  <2>1. t = <<1>>
    BY <1>7 DEF Listed
  <2> QED
    BY <1>4, <1>7, <2>1 DEF Within
<1>8. CASE p = "uninstall"
  BY <1>3, <1>8, TailOfTyped DEF Listed
<1>9. CASE p = "drop"
  BY <1>9 DEF Listed
<1>10. CASE p = "done"
  <2>1. t = <<>>
    BY <1>10 DEF Listed
  <2> QED
    BY <1>10, <2>1 DEF Within
<1> QED
  BY <1>5, <1>6, <1>7, <1>8, <1>9, <1>10 DEF Phases

(* ListInv is Listed. *)
LEMMA ListedNow ==
  ASSUME TypeInv
  PROVE  ListInv <=> Listed(phase, todo)
<1>1. phase = "done" => todo = <<>>
  BY DEF TypeInv, SqlTypeOK
<1>2. todo \in Seq(Nat)
  BY DEF TypeInv
<1> QED
  BY <1>1, <1>2 DEF ListInv, Listed

(* The lists a loop may begin with. *)
LEMMA WholeLists ==
  ASSUME Where, phase # "done"
  PROVE  /\ TailOf(Visited, Visited) /\ Visited \in Seq(Nat) /\ Slaves \in Seq(Nat)
         /\ DropList \in Seq(Nat) /\ DropList # <<>> /\ Within(DropList) /\ RollList \in Seq(Nat)
         /\ RollList # <<>> => TailOf(RollList, RollList)
         /\ file.product \in {"mariadb", "pgsql"} => TailOf(Slaves, Slaves)
         /\ op = "remove" => RollList # <<>>
<1>1. file \in Files /\ (op = "add" <=> file.product \in Joiners)
  BY RunFacts
<1>2. TailOf(Visited, Visited) /\ Visited \in Seq(Nat)
  BY <1>1, VisitedList, WholeIsTail
<1>3. /\ DropList \in Seq(Nat) /\ DropList # <<>> /\ Within(DropList) /\ RollList \in Seq(Nat)
      /\ op = "remove" => RollList # <<>>
  BY <1>1, RunLists
<1>4. RollList # <<>> => TailOf(RollList, RollList)
  BY <1>3, WholeIsTail
<1>5. Slaves \in Seq(Nat) /\ Len(Slaves) = Last - 1
  BY <1>1, NodesList
<1>6. file.product \in {"mariadb", "pgsql"} => TailOf(Slaves, Slaves)
  <2> SUFFICES ASSUME file.product \in {"mariadb", "pgsql"} PROVE TailOf(Slaves, Slaves)
    OBVIOUS
  <2>1. Last >= 2 /\ Last \in Nat
    BY <1>1, FileTyped DEF Where, RunInv, Begun, Deployed
  <2>2. Slaves # <<>>
    BY <1>5, <2>1, EmptySeq
  <2> QED
    BY <1>5, <2>2, WholeIsTail
<1> QED
  BY <1>2, <1>3, <1>4, <1>5, <1>6

(* A loop's next step. *)
LEMMA Advances ==
  ASSUME NEW L \in Seq(Nat), TailOf(todo, L), NEW p, NEW ns, Advance(p, ns)
  PROVE  \/ phase' = phase /\ TailOf(todo', L) /\ Gone(todo', L) = Gone(todo, L) + 1
         \/ phase' = p /\ todo' = ns /\ Gone(todo, L) + 1 = Len(L)
<1>1. CASE Len(todo) > 1
  BY <1>1, TailShrinks DEF Advance
<1>2. CASE ~(Len(todo) > 1)
  BY <1>2, TailShrinks DEF Advance, Enter
<1> QED
  BY <1>1, <1>2

(* The three ways to give up, and the end. *)
LEMMA GivesUp ==
  ASSUME Where, phase # "done"
  PROVE  /\ GiveUp(DropList) => phase' = "drop" /\ result' = "err" /\ Listed(phase', todo')
         /\ FailInstallation(RollList, DropList) =>
              /\ result' = "err" /\ Listed(phase', todo')
              /\ \/ phase' = "drop" /\ todo' = DropList /\ (keep \/ RollList = <<>>)
                 \/ phase' = "uninstall" /\ todo' = RollList /\ RollList # <<>>
<1>1. DropList \in Seq(Nat) /\ DropList # <<>> /\ Within(DropList) /\ (RollList # <<>> => TailOf(RollList, RollList))
  BY WholeLists
<1>2. GiveUp(DropList) => phase' = "drop" /\ result' = "err" /\ todo' = DropList
  BY DEF GiveUp, Enter
<1>3. FailInstallation(RollList, DropList) =>
        /\ result' = "err"
        /\ \/ phase' = "drop" /\ todo' = DropList /\ (keep \/ RollList = <<>>)
           \/ phase' = "uninstall" /\ todo' = RollList /\ RollList # <<>>
  BY DEF FailInstallation, GiveUp, Enter
<1>4. Listed("drop", DropList) /\ (RollList # <<>> => Listed("uninstall", RollList))
  BY <1>1 DEF Listed
<1> QED
  BY <1>2, <1>3, <1>4

(* After every step of a run the phase has its list. *)
LEMMA StepLists ==
  ASSUME Where, ProgramStep
  PROVE  phase' \in Phases /\ Listed(phase', todo') /\ UNCHANGED <<file, op, keep>>
<1>0. phase # "done" /\ UNCHANGED <<file, op, keep>>
  BY DEF ProgramStep, Connecting, Checking, Copying, Looking, Installing, Removing, Dropping,
     OwnStep,
         OwnMove, OwnFailure, Starting, Undoing, Own, fileVars, histVars
<1> SUFFICES phase' \in Phases /\ Listed(phase', todo')
  BY <1>0
<1>a. Listed(phase, todo)
  BY ListedNow DEF Where
<1>b. /\ TailOf(Visited, Visited) /\ Visited \in Seq(Nat) /\ Slaves \in Seq(Nat)
      /\ DropList \in Seq(Nat) /\ DropList # <<>> /\ Within(DropList) /\ RollList \in Seq(Nat)
      /\ RollList # <<>> => TailOf(RollList, RollList)
      /\ file.product \in {"mariadb", "pgsql"} => TailOf(Slaves, Slaves)
      /\ op = "remove" => RollList # <<>>
  BY <1>0, WholeLists
<1>c. /\ GiveUp(DropList) => phase' = "drop" /\ Listed(phase', todo')
      /\ FailInstallation(RollList, DropList) =>
           phase' \in {"drop", "uninstall"} /\ Listed(phase', todo')
      /\ \A r : Return(r) => phase' = "done" /\ Listed(phase', todo')
  <2>1. \A r : Return(r) => phase' = "done" /\ Listed(phase', todo')
    BY DEF Return, Enter, Listed
  <2> QED
    BY <1>0, <2>1, GivesUp
<1>d. Listed("drop", DropList)
  BY <1>b DEF Listed
<1>1. ASSUME NEW p \in {"checktmp", "scp", "checkenv", "install"}, Advance(p, Visited),
             phase \in {"connect", "checktmp", "scp", "checkenv"}
      PROVE  phase' \in Phases /\ Listed(phase', todo')
  <2>1. TailOf(todo, Visited)
    BY <1>a, <1>1 DEF Listed
  <2>2. (phase' = phase /\ TailOf(todo', Visited)) \/ (phase' = p /\ todo' = Visited)
    BY <1>1, <1>b, <2>1, Advances
  <2> QED
    BY <1>1, <1>b, <2>2 DEF Listed, Phases
<1>2. CASE Connecting
  BY <1>2, <1>1, <1>c DEF Connecting, Phases
<1>3. CASE Checking
  BY <1>3, <1>1, <1>c DEF Checking, Phases
<1>4. CASE Copying
  <2>1. CASE op = "remove" /\ Advance("uninstall", RollList)
    <3>1. phase = "scp" /\ TailOf(todo, Visited)
      BY <1>4, <1>a DEF Copying, Listed
    <3>2. (phase' = phase /\ TailOf(todo', Visited)) \/ (phase' = "uninstall" /\ todo' = RollList)
      BY <1>b, <2>1, <3>1, Advances
    <3> QED
      BY <1>b, <2>1, <3>1, <3>2 DEF Listed, Phases
  <2> QED
    BY <1>4, <1>1, <1>c, <2>1 DEF Copying, Phases
<1>5. CASE Looking
  BY <1>5, <1>1, <1>c DEF Looking, Phases
<1>6. CASE Installing
  <2>1. phase = "install" /\ TailOf(todo, Visited)
    BY <1>6, <1>a DEF Installing, Listed
  <2>2. CASE Advance(After, AfterList)
    <3>1. (phase' = phase /\ TailOf(todo', Visited)) \/ (phase' = After /\ todo' = AfterList)
      BY <1>b, <2>1, <2>2, Advances
    <3>2. After \in Phases /\ Listed(After, AfterList)
      BY <1>b, <1>d DEF After, AfterList, Listed, Phases
    <3> QED
      BY <2>1, <3>1, <3>2 DEF Listed, Phases
  <2>3. CASE FailInstallation(RollList, DropList)
    BY <1>c, <2>3 DEF Phases
  <2> QED
    BY <1>6, <2>2, <2>3, Zenon DEF Installing
<1>7. CASE Removing
  <2>1. phase = "uninstall" /\ TailOf(todo, RollList) /\ Advance("drop", DropList)
    BY <1>7, <1>a DEF Removing, Listed
  <2>2. (phase' = phase /\ TailOf(todo', RollList)) \/ (phase' = "drop" /\ todo' = DropList)
    BY <1>b, <2>1, Advances
  <2> QED
    BY <1>d, <2>1, <2>2 DEF Listed, Phases
<1>8. CASE Dropping
  <2>1. phase = "drop" /\ todo \in Seq(Nat) /\ todo # <<>> /\ Within(todo)
    BY <1>8, <1>a DEF Dropping, Listed
  <2>2. CASE Len(todo) > 1 /\ Proceed("drop", Tail(todo))
    <3>1. /\ Tail(todo) \in Seq(Nat) /\ Len(Tail(todo)) = Len(todo) - 1
          /\ \A i \in 1..Len(Tail(todo)) : Tail(todo)[i] = todo[i + 1]
      BY <2>1, TailTyped
    <3>2. Len(todo) \in Nat
      BY <2>1, LenProperties
    <3>3. Tail(todo) # <<>>
      <4>1. Len(Tail(todo)) = Len(todo) - 1 /\ Len(todo) > 1
        BY <2>2, <3>1, Zenon
      <4>2. Len(Tail(todo)) # 0
        <5>1. \A k, l : k \in Nat /\ k > 1 /\ l = k - 1 => l # 0
          OBVIOUS
        <5> QED
          BY <3>2, <4>1, <5>1, Zenon
      <4>3. Len(<<>>) = 0
        OBVIOUS
      <4> QED
        BY <4>2, <4>3, Zenon
    <3>4. Within(Tail(todo))
      <4> SUFFICES ASSUME NEW i \in 1..Len(Tail(todo)) PROVE Tail(todo)[i] \in DOMAIN Places
        BY DEF Within
      <4>1. i + 1 \in 1..Len(todo)
        BY <3>1, <3>2
      <4> QED
        BY <2>1, <3>1, <4>1 DEF Within
    <3> QED
      BY <2>2, <3>1, <3>3, <3>4 DEF Proceed, Enter, Listed, Phases
  <2>3. CASE \E r : Return(r)
    BY <1>c, <2>3 DEF Phases
  <2> QED
    BY <1>8, <2>2, <2>3, Zenon DEF Dropping
<1>9. CASE OwnStep
  <2>1. CASE OwnFailure
    BY <1>c, <2>1 DEF OwnFailure, Phases
  <2>2. CASE phase = "replica" /\ Len(todo) > 1 /\ Proceed("replica", Tail(todo))
    <3>1. TailOf(todo, Slaves) /\ Advance("change", <<1>>)
      BY <1>a, <2>2 DEF Listed, Advance, Proceed, Enter
    <3>2. TailOf(Tail(todo), Slaves)
      BY <1>b, <2>2, <3>1, TailShrinks
    <3> QED
      BY <2>2, <3>2 DEF Listed, Phases, Proceed, Enter
  <2>3. ASSUME NEW p \in {"change", "master", "changemaster", "verify", "undo"}, Proceed(p, << 1 >>)
        PROVE  phase' \in Phases /\ Listed(phase', todo')
    BY <2>3 DEF Proceed, Enter, Listed, Phases
  <2>4. CASE Proceed("drop", DropList)
    BY <1>d, <2>4 DEF Proceed, Enter, Phases
  <2>5. CASE phase = "repluser" /\ Proceed("basebackup", Slaves)
    <3>1. file.product = "pgsql"
      BY <2>5 DEF Where, ControlInv
    <3> QED
      BY <1>b, <2>5, <3>1 DEF Proceed, Enter, Listed, Phases
  <2>6. CASE \/ phase = "basebackup" /\ Proceed("chown", todo)
             \/ phase = "chown" /\ Proceed("start", todo)
    BY <1>a, <2>6 DEF Proceed, Enter, Listed, Phases
  <2> QED
    BY <1>9, <2>1, <2>2, <2>3, <2>4, <2>5, <2>6 DEF OwnStep, OwnMove
<1>10. CASE Starting
  <2>1. phase = "start" /\ TailOf(todo, Slaves)
    BY <1>10, <1>a DEF Starting, Listed
  <2>2. CASE Len(todo) > 1 /\ Proceed("basebackup", Tail(todo))
    <3>1. TailOf(Tail(todo), Slaves)
      BY <1>b, <2>1, <2>2, TailShrinks
    <3> QED
      BY <2>2, <3>1 DEF Proceed, Enter, Listed, Phases
  <2>3. CASE Proceed("verify", <<1>>)
    BY <2>3 DEF Proceed, Enter, Listed, Phases
  <2>4. CASE FailInstallation(RollList, DropList)
    BY <1>c, <2>4 DEF Phases
  <2> QED
    BY <1>10, <2>2, <2>3, <2>4 DEF Starting
<1>11. CASE Undoing
  BY <1>11, <1>c DEF Undoing, Phases
<1> QED
  BY <1>0, <1>2, <1>3, <1>4, <1>5, <1>6, <1>7, <1>8, <1>9, <1>10, <1>11 DEF ProgramStep

(* The state a step leaves behind is a state. *)
LEMMA StepTyped ==
  ASSUME Where, ProgramStep
  PROVE  /\ UNCHANGED <<lost, before, others>>
         /\ result' \in {"none", "ok", "err", "killed"} /\ loaded' \subseteq Slot
         /\ tmp' \in [Host -> TmpState] /\ home' \in [Host -> {"intact", "wiped"}]
         /\ inst' \in [Slot -> InstState] /\ link' \in Links /\ blemish' \in BOOLEAN
<1> DEFINE Typed ==
      /\ UNCHANGED <<lost, before, others>>
      /\ result' \in {"none", "ok", "err", "killed"} /\ loaded' \subseteq Slot
      /\ tmp' \in [Host -> TmpState] /\ home' \in [Host -> {"intact", "wiped"}]
      /\ inst' \in [Slot -> InstState] /\ link' \in Links /\ blemish' \in BOOLEAN
<1>0. phase # "done"
  BY DEF ProgramStep, Connecting, Checking, Copying, Looking, Installing, Removing, Dropping,
     OwnStep,
         OwnMove, OwnFailure, Starting, Undoing, Own
<1>a. /\ result \in {"none", "ok", "err", "killed"} /\ loaded \subseteq Slot
      /\ tmp \in [Host -> TmpState] /\ home \in [Host -> {"intact", "wiped"}]
      /\ inst \in [Slot -> InstState] /\ link \in Links /\ blemish \in BOOLEAN
  BY DEF Where, TypeInv, SqlTypeOK, Links
<1>b. /\ inst[At(node)] \in InstState /\ At(node) \in Slot /\ At(1) \in Slot
  BY <1>0, NodeAtHand, RunFacts
<1>c. /\ GiveUp(DropList) => result' = "err"
      /\ FailInstallation(RollList, DropList) => result' = "err"
      /\ \A r : Return(r) => result' = r
      /\ \A bad \in BOOLEAN : Mark(bad) => blemish' \in BOOLEAN
  BY <1>a DEF GiveUp, FailInstallation, Return, Mark
<1>2. CASE Connecting
  BY <1>2, <1>a, <1>c DEF Connecting, histVars
<1>3. CASE Checking
  BY <1>3, <1>a, <1>c DEF Checking, histVars
<1>4. CASE Copying
  BY <1>4, <1>a, <1>c DEF Copying, histVars
<1>5. CASE Looking
  BY <1>5, <1>a, <1>c DEF Looking, histVars
<1>6. CASE Installing
  <2>1. UNCHANGED <<lost, before, others, tmp, home, loaded>> /\ link' \in Links
    BY <1>6 DEF Installing
  <2>2. Made \in InstState
    BY DEF Made, InstState
  <2>3. CASE inst' = [inst EXCEPT ![At(node)] = Made] /\ UNCHANGED <<result, blemish>>
    BY <1>a, <1>b, <2>1, <2>2, <2>3
  <2>4. CASE /\ \E i \in InstState : inst' = [inst EXCEPT ![At(node)] = i] /\ Mark(i = "orphan")
             /\ FailInstallation(RollList, DropList)
    <3>1. PICK i \in InstState : inst' = [inst EXCEPT ![At(node)] = i] /\ Mark(i = "orphan")
      BY <2>4
    <3>2. inst' \in [Slot -> InstState]
      BY <1>a, <1>b, <3>1
    <3>3. blemish' \in BOOLEAN
      BY <1>c, <3>1
    <3> QED
      BY <1>a, <1>c, <2>1, <2>4, <3>2, <3>3
  <2> QED
    BY <1>6, <2>3, <2>4, Zenon DEF Installing
<1>7. CASE Removing
  <2>1. UNCHANGED <<result, lost, before, others, tmp, home, loaded>> /\ link' \in Links
    BY <1>7 DEF Removing
  <2>2. PICK i \in InstState, ok \in BOOLEAN : inst' = [inst EXCEPT ![At(node)] = i] /\ Mark(~ok)
    BY <1>7, Zenon DEF Removing
  <2>3. blemish' \in BOOLEAN
    BY <1>c, <2>2
  <2>4. inst' \in [Slot -> InstState]
    BY <1>a, <1>b, <2>2
  <2> QED
    BY <1>a, <2>1, <2>3, <2>4
<1>8. CASE Dropping
  <2>1. /\ UNCHANGED <<lost, before, others, inst, link, loaded>>
        /\ tmp' \in [Host -> TmpState] /\ home' \in [Host -> {"intact", "wiped"}]
    BY <1>8 DEF Dropping
  <2>2. blemish' \in BOOLEAN
    BY <1>8, <1>a, <1>c DEF Dropping
  <2>3. result' \in {"none", "ok", "err", "killed"}
    BY <1>8, <1>a, <1>c DEF Dropping, Proceed
  <2> QED
    BY <1>a, <2>1, <2>2, <2>3
<1>9. CASE OwnStep
  <2>1. UNCHANGED <<lost, before, others, tmp, home, inst, blemish>> /\ link' \in Links /\ loaded' \subseteq Slot
    BY <1>9 DEF OwnStep, LinksGrow, histVars
  <2>2. result' \in {"none", "ok", "err", "killed"}
    BY <1>9, <1>a, <1>c DEF OwnStep, OwnMove, OwnFailure, Proceed
  <2> QED
    BY <1>a, <2>1, <2>2
<1>10. CASE Starting
  <2>1. UNCHANGED <<lost, before, others, tmp, home, loaded, blemish>>
    BY <1>10 DEF Starting, histVars
  <2>2. result' \in {"none", "ok", "err", "killed"}
    BY <1>10, <1>a, <1>c DEF Starting, Proceed
  <2>3. inst' \in [Slot -> InstState]
    BY <1>10, <1>a, <1>b DEF Starting, InstState
  <2>4. link' \in Links
    BY <1>10, <1>a, <1>b DEF Starting, Links
  <2> QED
    BY <1>a, <2>1, <2>2, <2>3, <2>4
<1>11. CASE Undoing
  <2>1. UNCHANGED <<lost, before, others, tmp, home, loaded>> /\ link' \in Links /\ GiveUp(DropList)
    BY <1>11 DEF Undoing
  <2>2. PICK i \in InstState, bad \in BOOLEAN :
          inst' = [inst EXCEPT ![Joining!Target] = i] /\ Mark(bad)
    BY <1>11, Zenon DEF Undoing
  <2>3. inst' \in [Slot -> InstState]
    BY <1>a, <2>2
  <2>4. blemish' \in BOOLEAN
    BY <1>c, <2>2
  <2> QED
    BY <1>a, <1>c, <2>1, <2>3, <2>4
<1> QED
  BY <1>2, <1>3, <1>4, <1>5, <1>6, <1>7, <1>8, <1>9, <1>10, <1>11 DEF ProgramStep

(* Each phase belongs to its products, and says what the run will return. *)
LEMMA StepControl ==
  ASSUME Where, ProgramStep
  PROVE  ControlInv'
<1>0. phase # "done" /\ UNCHANGED <<file, op, keep>>
  BY StepLists DEF ProgramStep, Connecting, Checking, Copying, Looking, Installing, Removing,
     Dropping,
         OwnStep, OwnMove, OwnFailure, Starting, Undoing, Own
<1>a. /\ ControlInv
      /\ op = "add" <=> file.product \in Joiners
      /\ op \in {"deploy", "remove", "add"}
      /\ phase \in Own \cup {"checkenv", "install", "undo"} => op # "remove"
  BY <1>0, RunFacts DEF Where
<1>b. RollList # <<>> => op # "add"
  <2>1. file \in Files /\ (op = "add" => file.product \in Joiners)
    BY <1>0, RunFacts
  <2> QED
    BY <2>1, JoinerLists
<1>c. /\ GiveUp(DropList) => phase' = "drop" /\ result' = "err"
      /\ FailInstallation(RollList, DropList) =>
           /\ result' = "err"
           /\ phase' = "drop" \/ (phase' = "uninstall" /\ op # "add")
      /\ \A r : Return(r) => phase' = "done"
  <2>1. \A r : Return(r) => phase' = "done"
    BY DEF Return, Enter
  <2> QED
    BY <1>0, <1>b, <2>1, GivesUp
<1>d. \A p, ns : Advance(p, ns) => phase' \in {phase, p}
  BY DEF Advance, Enter
<1>e. \A p, ns : Proceed(p, ns) => phase' = p /\ UNCHANGED result
  BY DEF Proceed, Enter
<1>f. file.product \notin {"mariadb", "pgsql", "mariadb-slave"} => After = "drop"
  BY DEF After
<1>2. CASE Connecting
  BY <1>0, <1>2, <1>a, <1>c, <1>d DEF Connecting, ControlInv
<1>3. CASE Checking
  BY <1>0, <1>3, <1>a, <1>c, <1>d DEF Checking, ControlInv
<1>4. CASE Copying
  BY <1>0, <1>4, <1>a, <1>c, <1>d DEF Copying, ControlInv
<1>5. CASE Looking
  BY <1>0, <1>5, <1>a, <1>c, <1>d DEF Looking, ControlInv
<1>6. CASE Installing
  <2>1. phase = "install" /\ op # "remove" /\ result = "none"
    BY <1>6, <1>a DEF Installing, ControlInv
  <2>2. CASE Advance(After, AfterList) /\ UNCHANGED result
    <3>1. phase' \in {"install", After} /\ result' = "none"
      BY <1>d, <2>1, <2>2
    <3> QED
      BY <1>0, <1>a, <2>1, <3>1 DEF ControlInv, After, Joiners, Joining!Joiners
  <2>3. CASE FailInstallation(RollList, DropList)
    BY <1>0, <1>a, <1>c, <2>1, <2>3 DEF ControlInv
  <2> QED
    BY <1>6, <2>2, <2>3, Zenon DEF Installing
<1>7. CASE Removing
  <2>1. phase = "uninstall" /\ phase' \in {"uninstall", "drop"} /\ UNCHANGED result
    BY <1>7, <1>d DEF Removing
  <2> QED
    BY <1>0, <1>a, <2>1 DEF ControlInv
<1>8. CASE Dropping
  <2>1. phase = "drop" /\ (phase' = "done" \/ (phase' = "drop" /\ UNCHANGED result))
    BY <1>8, <1>c, <1>e DEF Dropping
  <2> QED
    BY <1>0, <1>a, <2>1 DEF ControlInv
<1>9. CASE OwnStep
  <2>1. phase \in Own /\ op # "remove" /\ result = "none"
    BY <1>9, <1>a DEF OwnStep, OwnMove, OwnFailure, Own, ControlInv
  <2>2. CASE OwnMove
    <3>1. UNCHANGED result
      BY <2>2, <1>e DEF OwnMove
    <3> QED
      BY <1>0, <1>a, <1>e, <2>1, <2>2, <3>1 DEF OwnMove, ControlInv, Joiners, Joining!Joiners
  <2>3. CASE OwnFailure
    BY <1>0, <1>a, <1>c, <2>1, <2>3 DEF OwnFailure, ControlInv
  <2> QED
    BY <1>9, <2>2, <2>3 DEF OwnStep
<1>10. CASE Starting
  <2>1. phase = "start" /\ op # "remove" /\ result = "none" /\ file.product = "pgsql"
    BY <1>10, <1>a DEF Starting, Own, ControlInv
  <2> QED
    BY <1>0, <1>10, <1>a, <1>c, <1>e, <2>1 DEF Starting, ControlInv
<1>11. CASE Undoing
  <2>1. phase = "undo" /\ op # "remove" /\ phase' = "drop" /\ result' = "err"
    BY <1>11, <1>a, <1>c DEF Undoing
  <2> QED
    BY <1>0, <1>a, <2>1 DEF ControlInv
<1> QED
  BY <1>2, <1>3, <1>4, <1>5, <1>6, <1>7, <1>8, <1>9, <1>10, <1>11 DEF ProgramStep
-------------------------------------------------------------------------------
(* A run begins; and what happens to it meanwhile. *)

Beginning ==
  /\ phase = "done"
  /\ file' \in Files /\ op' \in {"deploy", "remove", "add"} /\ keep' \in BOOLEAN
  /\ result' = "none" /\ phase' = "connect" /\ todo' = Visited'
  /\ lost' = {} /\ loaded' = {} /\ before'.inst = inst /\ blemish' = FALSE
  /\ file'.product \in Deployed \cup Joiners
  /\ op' = "add" <=> file'.product \in Joiners
  /\ file'.product = "galera" => op' = "deploy"
  /\ file'.product \in Deployed => Len(file'.nodes) >= 2
  /\ op' = "deploy" /\ Expansion' => inst[file'.nodes[2]] # "free"
  /\ UNCHANGED <<tmp, home, inst, link, others>>

LEMMA VisitedBegins ==
  /\ file.product # "pgauto" => Visited = [i \in 1..Len(file.nodes) |-> i]
  /\ file \in Files /\ file.product \in Joiners => Visited = <<1>>
  /\ file \in Files /\ file.product = "pgauto" => PgAuto!ForwardOf(file) = Visited
<1>1. file.product # "pgauto" => Visited = [i \in 1..Len(file.nodes) |-> i]
  BY DEF Visited, Nodes
<1>2. file \in Files /\ file.product \in Joiners => Visited = <<1>>
  BY JoinerLists
<1>3. file \in Files /\ file.product = "pgauto" => PgAuto!ForwardOf(file) = Visited
  BY ForwardBegins
<1> QED
  BY <1>1, <1>2, <1>3

LEMMA BeginKinds ==
  ASSUME Begins
  PROVE  Beginning
<1>a. /\ (file.product # "pgauto" => Visited = [i \in 1..Len(file.nodes) |-> i])'
      /\ (file \in Files /\ file.product \in Joiners => Visited = <<1>>)'
      /\ (file \in Files /\ file.product = "pgauto" => PgAuto!ForwardOf(file) = Visited)'
  BY VisitedBegins, PTL
<1>b. ASSUME NEW f \in Files, NEW what \in {"deploy", "remove", "add"}, NEW nr \in BOOLEAN, NEW ns,
             Begin(f, what, nr, ns), (ns = Visited)', f.product \in Deployed \cup Joiners,
             what = "add" <=> f.product \in Joiners,
             f.product = "galera" => what = "deploy",
             f.product \in Deployed => Len(f.nodes) >= 2,
             what = "deploy" /\ f.product = "pgauto" /\ f.fresh # <<>> => inst[f.nodes[2]] # "free"
      PROVE  Beginning
  <2>1. /\ phase = "done" /\ file' = f /\ op' = what /\ keep' = nr
        /\ result' = "none" /\ phase' = "connect" /\ todo' = Visited'
        /\ lost' = {} /\ loaded' = {} /\ blemish' = FALSE
        /\ UNCHANGED <<tmp, home, inst, link, others>>
    BY <1>b DEF Begin, Enter
  <2>2. before'.inst = inst
    BY <1>b DEF Begin
  <2>3. Expansion' <=> f.product = "pgauto" /\ f.fresh # <<>>
    BY <2>1 DEF Expansion
  <2> QED
    BY <1>b, <2>1, <2>2, <2>3 DEF Beginning
<1>c. \A f, what, nr, ns : Begin(f, what, nr, ns) => file' = f
  BY DEF Begin
<1>d. /\ \A f, what, nr, ns : MariaDB!Begin(f, what, nr, ns) <=> Begin(f, what, nr, ns)
      /\ \A f, what, nr, ns : Galera!Begin(f, what, nr, ns) <=> Begin(f, what, nr, ns)
      /\ \A f, what, nr, ns : Pgsql!Begin(f, what, nr, ns) <=> Begin(f, what, nr, ns)
      /\ \A f, what, nr, ns : PgAuto!Begin(f, what, nr, ns) <=> Begin(f, what, nr, ns)
      /\ \A f, what, nr, ns : Joining!Begin(f, what, nr, ns) <=> Begin(f, what, nr, ns)
  BY DEF Begin, MariaDB!Begin, Galera!Begin, Pgsql!Begin, PgAuto!Begin, Joining!Begin,
         Enter, MariaDB!Enter, Galera!Enter, Pgsql!Enter, PgAuto!Enter, Joining!Enter
<1>1. ASSUME NEW f \in Files, NEW what \in {"deploy", "remove"}, NEW nr \in BOOLEAN,
             Begin(f, what, nr, [i \in 1..Len(f.nodes) |-> i]),
             f.product \in {"mariadb", "galera", "pgsql"}, f.product = "galera" => what = "deploy",
             Len(f.nodes) >= 2
      PROVE  Beginning
  <2>1. file' = f /\ ([i \in 1..Len(f.nodes) |-> i] = Visited)'
    BY <1>1, <1>a, <1>c
  <2>2. f.product \in Deployed /\ f.product \notin Joiners /\ f.product # "pgauto"
    BY <1>1 DEF Deployed, Joiners, Joining!Joiners
  <2> QED
    BY <1>1, <1>b, <2>1, <2>2
<1>2. CASE MariaDB!Begins
  <2>1. CASE MariaDB!Run
    BY <1>1, <1>d, <2>1 DEF MariaDB!Run, MariaDB!Validator
  <2>2. CASE MariaDB!RemoveCluster
    BY <1>1, <1>d, <2>2 DEF MariaDB!RemoveCluster
  <2> QED
    BY <1>2, <2>1, <2>2 DEF MariaDB!Begins
<1>3. CASE Galera!Run
  <2>1. PICK f \in Files, nr \in BOOLEAN :
          /\ f.product = "galera" /\ Len(f.nodes) >= 3
          /\ Begin(f, "deploy", nr, [i \in 1..Len(f.nodes) |-> i])
    BY <1>3, <1>d DEF Galera!Run, Galera!GaleraValidator
  <2>2. Len(f.nodes) >= 2
    BY <2>1, FilesAssumption, LenProperties
  <2> QED
    BY <1>1, <2>1, <2>2
<1>4. CASE Pgsql!Begins
  <2>1. PICK f \in Files, what \in {"deploy", "remove"} :
          /\ f.product = "pgsql" /\ Len(f.nodes) \in 2..3
          /\ Begin(f, what, FALSE, [i \in 1..Len(f.nodes) |-> i])
    BY <1>4, <1>d DEF Pgsql!Begins, Pgsql!Run, Pgsql!RemoveDeploy, Pgsql!Validator
  <2>2. \A n : n \in 2..3 => n >= 2
    OBVIOUS
  <2>3. Len(f.nodes) >= 2
    BY <2>1, <2>2, Zenon
  <2>4. f.product \in {"mariadb", "galera", "pgsql"} /\ f.product # "galera" /\ FALSE \in BOOLEAN
    BY <2>1
  <2>5. Begin(f, what, FALSE, [i \in 1..Len(f.nodes) |-> i])
    BY <2>1
  <2> QED
    BY <1>1, <2>3, <2>4, <2>5, Zenon
<1>5. CASE PgAuto!Begins
  <2>1. PICK f \in Files, what \in {"deploy", "remove"}, nr \in BOOLEAN :
          /\ f.product = "pgauto" /\ PgAuto!Validator(f) /\ (what = "deploy" => PgAuto!NewPGCheck(f))
          /\ Begin(f, what, nr, PgAuto!ForwardOf(f))
    <3>1. CASE PgAuto!Run
      BY <1>d, <3>1 DEF PgAuto!Run
    <3>2. CASE PgAuto!RemoveDeploy
      BY <1>d, <3>2 DEF PgAuto!RemoveDeploy
    <3> QED
      BY <1>5, <3>1, <3>2 DEF PgAuto!Begins
  <2>2. file' = f
    BY <1>c, <2>1
  <2>3. Len(f.nodes) \in Nat /\ Len(f.nodes) >= 3 /\ 2 \in DOMAIN f.nodes
    BY <2>1, FilesAssumption, LenProperties DEF PgAuto!Validator
  <2>4. what = "deploy" /\ f.fresh # <<>> => inst[f.nodes[2]] # "free"
    BY <2>1, <2>3 DEF PgAuto!NewPGCheck, PgAuto!Answers
  <2>5. PgAuto!ForwardOf(f) = PgAuto!ForwardOf(file)'
    BY <2>2 DEF PgAuto!ForwardOf, PgAuto!Monitor
  <2>6. (PgAuto!ForwardOf(f) = Visited)'
    BY <1>a, <2>1, <2>2, <2>5
  <2>7. f.product \in Deployed /\ f.product \notin Joiners
    BY <2>1 DEF Deployed, Joiners, Joining!Joiners
  <2> QED
    BY <1>b, <2>1, <2>3, <2>4, <2>6, <2>7
<1>6. CASE Joining!Add
  <2>1. PICK f \in Files : f.product \in Joiners /\ Begin(f, "add", FALSE, <<1>>)
    BY <1>6, <1>d DEF Joining!Add, Joining!One, Joiners
  <2>2. file' = f
    BY <1>c, <2>1
  <2>3. (<<1>> = Visited)'
    <3>1. (file \in Files /\ file.product \in Joiners => Visited = <<1>>)'
      BY <1>a
    <3>2. Joiners' = Joiners
      BY DEF Joiners, Joining!Joiners
    <3> QED
      BY <2>1, <2>2, <3>1, <3>2
  <2>4. f.product \notin Deployed /\ f.product # "galera" /\ f.product # "pgauto"
    BY <2>1 DEF Deployed, Joiners, Joining!Joiners
  <2> QED
    BY <1>b, <2>1, <2>3, <2>4
<1> QED
  BY <1>2, <1>3, <1>4, <1>5, <1>6 DEF Begins

LEMMA VisitedWhole ==
  /\ file \in Files => Visited \in Seq(Nat) /\ TailOf(Visited, Visited)
  /\ file \in Files /\ todo = Visited => todo # <<>> /\ \A i \in DOMAIN todo : todo[i] \in DOMAIN Places
<1>1. file \in Files => Visited \in Seq(Nat) /\ TailOf(Visited, Visited)
  BY VisitedList, WholeIsTail
<1>2. file \in Files /\ todo = Visited => todo # <<>> /\ \A i \in DOMAIN todo : todo[i] \in DOMAIN Places
  BY VisitedList, LenProperties DEF Within
<1> QED
  BY <1>1, <1>2

LEMMA BeginTyped ==
  ASSUME Where, Beginning
  PROVE  Where'
<1>0. file' \in Files
  BY DEF Beginning
<1>1. /\ (Visited \in Seq(Nat) /\ TailOf(Visited, Visited))'
      /\ (todo = Visited => todo # <<>> /\ \A i \in DOMAIN todo : todo[i] \in DOMAIN Places)'
  <2>1. /\ (file \in Files => Visited \in Seq(Nat) /\ TailOf(Visited, Visited))'
        /\ (file \in Files /\ todo = Visited =>
              todo # <<>> /\ \A i \in DOMAIN todo : todo[i] \in DOMAIN Places)'
    BY VisitedWhole, PTL
  <2> QED
    BY <1>0, <2>1
<1>2. TypeInv'
  BY <1>0, <1>1 DEF Beginning, Where, TypeInv, SqlTypeOK, Phases
<1>3. RunInv'
  BY DEF Beginning, RunInv, Deployed, Joiners, Joining!Joiners, Last
<1>4. ControlInv'
  BY DEF Beginning, ControlInv
<1>5. ListInv'
  BY <1>1 DEF Beginning, ListInv
<1> QED
  BY <1>2, <1>3, <1>4, <1>5 DEF Where

(* Environment steps leave the control of the run alone, or end it. *)
LEMMA EnvironmentTyped ==
  ASSUME Where, Environment
  PROVE  Where'
<1>a. UNCHANGED <<file, op, keep, before>>
  BY DEF Environment, Interrupt, LoseConnection, OtherInstalls, OtherFills, LinkChanges, fileVars,
         histVars
<1>b. UNCHANGED <<Nodes, Slaves, Visited, DropList, RollList, Last, Places>> /\ \A n : At(n)' = At(n)
  BY <1>a, SameLists
<1>c. \A n \in DOMAIN Places : At(n) \in Slot /\ HostOf(n) \in Host
  BY FileTyped DEF Where, TypeInv, SqlTypeOK
<1>1. CASE Interrupt
  <2>1. /\ phase # "done" /\ phase' = "done" /\ todo' = <<>> /\ result' = "killed"
        /\ UNCHANGED <<lost, tmp, home, inst, link, loaded, before, others>>
    BY <1>1 DEF Interrupt, Return, Enter
  <2>2. blemish' \in BOOLEAN
    BY <1>1 DEF Interrupt, Mark, Where, TypeInv
  <2>3. TypeInv'
    BY <1>a, <1>b, <2>1, <2>2 DEF Where, TypeInv, SqlTypeOK, Phases
  <2>4. RunInv'
    BY <1>a, <1>b, <2>1 DEF Where, RunInv, Begun
  <2>5. ControlInv' /\ ListInv'
    BY <1>a, <2>1 DEF Where, ControlInv, ListInv
  <2> QED
    BY <2>3, <2>4, <2>5 DEF Where
<1>2. ASSUME UNCHANGED <<phase, todo, result, loaded, blemish>>, lost' \subseteq (DOMAIN Places) \X Channel,
             tmp' \in [Host -> TmpState], home' = home, inst' \in [Slot -> InstState],
             link' \in Links, others' \in Nat
      PROVE  Where'
  <2>1. TypeInv'
    BY <1>a, <1>b, <1>2 DEF Where, TypeInv, SqlTypeOK, Phases, Links
  <2>2. RunInv'
    BY <1>a, <1>b, <1>2 DEF Where, RunInv, Begun
  <2>3. ControlInv'
    BY <1>a, <1>2 DEF Where, ControlInv
  <2>4. ListInv'
    <3>1. \A L : Within(L)' <=> Within(L)'
      OBVIOUS
    <3>2. Within(todo)' <=> Within(todo)
      BY <1>b, <1>2 DEF Within
    <3>3. \A t, L : TailOf(t, L)' <=> TailOf(t, L)
      BY DEF TailOf, Gone
    <3> QED
      BY <1>a, <1>b, <1>2, <3>2 DEF Where, ListInv, TailOf, Gone
  <2> QED
    BY <2>1, <2>2, <2>3, <2>4 DEF Where
<1>d. /\ lost \subseteq (DOMAIN Places) \X Channel /\ tmp \in [Host -> TmpState] /\ inst \in [Slot -> InstState]
      /\ link \in Links /\ others \in Nat
  BY DEF Where, TypeInv, SqlTypeOK, Links
<1>3. CASE LoseConnection
  <2>1. PICK n \in DOMAIN Places, c \in {Channel, {"sftp"}, {"ssh"}} :
          lost' = lost \cup ({n} \X c)
    BY <1>3, Zenon DEF LoseConnection
  <2>2. lost' \subseteq (DOMAIN Places) \X Channel
    BY <1>d, <2>1 DEF Channel
  <2> QED
    BY <1>2, <1>3, <1>d, <2>2 DEF LoseConnection, ctlVars, histVars
<1>4. CASE OtherInstalls
  <2>1. inst' \in [Slot -> InstState]
    BY <1>4, <1>c, <1>d DEF OtherInstalls, InstState
  <2> QED
    BY <1>2, <1>4, <1>d, <2>1 DEF OtherInstalls, ctlVars
<1>5. CASE OtherFills
  <2>1. tmp' \in [Host -> TmpState]
    BY <1>5, <1>c, <1>d DEF OtherFills, TmpState
  <2> QED
    BY <1>2, <1>5, <1>d, <2>1 DEF OtherFills, ctlVars
<1>6. CASE LinkChanges
  <2>1. link' \in Links
    BY <1>6, <1>d DEF LinkChanges, Links
  <2> QED
    BY <1>2, <1>6, <1>d, <2>1 DEF LinkChanges, ctlVars, histVars
<1> QED
  BY <1>1, <1>3, <1>4, <1>5, <1>6 DEF Environment

LEMMA ProgramTyped ==
  ASSUME Where, ProgramStep
  PROVE  Where'
<1>1. phase' \in Phases /\ Listed(phase', todo') /\ UNCHANGED <<file, op, keep>>
  BY StepLists
<1>2. UNCHANGED <<Nodes, Slaves, Visited, DropList, RollList, Last, Places>>
  BY <1>1, SameLists
<1>3. /\ UNCHANGED <<lost, before, others>>
      /\ result' \in {"none", "ok", "err", "killed"} /\ loaded' \subseteq Slot
      /\ tmp' \in [Host -> TmpState] /\ home' \in [Host -> {"intact", "wiped"}]
      /\ inst' \in [Slot -> InstState] /\ link' \in Links /\ blemish' \in BOOLEAN
  BY StepTyped
<1>4. file \in Files
  BY DEF Where, TypeInv, SqlTypeOK
<1>5. todo' \in Seq(Nat) /\ (phase' = "done" <=> todo' = <<>>) /\ \A i \in DOMAIN todo' : todo'[i] \in DOMAIN Places
  BY <1>1, <1>4, ListedTyped
<1>6. TypeInv'
  BY <1>1, <1>2, <1>3, <1>5 DEF Where, TypeInv, SqlTypeOK, Links
<1>7. RunInv'
  <2>1. Begun
    BY DEF ProgramStep, Connecting, Checking, Copying, Looking, Installing, Removing, Dropping,
           OwnStep, OwnMove, OwnFailure, Starting, Undoing, Own, Begun
  <2> QED
    BY <1>1, <1>2, <2>1 DEF Where, RunInv
<1>8. ControlInv'
  BY StepControl
<1>9. ListInv'
  BY <1>1, <1>2 DEF Listed, ListInv, TailOf, Gone, Within
<1> QED
  BY <1>6, <1>7, <1>8, <1>9 DEF Where

LEMMA WhereInit ==
  ASSUME RolloutInit
  PROVE  Where
<1>1. PICK f \in Files, t \in [Host -> TmpState], i \in [Slot -> InstState] : StartFrom(f, t, i)
  BY DEF RolloutInit
<1>2. /\ file = f /\ op = "deploy" /\ keep = FALSE /\ phase = "done" /\ todo = <<>> /\ result = "none"
      /\ lost = {} /\ loaded = {} /\ tmp = t /\ home = [h \in Host |-> "intact"]
      /\ inst = i /\ link = [s \in Slot |-> "none"] /\ blemish = FALSE /\ others = 0
  BY <1>1 DEF StartFrom
<1>3. before.inst = i
  BY <1>1 DEF StartFrom
<1>4. SqlTypeOK
  <2>1. /\ home \in [Host -> {"intact", "wiped"}] /\ link \in [Slot -> {"none", "set", "up"}]
        /\ tmp \in [Host -> TmpState] /\ inst \in [Slot -> InstState]
    BY <1>2
  <2>2. \A j \in DOMAIN todo : todo[j] \in DOMAIN Places
    BY <1>2
  <2>3. lost \subseteq (DOMAIN Places) \X Channel /\ loaded \subseteq Slot
    BY <1>2
  <2>4. /\ file \in Files /\ op \in {"deploy", "remove", "add"} /\ keep \in BOOLEAN
        /\ phase \in Phases /\ result \in {"none", "ok", "err", "killed"}
    BY <1>2 DEF Phases
  <2> QED
    BY <1>2, <2>1, <2>2, <2>3, <2>4 DEF SqlTypeOK
<1>5. todo \in Seq(Nat)
  BY <1>2
<1> QED
  BY <1>2, <1>3, <1>4, <1>5 DEF Where, TypeInv, RunInv, Begun, ControlInv, ListInv

LEMMA WhereNext ==
  ASSUME Where, [Next]_rollVars
  PROVE  Where'
<1>1. CASE Begins
  BY <1>1, BeginKinds, BeginTyped
<1>2. CASE Program
  BY <1>2, ProgramKinds, ProgramTyped
<1>3. CASE Environment
  BY <1>3, EnvironmentTyped
<1>4. CASE UNCHANGED rollVars
  <2>1. UNCHANGED <<file, op, keep, phase, todo, result, lost, tmp, home, inst, link, loaded,
                    before, blemish, others>>
    BY <1>4 DEF rollVars, fileVars, ctlVars, histVars
  <2>2. UNCHANGED <<Nodes, Slaves, Visited, DropList, RollList, Last, Places>>
    BY <2>1, SameLists
  <2>3. TypeInv'
    BY <2>1, <2>2 DEF Where, TypeInv, SqlTypeOK
  <2>4. RunInv' /\ ControlInv'
    BY <2>1, <2>2 DEF Where, RunInv, Begun, ControlInv, TailOf, Gone, Within
  <2>5. ListInv'
    <3>1. UNCHANGED <<Visited, Slaves, RollList, todo, phase, Within(todo)>>
      BY <2>1, <2>2 DEF Within
    <3> QED
      BY <3>1 DEF Where, ListInv, TailOf, Gone
  <2> QED
    BY <2>3, <2>4, <2>5 DEF Where
<1> QED
  BY <1>1, <1>2, <1>3, <1>4 DEF Next
-------------------------------------------------------------------------------
(* What a deployment or an addition has done so far. *)

(* The nodes up to the k-th are installed, each in a slot of its own; a slave  *)
(* of MariaDB is pointed at its master, and so is what another add-slave       *)
(* installs.                                                                   *)
MadeAs(n)   == IF file.product = "pgsql" /\ n # 1 THEN "files" ELSE "up"
Distinct(k) == \A i, j \in 1..k : i # j => At(i) # At(j)
Placed(k) ==
  /\ \A i \in 1..k : inst[At(i)] = MadeAs(i)
  /\ Distinct(k)
  /\ \A i \in 1..k : /\ file.product = "mariadb" /\ i # 1 => link[At(i)] # "none"
                     /\ file.product \in Joiners \ {"mariadb-slave"} => link[At(i)] # "none"

(* Of pgsql, the nodes up to the k-th run, the others are unpacked. *)
Started(k) ==
  /\ \A i \in 1..Last : inst[At(i)] = IF i <= k THEN "up" ELSE "files"
  /\ \A i \in 2..k : link[At(i)] # "none"
  /\ Distinct(Last)

Replicating ==
  /\ \A i \in 1..Last : inst[At(i)] = "up"
  /\ Distinct(Last)
  /\ file.product \in {"mariadb", "pgsql"} => \A i \in 2..Last : link[At(i)] # "none"
  /\ file.mode = "MM" => link[At(1)] # "none"
  /\ op = "add" => link[At(1)] # "none"

InstalledInv ==
  op # "remove" =>
    /\ phase = "install" => Placed(Gone(todo, Visited))
    /\ phase \in {"replica", "change", "master", "repluser", "datasync", "changemaster"} => Placed(Last)
    /\ phase = "master" => link[At(1)] # "none"
    /\ phase \in {"basebackup", "chown", "start"} => Started(Gone(todo, Slaves) + 1)
    /\ phase = "verify" => IF op = "add" THEN Placed(Last) ELSE Started(Last)
    /\ phase = "drop" /\ result = "none" => Replicating
    /\ phase = "done" /\ result = "ok" => Replicating

(* An expansion of pg_auto_failover goes through its own master, whose port is *)
(* taken: it never reaches an installation.                                    *)
ExpansionInv ==
  Begun /\ op = "deploy" /\ Expansion =>
    /\ phase \in {"connect", "checktmp", "scp", "checkenv", "drop", "done"}
    /\ phase \in {"connect", "checktmp", "scp", "checkenv"} => inst[At(2)] # "free"
    /\ phase = "checkenv" => \A i \in 1..Gone(todo, Visited) : Visited[i] # 2
    /\ phase \in {"drop", "done"} => result \in {"err", "killed"}

(* A deployment or an addition installs only where nothing was when it began,  *)
(* and rolls back only there: until then nothing that ran was removed.         *)
WasFree(n) == before.inst[At(n)] = "free"
PriorInv ==
  op # "remove" =>
    /\ phase \in {"connect", "checktmp", "scp", "checkenv", "install"} =>
         \A s \in Slot : inst[s] = "free" => before.inst[s] = "free"
    /\ phase = "checkenv" => \A i \in 1..Gone(todo, Visited) : WasFree(Visited[i])
    /\ phase = "install" /\ op = "deploy" => \A n \in 1..Last : WasFree(n)
    /\ phase \in Own \cup {"undo"} => \A n \in 1..Last : WasFree(n)
    /\ phase = "uninstall" => \A i \in 1..Len(todo) : WasFree(todo[i])

(* What a deployment has changed, as long as nobody else changes anything and  *)
(* its clean-up commands work: only slots of its nodes, all under a unit.      *)
Changed(s) == inst[s] # before.inst[s]
TraceInv ==
  op = "deploy" /\ ~blemish /\ others = 0 =>
    /\ phase \in {"connect", "checktmp", "scp", "checkenv"} => inst = before.inst
    /\ phase \in {"install"} \cup Own =>
         \A s \in Slot : Changed(s) => inst[s] # "orphan" /\ \E n \in 1..Last : s = At(n)
    /\ phase = "uninstall" =>
         \A s \in Slot : Changed(s) => inst[s] # "orphan" /\ \E i \in 1..Len(todo) : s = At(todo[i])
    /\ phase \in {"drop", "done"} /\ result = "err" /\ ~keep => inst = before.inst

Safe == Where /\ InstalledInv /\ ExpansionInv /\ PriorInv /\ TraceInv
-------------------------------------------------------------------------------
(* An expansion never installs. *)

LEMMA ExpansionBegins ==
  ASSUME Where, Beginning
  PROVE  ExpansionInv'
<1> SUFFICES ASSUME op' = "deploy", Expansion' PROVE ExpansionInv'
  BY DEF ExpansionInv
<1>1. file' \in Files /\ Len(file'.nodes) >= 2 /\ inst' = inst /\ inst[file'.nodes[2]] # "free"
  <2>1. file'.product \in Deployed
    BY DEF Expansion, Deployed
  <2> QED
    BY <2>1 DEF Beginning
<1>2. At(2)' = file'.nodes[2]
  <2>1. file'.nodes \in Seq(Slot) /\ file'.fresh \in Seq(Slot)
    BY <1>1, FilesAssumption
  <2>2. 2 \in 1..Len(file'.nodes) /\ Len(file'.nodes) \in Nat /\ Len(file'.fresh) \in Nat
    BY <1>1, <2>1, LenProperties
  <2>3. (file'.nodes \o file'.fresh)[2] = file'.nodes[2]
    <3>1. ASSUME NEW s \in Seq(Slot), NEW t \in Seq(Slot), 2 \in 1..Len(s), Len(s) \in Nat, Len(t) \in Nat
          PROVE  (s \o t)[2] = s[2]
      <4> DEFINE u == s \o t
      <4>1. \A i \in 1..Len(s) : u[i] = s[i]
        BY Joined
      <4> QED
        BY <3>1, <4>1
    <3> QED
      BY <2>1, <2>2, <3>1
  <2> QED
    BY <2>3 DEF At, Places
<1> QED
  BY <1>1, <1>2 DEF ExpansionInv, Beginning

LEMMA ExpansionStep ==
  ASSUME Where, ExpansionInv, ProgramStep
  PROVE  ExpansionInv'
<1>a. phase # "done" /\ UNCHANGED <<file, op, keep>>
  BY StepLists DEF ProgramStep, Connecting, Checking, Copying, Looking, Installing, Removing,
     Dropping,
         OwnStep, OwnMove, OwnFailure, Starting, Undoing, Own
<1>b. UNCHANGED <<Visited, Places>> /\ Expansion' = Expansion /\ \A n : At(n)' = At(n)
  BY <1>a, SameLists
<1> SUFFICES ASSUME op = "deploy", Expansion PROVE ExpansionInv'
  BY <1>a, <1>b DEF ExpansionInv
<1>c. /\ phase \in {"connect", "checktmp", "scp", "checkenv", "drop"}
      /\ phase \in {"connect", "checktmp", "scp", "checkenv"} => inst[At(2)] # "free"
      /\ phase = "checkenv" => \A i \in 1..Gone(todo, Visited) : Visited[i] # 2
      /\ phase = "drop" => result \in {"err", "killed"}
  BY <1>a DEF ExpansionInv, Begun
<1>d. /\ Visited \in Seq(Nat) /\ Len(Visited) \in Nat /\ Visits(Visited, 2)
      /\ TailOf(Visited, Visited) /\ Gone(Visited, Visited) = 0
  BY VisitedList, WholeIsTail, LenProperties DEF Where, TypeInv, SqlTypeOK
<1>e. phase \in {"connect", "checktmp", "scp", "checkenv"} => TailOf(todo, Visited)
  BY DEF Where, ListInv
<1>f. ASSUME UNCHANGED inst, phase' \in {"connect", "checktmp", "scp"},
             phase \in {"connect", "checktmp", "scp", "checkenv"}
      PROVE  ExpansionInv'
  BY <1>b, <1>c, <1>f DEF ExpansionInv
<1>g. ASSUME phase' \in {"drop", "done"}, result' = "err"
      PROVE  ExpansionInv'
  BY <1>b, <1>g DEF ExpansionInv
<1>h. /\ \A p, ns : Advance(p, ns) => phase' \in {phase, p}
      /\ GiveUp(DropList) => phase' = "drop" /\ result' = "err"
      /\ Return("err") => phase' = "done" /\ result' = "err"
  BY DEF Advance, Enter, GiveUp, Return
<1>1. CASE Connecting
  BY <1>1, <1>f, <1>g, <1>h DEF Connecting
<1>2. CASE Checking
  BY <1>2, <1>f, <1>g, <1>h DEF Checking
<1>3. CASE Copying
  <2>1. phase = "scp" /\ UNCHANGED inst
    BY <1>3 DEF Copying
  <2>2. CASE Advance("checkenv", Visited)
    <3>1. \/ phase' = "scp"
          \/ phase' = "checkenv" /\ todo' = Visited
      BY <1>d, <1>e, <2>1, <2>2, Advances
    <3>2. CASE phase' = "checkenv" /\ todo' = Visited
      <4>1. Gone(todo, Visited)' = 0
        BY <1>b, <1>d, <3>2 DEF Gone
      <4> QED
        BY <1>b, <1>c, <2>1, <3>2, <4>1 DEF ExpansionInv
    <3> QED
      BY <1>f, <2>1, <3>1, <3>2
  <2>3. CASE GiveUp(DropList)
    BY <1>g, <1>h, <2>3
  <2> QED
    BY <1>3, <2>2, <2>3 DEF Copying
<1>4. CASE Looking
  <2>1. phase = "checkenv" /\ UNCHANGED inst
    BY <1>4 DEF Looking
  <2>2. CASE inst[At(node)] = "free" /\ Advance("install", Visited)
    <3>1. /\ Visited[Gone(todo, Visited) + 1] # 2
          /\ Gone(todo, Visited) \in Int
      <4>1. node = Visited[Gone(todo, Visited) + 1] /\ Gone(todo, Visited) + 1 \in 1..Len(Visited)
        BY <1>d, <1>e, <2>1, TailShrinks DEF node
      <4>2. node # 2
        BY <1>c, <2>1, <2>2
      <4>3. Gone(todo, Visited) \in Int
        BY <1>d, <1>e, <2>1 DEF TailOf, Gone
      <4> QED
        BY <4>1, <4>2, <4>3
    <3>2. \A i \in 1..(Gone(todo, Visited) + 1) : Visited[i] # 2
      BY <1>c, <2>1, <3>1
    <3>3. Gone(todo, Visited) + 1 # Len(Visited)
      BY <1>d, <3>2 DEF Visits
    <3>4. phase' = phase /\ Gone(todo', Visited) = Gone(todo, Visited) + 1
      BY <1>d, <1>e, <2>1, <2>2, <3>3, Advances
    <3>5. Gone(todo, Visited)' = Gone(todo, Visited) + 1
      BY <1>b, <3>4 DEF Gone
    <3> QED
      BY <1>b, <1>c, <2>1, <3>2, <3>4, <3>5 DEF ExpansionInv
  <2>3. CASE GiveUp(DropList)
    BY <1>g, <1>h, <2>3
  <2> QED
    BY <1>4, <2>2, <2>3 DEF Looking
<1>5. CASE Dropping
  <2>1. result \in {"err", "killed"} /\ phase = "drop"
    BY <1>5, <1>c DEF Dropping
  <2>2. phase' \in {"drop", "done"} /\ result' \in {"err", "killed"}
    BY <1>5, <2>1 DEF Dropping, Proceed, Enter, Return
  <2> QED
    BY <1>b, <2>2 DEF ExpansionInv
<1>6. ~Installing /\ ~Removing /\ ~OwnStep /\ ~Starting /\ ~Undoing
  BY <1>c DEF Installing, Removing, OwnStep, OwnMove, OwnFailure, Own, Starting, Undoing
<1> QED
  BY <1>1, <1>2, <1>3, <1>4, <1>5, <1>6 DEF ProgramStep

LEMMA ExpansionElsewhere ==
  ASSUME Where, ExpansionInv, Environment \/ UNCHANGED rollVars
  PROVE  ExpansionInv'
<1>a. UNCHANGED <<file, op>>
  BY DEF Environment, Interrupt, LoseConnection, OtherInstalls, OtherFills, LinkChanges, fileVars,
         histVars, rollVars
<1>b. UNCHANGED <<Visited, Places>> /\ Expansion' = Expansion /\ \A n : At(n)' = At(n)
  BY <1>a, SameLists
<1>1. CASE Interrupt
  BY <1>b, <1>1 DEF Interrupt, Return, Enter, ExpansionInv
<1>2. CASE ~Interrupt
  <2>1. UNCHANGED <<phase, todo, result>>
    BY <1>2 DEF Environment, LoseConnection, OtherInstalls, OtherFills, LinkChanges, ctlVars,
       rollVars
  <2>2. \A s : inst[s] # "free" /\ s \in Slot => inst'[s] # "free"
    <3>1. inst \in [Slot -> InstState]
      BY DEF Where, TypeInv, SqlTypeOK
    <3>2. CASE OtherInstalls
      BY <3>1, <3>2 DEF OtherInstalls
    <3>3. CASE ~OtherInstalls
      BY <1>2, <3>3 DEF Environment, LoseConnection, OtherFills, LinkChanges, rollVars
    <3> QED
      BY <3>2, <3>3
  <2>3. Expansion => At(2) \in Slot
    <3> SUFFICES ASSUME Expansion PROVE At(2) \in Slot
      OBVIOUS
    <3>1. /\ file \in Files /\ Last >= 2 /\ Last \in Nat /\ Len(file.fresh) \in Nat
          /\ DOMAIN Places = 1..Len(Places) /\ Len(Places) = Last + Len(file.fresh)
      BY PgLists, FileTyped DEF Where, TypeInv, SqlTypeOK, Expansion
    <3> QED
      BY <3>1, FileTyped
  <2>4. Gone(todo, Visited)' = Gone(todo, Visited)
    BY <1>b, <2>1 DEF Gone
  <2> QED
    BY <1>a, <1>b, <2>1, <2>2, <2>3, <2>4 DEF ExpansionInv, Begun
<1> QED
  BY <1>1, <1>2
-------------------------------------------------------------------------------
(* A run that says "ok" has installed, and joined, what its file says. *)

(* An installation works through the nodes of the file, in their order. *)
LEMMA NodesVisited ==
  ASSUME Where, ExpansionInv, phase # "done", op # "remove", phase \in {"install"} \cup Own
  PROVE  /\ ~Expansion /\ Visited = Nodes /\ Nodes \in Seq(Nat) /\ Len(Nodes) = Last
         /\ Last \in Nat \ {0} /\ \A i \in 1..Last : Nodes[i] = i
         /\ Slaves \in Seq(Nat) /\ Len(Slaves) = Last - 1
         /\ \A i \in 1..(Last - 1) : Slaves[i] = i + 1
         /\ \A i \in 1..Last : i \in DOMAIN Places /\ At(i) \in Slot
<1>1. file \in Files /\ (op = "add" <=> file.product \in Joiners) /\ op \in {"deploy", "remove", "add"}
  BY RunFacts
<1>2. ~Expansion
  <2>1. CASE op = "add"
    BY <1>1, <2>1, JoinerLists
  <2>2. CASE op = "deploy"
    BY <2>2 DEF ExpansionInv, Begun, Own
  <2> QED
    BY <1>1, <2>1, <2>2
<1>3. Visited = Nodes
  BY <1>1, <1>2, VisitedList
<1>4. /\ Last \in Nat \ {0} /\ Len(file.fresh) \in Nat /\ DOMAIN Places = 1..Len(Places)
      /\ Len(Places) = Last + Len(file.fresh)
  BY <1>1, FileTyped
<1>5. \A i \in 1..Last : i \in DOMAIN Places
  BY <1>4
<1>6. \A i \in 1..Last : At(i) \in Slot
  BY <1>1, <1>5, FileTyped
<1> QED
  BY <1>1, <1>2, <1>3, <1>4, <1>5, <1>6, NodesList

(* What is installed depends on the slots of the nodes and their links only. *)
LEMMA KeptPlaces ==
  ASSUME Where, UNCHANGED <<file, op>>,
         \A i \in 1..Last : inst[At(i)] # "free" => inst'[At(i)] = inst[At(i)],
         \A i \in 1..Last : link[At(i)] # "none" => link'[At(i)] # "none"
  PROVE  /\ \A k \in 0..Last : Placed(k) => Placed(k)'
         /\ \A k \in 0..Last : Started(k) => Started(k)'
         /\ Replicating => Replicating'
         /\ Last \in Nat \ {0}
<1>1. UNCHANGED <<Last, Joiners>> /\ \A n : At(n)' = At(n)
  BY SameLists DEF Joiners, Joining!Joiners
<1>2. Last \in Nat \ {0}
  BY FileTyped DEF Where, TypeInv, SqlTypeOK
<1>3. ASSUME NEW k \in 0..Last, Placed(k) PROVE Placed(k)'
  <2>1. \A i \in 1..k : i \in 1..Last /\ inst[At(i)] # "free"
    BY <1>2, <1>3 DEF Placed, MadeAs
  <2>2. \A i \in 1..k : inst'[At(i)] = inst[At(i)]
    BY <2>1
  <2> QED
    BY <1>1, <1>3, <2>1, <2>2 DEF Placed, MadeAs, Distinct
<1>4. ASSUME NEW k \in 0..Last, Started(k) PROVE Started(k)'
  <2>1. \A i \in 1..Last : inst[At(i)] # "free"
    BY <1>4 DEF Started
  <2>2. \A i \in 1..Last : inst'[At(i)] = inst[At(i)]
    BY <2>1
  <2>3. \A i \in 2..k : i \in 1..Last
    BY <1>2
  <2> QED
    BY <1>1, <1>4, <2>2, <2>3 DEF Started, Distinct
<1>5. ASSUME Replicating PROVE Replicating'
  <2>1. \A i \in 1..Last : inst'[At(i)] = inst[At(i)]
    BY <1>5 DEF Replicating
  <2>2. \A i \in 2..Last : i \in 1..Last
    BY <1>2
  <2>3. 1 \in 1..Last
    BY <1>2
  <2> QED
    BY <1>1, <1>5, <2>1, <2>2, <2>3 DEF Replicating, Distinct
<1> QED
  BY <1>2, <1>3, <1>4, <1>5

(* One more node is installed. *)
LEMMA OneMorePlaced ==
  ASSUME Where, ExpansionInv, InstalledInv, phase = "install", op # "remove", UNCHANGED <<file, op>>,
         inst[At(node)] = "free", inst' = [inst EXCEPT ![At(node)] = Made],
         \A s \in Slot : s # At(node) => link'[s] = link[s],
         Pointed => link'[At(node)] # "none",
         NEW k, k = Gone(todo, Visited) + 1
  PROVE  Placed(k)'
<1> DEFINE g == Gone(todo, Visited)
<1>0. /\ Visited = Nodes /\ Len(Visited) = Last /\ Last \in Nat \ {0} /\ Visited \in Seq(Nat)
      /\ \A i \in 1..Last : Nodes[i] = i /\ At(i) \in Slot
  BY NodesVisited
<1>1. TailOf(todo, Visited)
  BY DEF Where, ListInv
<1>2. g \in Nat /\ g + 1 \in 1..Last /\ node = g + 1
  <2>1. node = Visited[g + 1] /\ g + 1 \in 1..Last
    BY <1>0, <1>1, TailShrinks DEF node
  <2>2. Len(todo) \in Nat
    BY <1>0, <1>1 DEF TailOf
  <2> QED
    BY <1>0, <2>1, <2>2 DEF Gone
<1> HIDE DEF g
<1>3. Placed(g)
  BY DEF InstalledInv, g
<1>4. inst \in [Slot -> InstState] /\ At(node) \in Slot
  BY <1>0, <1>2 DEF Where, TypeInv, SqlTypeOK
<1>5. Joiners' = Joiners /\ \A n : At(n)' = At(n)
  BY SameLists DEF Joiners, Joining!Joiners
<1>6. \A i \in 1..g : i \in 1..Last /\ At(i) \in Slot /\ inst[At(i)] # "free" /\ At(i) # At(node)
  BY <1>0, <1>2, <1>3 DEF Placed, MadeAs
<1>7. \A i \in 1..g : inst'[At(i)] = inst[At(i)] /\ link'[At(i)] = link[At(i)]
  BY <1>4, <1>6
<1>8. inst'[At(g + 1)] = MadeAs(g + 1)
  BY <1>2, <1>4 DEF Made, MadeAs
<1>9. \A i \in 1..(g + 1) : i \in 1..g \/ i = g + 1
  BY <1>2
<1>10. /\ file.product = "mariadb" /\ g + 1 # 1 => link'[At(g + 1)] # "none"
       /\ file.product \in Joiners \ {"mariadb-slave"} => link'[At(g + 1)] # "none"
  BY <1>2 DEF Pointed
<1>11. \A i \in 1..(g + 1) : inst'[At(i)] = MadeAs(i)
  BY <1>3, <1>7, <1>8, <1>9 DEF Placed
<1>12. Distinct(g + 1)
  BY <1>2, <1>3, <1>6, <1>9 DEF Distinct, Placed
<1>13. \A i \in 1..(g + 1) :
         /\ file.product = "mariadb" /\ i # 1 => link'[At(i)] # "none"
         /\ file.product \in Joiners \ {"mariadb-slave"} => link'[At(i)] # "none"
  BY <1>3, <1>7, <1>9, <1>10 DEF Placed
<1>14. k = g + 1
  BY DEF g
<1> QED
  BY <1>5, <1>11, <1>12, <1>13, <1>14 DEF Placed, MadeAs, Distinct

(* One more slave of PostgreSQL is started. *)
LEMMA OneMoreStarted ==
  ASSUME Where, ExpansionInv, InstalledInv, phase = "start", op # "remove", UNCHANGED <<file, op>>,
         inst' = [inst EXCEPT ![At(node)] = "up"], link' = [link EXCEPT ![At(node)] = "set"],
         NEW k, k = Gone(todo, Slaves) + 2
  PROVE  Started(k)' /\ k \in 2..Last
<1> DEFINE g == Gone(todo, Slaves)
<1>0. /\ Last \in Nat \ {0} /\ Slaves \in Seq(Nat) /\ Len(Slaves) = Last - 1
      /\ \A i \in 1..(Last - 1) : Slaves[i] = i + 1
      /\ \A i \in 1..Last : At(i) \in Slot
  BY NodesVisited DEF Own
<1>1. TailOf(todo, Slaves)
  BY DEF Where, ListInv
<1>2. g \in Nat /\ node = g + 2 /\ g + 2 \in 2..Last
  <2>1. node = Slaves[g + 1] /\ g + 1 \in 1..(Last - 1)
    BY <1>0, <1>1, TailShrinks DEF node
  <2>2. Len(todo) \in Nat
    BY <1>0, <1>1 DEF TailOf
  <2>3. g \in Int
    BY <1>0, <2>2 DEF Gone
  <2> HIDE DEF g
  <2> QED
    BY <1>0, <2>1, <2>3
<1>3. Started(g + 1)
  BY DEF InstalledInv
<1> HIDE DEF g
<1>4. inst \in [Slot -> InstState] /\ link \in Links /\ At(node) \in Slot
  BY <1>0, <1>2 DEF Where, TypeInv, SqlTypeOK, Links
<1>5. Last' = Last /\ \A n : At(n)' = At(n)
  BY SameLists
<1>6. \A i \in 1..Last : i # g + 2 => At(i) # At(node) /\ At(i) \in Slot
  BY <1>0, <1>2, <1>3 DEF Started, Distinct
<1>7. \A i \in 1..Last : inst'[At(i)] = IF i <= g + 2 THEN "up" ELSE "files"
  <2> SUFFICES ASSUME NEW i \in 1..Last PROVE inst'[At(i)] = IF i <= g + 2 THEN "up" ELSE "files"
    OBVIOUS
  <2>1. CASE i = g + 2
    BY <1>2, <1>4, <2>1
  <2>2. CASE i # g + 2
    <3>1. inst'[At(i)] = inst[At(i)]
      BY <1>4, <1>6, <2>2
    <3>2. inst[At(i)] = IF i <= g + 1 THEN "up" ELSE "files"
      BY <1>3 DEF Started
    <3>3. i <= g + 1 <=> i <= g + 2
      BY <1>2, <2>2
    <3> QED
      BY <3>1, <3>2, <3>3
  <2> QED
    BY <2>1, <2>2
<1>8. \A i \in 2..(g + 2) : link'[At(i)] # "none"
  <2> SUFFICES ASSUME NEW i \in 2..(g + 2) PROVE link'[At(i)] # "none"
    OBVIOUS
  <2>1. CASE i = g + 2
    BY <1>2, <1>4, <2>1 DEF Links
  <2>2. CASE i # g + 2
    <3>1. i \in 2..(g + 1) /\ i \in 1..Last
      BY <1>0, <1>2, <2>2
    <3>2. link'[At(i)] = link[At(i)]
      BY <1>4, <1>6, <2>2, <3>1 DEF Links
    <3> QED
      BY <1>3, <3>1, <3>2 DEF Started
  <2> QED
    BY <2>1, <2>2
<1>9. k = g + 2
  BY DEF g
<1>10. Distinct(Last)
  BY <1>3 DEF Started
<1> QED
  BY <1>2, <1>5, <1>7, <1>8, <1>9, <1>10 DEF Started, Distinct

LEMMA InstalledStep ==
  ASSUME Where, ExpansionInv, InstalledInv, ProgramStep
  PROVE  InstalledInv'
<1>a. phase # "done" /\ UNCHANGED <<file, op, keep>>
  BY StepLists DEF ProgramStep, Connecting, Checking, Copying, Looking, Installing, Removing,
     Dropping,
         OwnStep, OwnMove, OwnFailure, Starting, Undoing, Own
<1> SUFFICES ASSUME op # "remove" PROVE InstalledInv'
  BY <1>a DEF InstalledInv
<1>b. UNCHANGED <<Nodes, Slaves, Visited, Last, Places>> /\ \A n : At(n)' = At(n)
  BY <1>a, SameLists
<1>c. /\ Gone(todo, Visited)' = Len(Visited) - Len(todo')
      /\ Gone(todo, Slaves)' = Len(Slaves) - Len(todo')
  BY <1>b DEF Gone
<1>d. /\ Visited \in Seq(Nat) /\ Slaves \in Seq(Nat) /\ Last \in Nat \ {0}
      /\ ControlInv /\ file \in Files
  BY <1>a, WholeLists, FileTyped DEF Where, TypeInv, SqlTypeOK
<1>e. Len(Visited) \in Nat /\ Len(Slaves) \in Nat
  BY <1>d, LenProperties
<1>f. ASSUME phase' \in {"connect", "checktmp", "scp", "checkenv", "uninstall", "undo"}
      PROVE  InstalledInv'
  BY <1>f DEF InstalledInv
<1>g. ASSUME phase' \in {"drop", "done"}, result' \in {"err", "killed"}
      PROVE  InstalledInv'
  BY <1>g DEF InstalledInv
<1>h. ASSUME phase' = "install", todo' = Visited
      PROVE  InstalledInv'
  <2>1. Gone(todo, Visited)' = 0
    BY <1>c, <1>e, <1>h
  <2>2. Placed(0)'
    BY DEF Placed, Distinct
  <2> QED
    BY <1>h, <2>1, <2>2 DEF InstalledInv
<1>i. /\ \A p, ns : Advance(p, ns) => phase' = phase \/ (phase' = p /\ todo' = ns)
      /\ \A p, ns : Proceed(p, ns) => phase' = p /\ todo' = ns /\ UNCHANGED result
      /\ GiveUp(DropList) => phase' = "drop" /\ result' = "err"
      /\ FailInstallation(RollList, DropList) => phase' \in {"drop", "uninstall"} /\ result' = "err"
      /\ \A r : Return(r) => phase' = "done" /\ result' = r
  BY DEF Advance, Enter, Proceed, GiveUp, FailInstallation, Return
<1>j. /\ phase \in {"connect", "checktmp", "scp", "checkenv", "install"} => TailOf(todo, Visited)
      /\ phase \in {"replica", "basebackup", "chown", "start"} => TailOf(todo, Slaves)
  BY DEF Where, ListInv
<1>k. file.mode = "MM" => file.product = "mariadb"
  BY <1>d, KindsAssumption
<1>1. CASE Connecting
  BY <1>1, <1>f, <1>g, <1>i DEF Connecting
<1>2. CASE Checking
  BY <1>2, <1>f, <1>g, <1>i DEF Checking
<1>3. CASE Copying
  BY <1>3, <1>f, <1>g, <1>h, <1>i DEF Copying
<1>4. CASE Looking
  BY <1>4, <1>f, <1>g, <1>h, <1>i DEF Looking
<1>5. CASE Installing
  <2>1. phase = "install" /\ TailOf(todo, Visited) /\ result = "none"
    BY <1>5, <1>j, <1>d DEF Installing, ControlInv
  <2>2. CASE /\ inst[At(node)] = "free" /\ inst' = [inst EXCEPT ![At(node)] = Made]
             /\ \A s \in Slot : s # At(node) => link'[s] = link[s]
             /\ Pointed => link'[At(node)] # "none"
             /\ Advance(After, AfterList) /\ UNCHANGED result
    <3> DEFINE k == Gone(todo, Visited) + 1
    <3>1. ASSUME NEW n, n = k PROVE Placed(n)'
      BY <1>a, <2>1, <2>2, <3>1, OneMorePlaced
    <3>2. Len(Visited) = Last
      BY <1>a, <2>1, NodesVisited
    <3>3. \/ phase' = "install" /\ Gone(todo', Visited) = k
          \/ phase' = After /\ todo' = AfterList /\ k = Last
      BY <1>d, <2>1, <2>2, <3>2, Advances
    <3>4. CASE phase' = "install" /\ Gone(todo', Visited) = k
      <4>1. Gone(todo, Visited)' = k
        BY <1>b, <3>4 DEF Gone
      <4>2. Placed(Gone(todo, Visited))'
        BY <3>1, <4>1
      <4> QED
        BY <3>4, <4>1, <4>2 DEF InstalledInv
    <3>5. CASE phase' = After /\ k = Last
      <4>1. Placed(Last)'
        BY <1>b, <3>1, <3>5
      <4>2. CASE After = "drop"
        <5>1. file.product \notin {"mariadb", "pgsql", "mariadb-slave"}
          BY <4>2 DEF After
        <5>2. op = "add" => file.product \in Joiners \ {"mariadb-slave"}
          BY <1>a, <5>1, RunFacts
        <5>3. Joiners' = Joiners
          BY DEF Joiners, Joining!Joiners
        <5>4. 1 \in 1..Last
          BY <1>d
        <5>5. Replicating'
          BY <1>a, <1>b, <1>k, <4>1, <5>1, <5>2, <5>3, <5>4 DEF Replicating, Placed, MadeAs
        <5> QED
          BY <3>5, <4>2, <5>5 DEF InstalledInv
      <4>3. CASE After # "drop"
        <5>1. After \in {"replica", "repluser", "datasync"}
          BY <4>3 DEF After
        <5> QED
          BY <3>5, <4>1, <5>1 DEF InstalledInv
      <4> QED
        BY <4>2, <4>3
    <3> QED
      BY <3>3, <3>4, <3>5
  <2>3. CASE FailInstallation(RollList, DropList)
    BY <1>f, <1>g, <1>i, <2>3
  <2> QED
    BY <1>5, <2>2, <2>3, Zenon DEF Installing
<1>6. CASE Removing
  <2>1. result' = "err" /\ phase' \in {"uninstall", "drop"}
    BY <1>6, <1>d, <1>i DEF Removing, ControlInv
  <2> QED
    BY <1>f, <1>g, <2>1
<1>7. CASE Dropping
  <2>1. phase = "drop" /\ UNCHANGED <<inst, link>> /\ result \in {"none", "err"}
    BY <1>7, <1>d DEF Dropping, ControlInv
  <2>2. Replicating => Replicating'
    BY <1>a, <2>1, KeptPlaces
  <2>3. /\ phase' \in {"drop", "done"}
        /\ result' \in {"err", "killed"} \/ result = "none"
    BY <1>7, <1>i, <2>1 DEF Dropping
  <2>4. CASE result = "none"
    <3>1. Replicating
      BY <2>1, <2>4 DEF InstalledInv
    <3> QED
      BY <2>2, <2>3, <3>1 DEF InstalledInv
  <2> QED
    BY <1>g, <2>3, <2>4
<1>8. CASE OwnStep
  <2>1. phase \in Own /\ UNCHANGED inst /\ LinksGrow
    BY <1>8 DEF OwnStep, OwnMove, OwnFailure, Own
  <2>2. CASE OwnFailure
    BY <1>f, <1>g, <1>i, <2>2 DEF OwnFailure
  <2>3. /\ Last \in Nat \ {0} /\ Len(Slaves) = Last - 1
        /\ \A i \in 1..Last : At(i) \in Slot
    BY <1>a, <2>1, NodesVisited
  <2>4. /\ \A k \in 0..Last : Placed(k) => Placed(k)'
        /\ \A k \in 0..Last : Started(k) => Started(k)'
    BY <1>a, <2>1, <2>3, KeptPlaces DEF LinksGrow
  <2>5. Placed(Last) => Placed(Last)'
    BY <1>b, <2>3, <2>4
  <2>6. Started(Last) => Started(Last)'
    BY <1>b, <2>3, <2>4
  <2>7. CASE \/ phase = "replica" /\ Len(todo) > 1 /\ Proceed("replica", Tail(todo))
             \/ phase = "replica" /\ ~(Len(todo) > 1) /\ file.mode = "MM" /\ Proceed("change", <<1>>)
             \/ phase = "datasync" /\ Proceed("changemaster", <<1>>)
    <3>1. Placed(Last)'
      BY <2>5, <2>7 DEF InstalledInv
    <3>2. phase' \in {"replica", "change", "changemaster"}
      BY <1>i, <2>7
    <3> QED
      BY <3>1, <3>2 DEF InstalledInv
  <2>8. CASE phase = "replica" /\ file.mode # "MM" /\ Proceed("drop", DropList)
    <3>1. Placed(Last)' /\ file.product = "mariadb"
      BY <1>d, <2>5, <2>8 DEF InstalledInv, ControlInv
    <3>2. op # "add"
      BY <1>a, <3>1, RunFacts DEF Joiners, Joining!Joiners
    <3>3. \A i \in 2..Last : i \in 1..Last /\ i # 1
      BY <1>d
    <3>4. Replicating'
      BY <1>a, <1>b, <2>8, <3>1, <3>2, <3>3 DEF Replicating, Placed, MadeAs
    <3> QED
      BY <1>i, <2>8, <3>4 DEF InstalledInv
  <2>9. CASE phase = "change" /\ Proceed("master", <<1>>) /\ link'[At(1)] # "none"
    <3>1. Placed(Last)'
      BY <2>5, <2>9 DEF InstalledInv
    <3> QED
      BY <1>b, <1>i, <2>9, <3>1 DEF InstalledInv
  <2>10. CASE phase = "master" /\ Proceed("drop", DropList)
    <3>1. Placed(Last)' /\ file.product = "mariadb" /\ link[At(1)] # "none"
      BY <1>d, <2>5, <2>10 DEF InstalledInv, ControlInv
    <3>2. op # "add"
      BY <1>a, <3>1, RunFacts DEF Joiners, Joining!Joiners
    <3>3. \A i \in 2..Last : i \in 1..Last /\ i # 1
      BY <1>d
    <3>4. link'[At(1)] # "none"
      <4>1. 1 \in 1..Last
        BY <1>d
      <4> QED
        BY <2>1, <2>3, <3>1, <4>1 DEF LinksGrow
    <3>5. Replicating'
      BY <1>a, <1>b, <3>1, <3>2, <3>3, <3>4 DEF Replicating, Placed, MadeAs
    <3> QED
      BY <1>i, <2>10, <3>5 DEF InstalledInv
  <2>11. CASE phase = "repluser" /\ Proceed("basebackup", Slaves)
    <3>1. Placed(Last)' /\ file.product = "pgsql"
      BY <1>d, <2>5, <2>11 DEF InstalledInv, ControlInv
    <3>2. Gone(todo, Slaves)' + 1 = 1
      BY <1>c, <1>e, <1>i, <2>11
    <3>3. \A i \in 1..Last : (i <= 1 <=> i = 1)
      BY <1>d
    <3>4. Started(1)'
      BY <1>a, <1>b, <3>1, <3>3 DEF Started, Placed, MadeAs
    <3> QED
      BY <1>i, <2>11, <3>2, <3>4 DEF InstalledInv
  <2>12. CASE \/ phase = "basebackup" /\ Proceed("chown", todo)
              \/ phase = "chown" /\ Proceed("start", todo)
    <3> DEFINE k == Gone(todo, Slaves) + 1
    <3>1. k \in 0..Last
      <4>1. Len(todo) \in 1..Len(Slaves)
        BY <1>j, <2>12 DEF TailOf
      <4> QED
        BY <2>3, <4>1 DEF Gone
    <3>2. Started(k)
      BY <2>12 DEF InstalledInv
    <3>3. ASSUME NEW n \in 0..Last, n = k PROVE Started(n)'
      BY <2>4, <3>2, <3>3
    <3>4. Gone(todo, Slaves)' + 1 = k /\ phase' \in {"chown", "start"}
      BY <1>b, <1>i, <2>12 DEF Gone
    <3>5. Started(Gone(todo, Slaves) + 1)'
      BY <3>1, <3>3, <3>4
    <3> QED
      BY <3>4, <3>5 DEF InstalledInv
  <2>13. CASE phase = "verify" /\ Proceed("drop", DropList) /\ (op = "add" => link[At(1)] # "none")
    <3>1. CASE op = "add"
      <4>1. Placed(Last)' /\ link'[At(1)] # "none"
        <5>1. 1 \in 1..Last
          BY <1>d
        <5> QED
          BY <2>1, <2>3, <2>5, <2>13, <3>1, <5>1 DEF InstalledInv, LinksGrow
      <4>2. file.product \in Joiners /\ file.product \notin {"mariadb", "pgsql"}
        BY <1>a, <3>1, RunFacts DEF Joiners, Joining!Joiners
      <4>3. Replicating'
        BY <1>a, <1>b, <1>k, <4>1, <4>2 DEF Replicating, Placed, MadeAs
      <4> QED
        BY <1>i, <2>13, <4>3 DEF InstalledInv
    <3>2. CASE op # "add"
      <4>1. file.product = "pgsql"
        <5>1. file.product \in {"pgsql", "mariadb-slave"} /\ file.product \notin Joiners
          BY <1>a, <1>d, <2>13, <3>2, RunFacts DEF ControlInv
        <5> QED
          BY <5>1 DEF Joiners, Joining!Joiners
      <4>2. Started(Last)'
        BY <2>6, <2>13, <3>2 DEF InstalledInv
      <4>3. \A i \in 1..Last : i <= Last
        BY <1>d
      <4>4. Replicating'
        BY <1>a, <1>b, <1>k, <3>2, <4>1, <4>2, <4>3 DEF Replicating, Started
      <4> QED
        BY <1>i, <2>13, <4>4 DEF InstalledInv
    <3> QED
      BY <3>1, <3>2
  <2>14. CASE phase = "changemaster" /\ Proceed("verify", <<1>>)
    <3>1. op = "add"
      <4>1. file.product = "mariadb-slave"
        BY <1>d, <2>14 DEF ControlInv
      <4> QED
        BY <1>a, <4>1, RunFacts DEF Joiners, Joining!Joiners
    <3>2. Placed(Last)'
      BY <2>5, <2>14 DEF InstalledInv
    <3> QED
      BY <1>a, <1>i, <2>14, <3>1, <3>2 DEF InstalledInv
  <2>15. CASE Proceed("undo", <<1>>)
    BY <1>f, <1>i, <2>15
  <2> QED
    BY <1>8, <2>2, <2>7, <2>8, <2>9, <2>10, <2>11, <2>12, <2>13, <2>14, <2>15 DEF OwnStep, OwnMove
<1>9. CASE Starting
  <2>1. phase = "start" /\ TailOf(todo, Slaves)
    BY <1>9, <1>j DEF Starting
  <2>2. CASE FailInstallation(RollList, DropList)
    BY <1>f, <1>g, <1>i, <2>2
  <2>3. CASE /\ inst' = [inst EXCEPT ![At(node)] = "up"] /\ link' = [link EXCEPT ![At(node)] = "set"]
             /\ \/ Len(todo) > 1 /\ Proceed("basebackup", Tail(todo))
                \/ ~(Len(todo) > 1) /\ Proceed("verify", <<1>>)
    <3> DEFINE k == Gone(todo, Slaves) + 2
    <3>1. ASSUME NEW n, n = k PROVE Started(n)' /\ n \in 2..Last
      BY <1>a, <2>1, <2>3, <3>1, OneMoreStarted
    <3>2. /\ Len(todo) > 1 => Gone(Tail(todo), Slaves) = Gone(todo, Slaves) + 1
          /\ ~(Len(todo) > 1) => Gone(todo, Slaves) + 1 = Len(Slaves)
      BY <1>d, <2>1, TailShrinks
    <3>3. Gone(todo, Slaves) \in Int /\ Len(Slaves) = Last - 1
      <4>1. Len(todo) \in 1..Len(Slaves)
        BY <2>1 DEF TailOf
      <4>2. Len(Slaves) = Last - 1
        BY <1>a, <2>1, NodesVisited DEF Own
      <4> QED
        BY <1>e, <4>1, <4>2 DEF Gone
    <3>4. CASE Len(todo) > 1 /\ Proceed("basebackup", Tail(todo))
      <4>1. Gone(todo, Slaves)' = Gone(todo, Slaves) + 1
        BY <1>b, <1>i, <3>2, <3>4 DEF Gone
      <4>2. Gone(todo, Slaves)' + 1 = k
        BY <3>3, <4>1
      <4>3. Started(Gone(todo, Slaves) + 1)'
        BY <3>1, <4>2
      <4> QED
        BY <1>i, <3>4, <4>3 DEF InstalledInv
    <3>5. CASE ~(Len(todo) > 1) /\ Proceed("verify", <<1>>)
      <4>1. k = Last
        BY <1>d, <3>2, <3>3, <3>5
      <4>2. Started(Last)'
        BY <1>b, <3>1, <4>1
      <4>3. op' # "add"
        <5>1. file.product = "pgsql"
          BY <1>d, <2>1 DEF ControlInv
        <5> QED
          BY <1>a, <5>1, RunFacts DEF Joiners, Joining!Joiners
      <4> QED
        BY <1>i, <3>5, <4>2, <4>3 DEF InstalledInv
    <3> QED
      BY <2>3, <3>4, <3>5
  <2> QED
    BY <1>9, <2>2, <2>3 DEF Starting
<1>10. CASE Undoing
  BY <1>10, <1>g, <1>i DEF Undoing
<1> QED
  BY <1>1, <1>2, <1>3, <1>4, <1>5, <1>6, <1>7, <1>8, <1>9, <1>10 DEF ProgramStep

LEMMA InstalledElsewhere ==
  ASSUME Where, ExpansionInv, InstalledInv, Environment \/ UNCHANGED rollVars
  PROVE  InstalledInv'
<1>a. UNCHANGED <<file, op>>
  BY DEF Environment, Interrupt, LoseConnection, OtherInstalls, OtherFills, LinkChanges, fileVars,
         histVars, rollVars
<1>b. UNCHANGED <<Nodes, Slaves, Visited, Last, Places>> /\ \A n : At(n)' = At(n)
  BY <1>a, SameLists
<1>c. inst \in [Slot -> InstState] /\ link \in Links /\ file \in Files
  BY DEF Where, TypeInv, SqlTypeOK, Links
<1>d. \A i \in 1..Last : At(i) \in Slot
  <2>1. /\ Last \in Nat \ {0} /\ Len(file.fresh) \in Nat /\ DOMAIN Places = 1..Len(Places)
        /\ Len(Places) = Last + Len(file.fresh)
    BY <1>c, FileTyped
  <2>2. \A i \in 1..Last : i \in DOMAIN Places
    BY <2>1
  <2> QED
    BY <1>c, <2>2, FileTyped
<1>1. CASE Interrupt
  BY <1>1 DEF Interrupt, Return, Enter, InstalledInv
<1>2. CASE ~Interrupt
  <2>1. UNCHANGED <<phase, todo, result>>
    BY <1>2 DEF Environment, LoseConnection, OtherInstalls, OtherFills, LinkChanges, ctlVars,
       rollVars
  <2>2. \A s \in Slot : inst[s] # "free" => inst'[s] = inst[s]
    <3>1. CASE OtherInstalls
      BY <1>c, <3>1 DEF OtherInstalls
    <3>2. CASE ~OtherInstalls
      BY <1>2, <3>2 DEF Environment, LoseConnection, OtherFills, LinkChanges, rollVars
    <3> QED
      BY <3>1, <3>2
  <2>3. \A s \in Slot : link[s] # "none" => link'[s] # "none"
    <3>1. CASE LinkChanges
      BY <1>c, <3>1 DEF LinkChanges, Links
    <3>2. CASE ~LinkChanges
      BY <1>2, <3>2 DEF Environment, LoseConnection, OtherFills, OtherInstalls, rollVars
    <3> QED
      BY <3>1, <3>2
  <2>4. /\ \A k \in 0..Last : Placed(k) => Placed(k)'
        /\ \A k \in 0..Last : Started(k) => Started(k)'
        /\ Replicating => Replicating'
        /\ Last \in Nat \ {0}
    BY <1>a, <1>d, <2>2, <2>3, KeptPlaces
  <2>5. Gone(todo, Visited)' = Gone(todo, Visited) /\ Gone(todo, Slaves)' = Gone(todo, Slaves)
    BY <1>b, <2>1 DEF Gone
  <2>6. /\ Placed(Last) => Placed(Last)'
        /\ Started(Last) => Started(Last)'
    BY <1>b, <2>4
  <2>7. phase = "install" /\ op # "remove" /\ Placed(Gone(todo, Visited)) => Placed(Gone(todo, Visited))'
    <3> SUFFICES ASSUME phase = "install", op # "remove", Placed(Gone(todo, Visited))
                 PROVE  Placed(Gone(todo, Visited))'
      OBVIOUS
    <3>1. Gone(todo, Visited) \in 0..Last
      <4>1. Len(todo) \in 1..Len(Visited)
        BY DEF Where, ListInv, TailOf
      <4>2. Len(Visited) = Last
        BY NodesVisited
      <4> QED
        BY <2>4, <4>1, <4>2 DEF Gone
    <3>2. ASSUME NEW n \in 0..Last, n = Gone(todo, Visited) PROVE Placed(n)'
      BY <2>4, <3>2
    <3> QED
      BY <2>5, <3>1, <3>2
  <2>8. phase \in {"basebackup", "chown", "start"} /\ Started(Gone(todo, Slaves) + 1) =>
          Started(Gone(todo, Slaves) + 1)'
    <3> SUFFICES ASSUME phase \in {"basebackup", "chown", "start"}, Started(Gone(todo, Slaves) + 1)
                 PROVE  Started(Gone(todo, Slaves) + 1)'
      OBVIOUS
    <3>1. Gone(todo, Slaves) + 1 \in 0..Last
      <4>1. Len(todo) \in 1..Len(Slaves) /\ Len(Slaves) = Last - 1
        BY <1>c, NodesList DEF Where, ListInv, TailOf
      <4> QED
        BY <2>4, <4>1 DEF Gone
    <3>2. ASSUME NEW n \in 0..Last, n = Gone(todo, Slaves) + 1 PROVE Started(n)'
      BY <2>4, <3>2
    <3> QED
      BY <2>5, <3>1, <3>2
  <2>9. link[At(1)] # "none" => link'[At(1)'] # "none"
    <3>1. At(1) \in Slot
      <4>1. 1 \in 1..Last
        BY <2>4
      <4> QED
        BY <1>d, <4>1
    <3> QED
      BY <1>b, <2>3, <3>1
  <2>10. Replicating => Replicating'
    BY <2>4
  <2> QED
    BY <1>a, <2>1, <2>6, <2>7, <2>8, <2>9, <2>10 DEF InstalledInv
<1> QED
  BY <1>1, <1>2
-------------------------------------------------------------------------------
(* Only what was free is installed in, and rolled back. *)

LEMMA PriorStep ==
  ASSUME Where, ExpansionInv, PriorInv, ProgramStep
  PROVE  PriorInv'
<1>a. phase # "done" /\ UNCHANGED <<file, op, keep, before>>
  BY StepLists, StepTyped DEF ProgramStep, Connecting, Checking, Copying, Looking, Installing,
     Removing,
         Dropping, OwnStep, OwnMove, OwnFailure, Starting, Undoing, Own
<1>b. UNCHANGED <<Nodes, Slaves, Visited, RollList, Last, Places>> /\ \A n : At(n)' = At(n)
  BY <1>a, SameLists
<1> SUFFICES ASSUME op # "remove" PROVE PriorInv'
  BY <1>a DEF PriorInv
<1>c. \A n : WasFree(n)' <=> WasFree(n)
  BY <1>a, <1>b DEF WasFree
<1>d. /\ phase \in {"connect", "checktmp", "scp", "checkenv", "install"} =>
           \A s \in Slot : inst[s] = "free" => before.inst[s] = "free"
      /\ phase = "checkenv" => \A i \in 1..Gone(todo, Visited) : WasFree(Visited[i])
      /\ phase = "install" /\ op = "deploy" => \A n \in 1..Last : WasFree(n)
      /\ phase \in Own \cup {"undo"} => \A n \in 1..Last : WasFree(n)
      /\ phase = "uninstall" => \A i \in 1..Len(todo) : WasFree(todo[i])
  BY DEF PriorInv
<1>e. /\ Visited \in Seq(Nat) /\ Len(Visited) \in Nat /\ RollList \in Seq(Nat)
      /\ TailOf(Visited, Visited) /\ Gone(Visited, Visited) = 0
      /\ file \in Files /\ Last \in Nat \ {0} /\ op \in {"deploy", "add"}
      /\ op = "add" <=> file.product \in Joiners
  <2>1. /\ file \in Files /\ op \in {"deploy", "add"}
        /\ op = "add" <=> file.product \in Joiners
    BY <1>a, RunFacts
  <2>2. Visited \in Seq(Nat) /\ Visited # <<>> /\ RollList \in Seq(Nat) /\ Last \in Nat \ {0}
    BY <2>1, VisitedList, RunLists, FileTyped
  <2> QED
    BY <2>1, <2>2, WholeIsTail, LenProperties
<1>f. phase \in {"connect", "checktmp", "scp", "checkenv", "install"} => TailOf(todo, Visited)
  BY DEF Where, ListInv
<1>g. /\ \A p, ns : Advance(p, ns) => phase' = phase \/ (phase' = p /\ todo' = ns)
      /\ \A p, ns : Proceed(p, ns) => phase' = p
      /\ GiveUp(DropList) => phase' = "drop"
      /\ \A r : Return(r) => phase' = "done"
  BY DEF Advance, Enter, Proceed, GiveUp, Return
<1>h. ASSUME phase' \in {"drop", "done"} PROVE PriorInv'
  BY <1>h DEF PriorInv, Own
<1>i. ASSUME UNCHANGED inst, phase \in {"connect", "checktmp", "scp"},
             \/ phase' \in {"connect", "checktmp", "scp"}
             \/ phase' = "install" /\ op = "add"
      PROVE  PriorInv'
  BY <1>a, <1>d, <1>i DEF PriorInv, Own
<1>j. ASSUME phase' \in Own \cup {"undo"}, \A n \in 1..Last : WasFree(n) PROVE PriorInv'
  <2>1. \A n \in 1..Last' : WasFree(n)'
    BY <1>b, <1>c, <1>j
  <2> QED
    BY <1>j, <2>1 DEF PriorInv, Own
<1>k. ASSUME phase \in {"install"} \cup Own, FailInstallation(RollList, DropList)
      PROVE  PriorInv'
  <2>1. phase' = "drop" \/ (phase' = "uninstall" /\ todo' = RollList /\ RollList # <<>>)
    BY <1>k DEF FailInstallation, GiveUp, Enter
  <2>2. CASE phase' = "uninstall" /\ todo' = RollList /\ RollList # <<>>
    <3>1. file.product \notin Joiners /\ op = "deploy"
      BY <1>e, <2>2, JoinerLists
    <3>2. ~Expansion /\ \A n \in 1..Last : WasFree(n)
      BY <1>a, <1>d, <1>k, <3>1, NodesVisited
    <3>3. \A n : Visits(RollList, n) <=> n \in 1..Last
      BY <1>e, <3>1, <3>2, RunLists
    <3>4. \A i \in 1..Len(RollList) : WasFree(RollList[i])
      BY <3>2, <3>3 DEF Visits
    <3>5. \A i \in 1..Len(todo') : WasFree(todo[i])'
      BY <1>a, <1>b, <2>2, <3>4 DEF WasFree, At
    <3> QED
      BY <2>2, <3>5 DEF PriorInv, Own
  <2> QED
    BY <1>h, <2>1, <2>2
<1>l. inst \in [Slot -> InstState]
  BY DEF Where, TypeInv, SqlTypeOK
<1>1. CASE Connecting
  BY <1>1, <1>g, <1>h, <1>i DEF Connecting
<1>2. CASE Checking
  BY <1>2, <1>g, <1>h, <1>i DEF Checking
<1>3. CASE Copying
  <2>1. phase = "scp" /\ UNCHANGED inst
    BY <1>3 DEF Copying
  <2>2. CASE Advance("checkenv", Visited)
    <3>1. CASE phase' = "checkenv" /\ todo' = Visited
      <4>1. Gone(todo, Visited)' = 0
        BY <1>b, <1>e, <3>1 DEF Gone
      <4> QED
        BY <1>a, <1>d, <2>1, <3>1, <4>1 DEF PriorInv, Own
    <3> QED
      BY <1>g, <1>i, <2>1, <2>2, <3>1
  <2>3. CASE op = "add" /\ Advance("install", Visited)
    BY <1>g, <1>i, <2>1, <2>3
  <2>4. CASE GiveUp(DropList)
    BY <1>g, <1>h, <2>4
  <2> QED
    BY <1>3, <2>2, <2>3, <2>4 DEF Copying
<1>4. CASE Looking
  <2>1. phase = "checkenv" /\ UNCHANGED inst
    BY <1>4 DEF Looking
  <2>2. CASE inst[At(node)] = "free" /\ Advance("install", Visited)
    <3>1. /\ node = Visited[Gone(todo, Visited) + 1] /\ Gone(todo, Visited) \in Int
          /\ Gone(todo, Visited) + 1 \in 1..Len(Visited)
      <4>1. node = Visited[Gone(todo, Visited) + 1] /\ Gone(todo, Visited) + 1 \in 1..Len(Visited)
        BY <1>e, <1>f, <2>1, TailShrinks DEF node
      <4>2. Gone(todo, Visited) \in Int
        BY <1>e, <1>f, <2>1 DEF TailOf, Gone
      <4> QED
        BY <4>1, <4>2
    <3>2. WasFree(Visited[Gone(todo, Visited) + 1])
      BY <1>a, <1>d, <2>1, <2>2, <3>1, NodeAtHand DEF WasFree
    <3>3. \A i \in 1..(Gone(todo, Visited) + 1) : WasFree(Visited[i])
      BY <1>d, <2>1, <3>1, <3>2
    <3>4. CASE phase' = phase /\ Gone(todo', Visited) = Gone(todo, Visited) + 1
      <4>1. Gone(todo, Visited)' = Gone(todo, Visited) + 1
        BY <1>b, <3>4 DEF Gone
      <4>2. \A i \in 1..Gone(todo, Visited)' : WasFree(Visited[i])'
        BY <1>a, <1>b, <3>3, <4>1 DEF WasFree, At
      <4> QED
        BY <1>a, <1>d, <2>1, <3>4, <4>2 DEF PriorInv, Own
    <3>5. CASE phase' = "install" /\ Gone(todo, Visited) + 1 = Len(Visited)
      <4>1. ~Expansion
        <5>1. ExpansionInv'
          BY ExpansionStep
        <5>2. Expansion' = Expansion
          BY <1>a, SameLists
        <5>3. op = "add" => ~Expansion
          BY <1>e, JoinerLists
        <5> QED
          BY <1>a, <1>e, <3>5, <5>1, <5>2, <5>3 DEF ExpansionInv, Begun
      <4>2. Visited = Nodes /\ Len(Visited) = Last /\ \A i \in 1..Last : Visited[i] = i
        BY <1>e, <4>1, VisitedList, NodesList
      <4>3. \A n \in 1..Last : WasFree(n)
        BY <3>3, <3>5, <4>2
      <4>4. \A n \in 1..Last' : WasFree(n)'
        BY <1>b, <1>c, <4>3
      <4> QED
        BY <1>a, <1>d, <2>1, <3>5, <4>4 DEF PriorInv, Own
    <3> QED
      BY <1>e, <1>f, <2>1, <2>2, <3>4, <3>5, Advances
  <2>3. CASE GiveUp(DropList)
    BY <1>g, <1>h, <2>3
  <2> QED
    BY <1>4, <2>2, <2>3 DEF Looking
<1>5. CASE Installing
  <2>1. phase = "install"
    BY <1>5 DEF Installing
  <2>2. CASE /\ inst[At(node)] = "free" /\ inst' = [inst EXCEPT ![At(node)] = Made]
             /\ Advance(After, AfterList)
    <3>1. At(node) \in Slot /\ WasFree(node)
      BY <1>a, <1>d, <2>1, <2>2, NodeAtHand DEF WasFree
    <3>2. \A s \in Slot : inst'[s] = "free" => before.inst[s] = "free"
      BY <1>d, <1>l, <2>1, <2>2, <3>1 DEF Made
    <3>3. \A n \in 1..Last : op = "add" => WasFree(n)
      <4> SUFFICES ASSUME op = "add" PROVE \A n \in 1..Last : WasFree(n)
        OBVIOUS
      <4>1. Last = 1
        BY <1>e, JoinerLists
      <4>2. node = 1
        <5>1. Visited = <<1>>
          BY <1>e, JoinerLists
        <5>2. node = Visited[Gone(todo, Visited) + 1] /\ Gone(todo, Visited) + 1 \in 1..Len(Visited)
          BY <1>e, <1>f, <2>1, TailShrinks DEF node
        <5> QED
          BY <5>1, <5>2
      <4> QED
        BY <3>1, <4>1, <4>2
    <3>4. \A n \in 1..Last : WasFree(n)
      BY <1>d, <1>e, <2>1, <3>3
    <3>5. phase' = "install" \/ phase' = After
      BY <1>g, <2>1, <2>2
    <3>6. CASE phase' = "install"
      <4>1. \A n \in 1..Last' : WasFree(n)'
        BY <1>b, <1>c, <3>4
      <4>2. \A s \in Slot : inst'[s] = "free" => before'.inst[s] = "free"
        BY <1>a, <3>2
      <4> QED
        BY <3>6, <4>1, <4>2 DEF PriorInv, Own
    <3>7. CASE phase' = After
      BY <1>h, <1>j, <3>4, <3>7 DEF After, Own
    <3> QED
      BY <3>5, <3>6, <3>7
  <2>3. CASE FailInstallation(RollList, DropList)
    BY <1>k, <2>1, <2>3
  <2> QED
    BY <1>5, <2>2, <2>3, Zenon DEF Installing
<1>6. CASE Removing
  <2>1. phase = "uninstall" /\ Advance("drop", DropList)
    BY <1>6 DEF Removing
  <2>2. CASE Len(todo) > 1
    <3>1. phase' = "uninstall" /\ todo' = Tail(todo)
      BY <2>1, <2>2 DEF Advance
    <3>2. todo \in Seq(Nat) /\ todo # <<>> /\ Len(todo) \in Nat
      BY <1>a, NodeAtHand, LenProperties DEF Where, TypeInv
    <3>3. Len(todo') = Len(todo) - 1 /\ \A j \in 1..Len(todo') : todo'[j] = todo[j + 1]
      BY <3>1, <3>2, TailTyped
    <3>4. \A j \in 1..Len(todo') : j + 1 \in 1..Len(todo)
      BY <3>2, <3>3
    <3>5. \A j \in 1..Len(todo') : WasFree(todo[j])'
      BY <1>a, <1>b, <1>d, <2>1, <3>3, <3>4 DEF WasFree, At
    <3> QED
      BY <3>1, <3>5 DEF PriorInv, Own
  <2>3. CASE ~(Len(todo) > 1)
    BY <1>h, <2>1, <2>3 DEF Advance, Enter
  <2> QED
    BY <2>2, <2>3
<1>7. CASE Dropping
  BY <1>7, <1>g, <1>h DEF Dropping
<1>8. CASE OwnStep
  <2>1. phase \in Own
    BY <1>8 DEF OwnStep, OwnMove, OwnFailure, Own
  <2>2. CASE OwnFailure
    BY <1>g, <1>h, <1>k, <2>1, <2>2 DEF OwnFailure
  <2>3. CASE OwnMove
    <3>1. phase' \in Own \cup {"drop", "undo"}
      BY <1>g, <2>3 DEF OwnMove, Own
    <3> QED
      BY <1>d, <1>h, <1>j, <2>1, <3>1
  <2> QED
    BY <1>8, <2>2, <2>3 DEF OwnStep
<1>9. CASE Starting
  <2>1. phase \in Own
    BY <1>9 DEF Starting, Own
  <2>2. phase' \in {"basebackup", "verify"} \/ FailInstallation(RollList, DropList)
    BY <1>9, <1>g DEF Starting
  <2> QED
    BY <1>d, <1>j, <1>k, <2>1, <2>2 DEF Own
<1>10. CASE Undoing
  BY <1>10, <1>g, <1>h DEF Undoing
<1> QED
  BY <1>1, <1>2, <1>3, <1>4, <1>5, <1>6, <1>7, <1>8, <1>9, <1>10 DEF ProgramStep

LEMMA PriorElsewhere ==
  ASSUME Where, PriorInv, Environment \/ UNCHANGED rollVars
  PROVE  PriorInv'
<1>a. UNCHANGED <<file, op, keep, before>>
  BY DEF Environment, Interrupt, LoseConnection, OtherInstalls, OtherFills, LinkChanges, fileVars,
         histVars, rollVars
<1>b. UNCHANGED <<Visited, Last, Places>> /\ \A n : At(n)' = At(n)
  BY <1>a, SameLists
<1>1. CASE Interrupt
  BY <1>1 DEF Interrupt, Return, Enter, PriorInv, Own
<1>2. CASE ~Interrupt
  <2>1. UNCHANGED <<phase, todo>>
    BY <1>2 DEF Environment, LoseConnection, OtherInstalls, OtherFills, LinkChanges, ctlVars,
       rollVars
  <2>2. \A s \in Slot : inst'[s] = "free" => inst[s] = "free"
    <3>1. CASE OtherInstalls
      BY <3>1 DEF OtherInstalls, Where, TypeInv, SqlTypeOK
    <3>2. CASE ~OtherInstalls
      BY <1>2, <3>2 DEF Environment, LoseConnection, OtherFills, LinkChanges, rollVars
    <3> QED
      BY <3>1, <3>2
  <2>3. \A n : WasFree(n)' <=> WasFree(n)
    BY <1>a, <1>b DEF WasFree
  <2>4. Gone(todo, Visited)' = Gone(todo, Visited)
    BY <1>b, <2>1 DEF Gone
  <2>5. /\ (\A i \in 1..Gone(todo, Visited) : WasFree(Visited[i])) =>
             \A i \in 1..Gone(todo, Visited)' : WasFree(Visited[i])'
        /\ (\A n \in 1..Last : WasFree(n)) => \A n \in 1..Last' : WasFree(n)'
        /\ (\A i \in 1..Len(todo) : WasFree(todo[i])) => \A i \in 1..Len(todo') : WasFree(todo[i])'
    BY <1>a, <1>b, <2>1, <2>4 DEF WasFree, At
  <2> QED
    BY <1>a, <2>1, <2>2, <2>5 DEF PriorInv
<1> QED
  BY <1>1, <1>2
-------------------------------------------------------------------------------
(* A deployment that fails, and rolls back, leaves what it found. *)

LEMMA TraceStep ==
  ASSUME Where, ExpansionInv, PriorInv, TraceInv, ProgramStep
  PROVE  TraceInv'
<1>a. phase # "done" /\ UNCHANGED <<file, op, keep, before, others>>
  BY StepLists, StepTyped DEF ProgramStep, Connecting, Checking, Copying, Looking, Installing,
     Removing,
         Dropping, OwnStep, OwnMove, OwnFailure, Starting, Undoing, Own
<1>b. UNCHANGED <<Nodes, Slaves, Visited, RollList, Last, Places>> /\ \A n : At(n)' = At(n)
  BY <1>a, SameLists
<1>c. blemish \in BOOLEAN /\ (blemish => blemish')
  <2>1. blemish \in BOOLEAN
    BY DEF Where, TypeInv
  <2>2. \A bad \in BOOLEAN : Mark(bad) => (blemish => blemish')
    BY <2>1 DEF Mark
  <2>3. \/ UNCHANGED blemish
        \/ \E bad \in BOOLEAN : Mark(bad)
    <3>1. CASE Installing
      <4>1. UNCHANGED blemish \/ \E i \in InstState : Mark(i = "orphan")
        BY <3>1, Zenon DEF Installing
      <4>2. \A i : (i = "orphan") \in BOOLEAN
        OBVIOUS
      <4> QED
        BY <4>1, <4>2, Zenon
    <3>2. CASE Removing
      <4>1. \E ok \in BOOLEAN : Mark(~ok)
        BY <3>2, Zenon DEF Removing
      <4>2. \A ok \in BOOLEAN : (~ok) \in BOOLEAN
        OBVIOUS
      <4> QED
        BY <4>1, <4>2, Zenon
    <3>3. CASE Dropping
      <4>1. UNCHANGED blemish \/ Mark(TRUE)
        BY <3>3, Zenon DEF Dropping
      <4> QED
        BY <4>1, Zenon
    <3>4. CASE Undoing
      BY <3>4, Zenon DEF Undoing
    <3>5. CASE Connecting \/ Checking \/ Copying \/ Looking \/ OwnStep \/ Starting
      BY <3>5 DEF Connecting, Checking, Copying, Looking, OwnStep, Starting, histVars
    <3> QED
      BY <3>1, <3>2, <3>3, <3>4, <3>5 DEF ProgramStep
  <2> QED
    BY <2>1, <2>2, <2>3
<1> SUFFICES ASSUME op = "deploy", ~blemish', others = 0
             PROVE  TraceInv'
  BY <1>a DEF TraceInv
<1>d. /\ phase \in {"connect", "checktmp", "scp", "checkenv"} => inst = before.inst
      /\ phase \in {"install"} \cup Own =>
           \A s \in Slot : Changed(s) => inst[s] # "orphan" /\ \E n \in 1..Last : s = At(n)
      /\ phase = "uninstall" =>
           \A s \in Slot : Changed(s) => inst[s] # "orphan" /\ \E i \in 1..Len(todo) : s = At(todo[i])
      /\ phase = "drop" /\ result = "err" /\ ~keep => inst = before.inst
  BY <1>c DEF TraceInv
<1>e. /\ Visited \in Seq(Nat) /\ Len(Visited) \in Nat /\ RollList \in Seq(Nat) /\ Len(RollList) \in Nat
      /\ TailOf(Visited, Visited) /\ Gone(Visited, Visited) = 0
      /\ file \in Files /\ file.product \notin Joiners /\ Last \in Nat \ {0} /\ ControlInv
  <2>1. file \in Files /\ file.product \notin Joiners
    BY <1>a, RunFacts
  <2>2. Visited \in Seq(Nat) /\ Visited # <<>> /\ RollList \in Seq(Nat) /\ Last \in Nat \ {0}
    BY <2>1, VisitedList, RunLists, FileTyped
  <2> QED
    BY <2>1, <2>2, WholeIsTail, LenProperties DEF Where
<1>f. /\ phase \in {"connect", "checktmp", "scp", "checkenv", "install"} => TailOf(todo, Visited)
      /\ phase \in {"replica", "basebackup", "chown", "start"} => TailOf(todo, Slaves)
      /\ phase = "uninstall" => TailOf(todo, RollList)
  BY DEF Where, ListInv
<1>g. /\ \A p, ns : Advance(p, ns) => phase' = phase \/ (phase' = p /\ todo' = ns)
      /\ \A p, ns : Proceed(p, ns) => phase' = p /\ todo' = ns /\ UNCHANGED result
      /\ GiveUp(DropList) => phase' = "drop" /\ result' = "err"
      /\ \A r : Return(r) => phase' = "done" /\ result' = r
  BY DEF Advance, Enter, Proceed, GiveUp, Return
<1>i. ASSUME UNCHANGED inst, inst = before.inst,
             phase' \in {"connect", "checktmp", "scp", "checkenv", "drop", "done", "undo"}
      PROVE  TraceInv'
  BY <1>a, <1>i DEF TraceInv, Own
<1>j. inst \in [Slot -> InstState] /\ before.inst \in [Slot -> InstState] /\ inst' \in [Slot -> InstState]
  BY StepTyped DEF Where, TypeInv, SqlTypeOK
(* What changed is ours, and the step goes on, *)
<1> DEFINE Ours == \A s \in Slot : inst'[s] # before.inst[s] =>
                     inst'[s] # "orphan" /\ \E n \in 1..Last : s = At(n)
<1>k. ASSUME Ours, phase' \in {"install"} \cup Own
      PROVE  TraceInv'
  <2>1. \A s \in Slot : Changed(s)' => inst'[s] # "orphan" /\ \E n \in 1..Last' : s = At(n)'
    BY <1>a, <1>b, <1>k DEF Changed
  <2> QED
    BY <1>k, <2>1 DEF TraceInv, Own
(* or rolls back. *)
<1>l. ASSUME Ours, phase \in {"install"} \cup Own, FailInstallation(RollList, DropList)
      PROVE  TraceInv'
  <2>1. ~Expansion
    BY <1>a, <1>l, NodesVisited
  <2>2. RollList # <<>> /\ \A n : Visits(RollList, n) <=> n \in 1..Last
    BY <1>e, <2>1, RunLists
  <2>3. CASE phase' = "drop" /\ keep
    BY <1>a, <2>3 DEF TraceInv, Own
  <2>4. CASE phase' = "uninstall" /\ todo' = RollList
    <3>1. \A s \in Slot : inst'[s] # before.inst[s] =>
            inst'[s] # "orphan" /\ \E i \in 1..Len(RollList) : s = At(RollList[i])
      BY <1>l, <2>2 DEF Visits
    <3>2. \A s \in Slot : Changed(s)' => inst'[s] # "orphan" /\ \E i \in 1..Len(todo') : s = At(todo'[i])
      BY <1>a, <2>4, <3>1 DEF Changed
    <3>3. \A i : At(todo[i])' = At(todo'[i])
      BY <1>b DEF At
    <3> QED
      BY <2>4, <3>2, <3>3 DEF TraceInv, Own
  <2> QED
    BY <1>l, <2>2, <2>3, <2>4 DEF FailInstallation, GiveUp, Enter
<1>1. CASE Connecting
  BY <1>1, <1>d, <1>g, <1>i DEF Connecting
<1>2. CASE Checking
  BY <1>2, <1>d, <1>g, <1>i DEF Checking
<1>3. CASE Copying
  <2>1. phase = "scp" /\ UNCHANGED inst /\ inst = before.inst /\ phase' \in {"scp", "checkenv", "drop"}
    BY <1>3, <1>d, <1>g DEF Copying
  <2> QED
    BY <1>i, <2>1
<1>4. CASE Looking
  <2>1. phase = "checkenv" /\ UNCHANGED inst /\ inst = before.inst
        /\ phase' \in {"checkenv", "install", "drop"}
    BY <1>4, <1>d, <1>g DEF Looking
  <2>2. Ours
    BY <2>1
  <2> QED
    BY <1>i, <1>k, <2>1, <2>2
<1>5. CASE Installing
  <2>1. phase = "install" /\ result = "none"
    BY <1>5, <1>e DEF Installing, ControlInv
  <2>2. At(node) \in Slot /\ node \in 1..Last
    <3>1. Visited = Nodes /\ Len(Visited) = Last /\ \A i \in 1..Last : Nodes[i] = i /\ At(i) \in Slot
      BY <1>a, <2>1, NodesVisited
    <3>2. node = Visited[Gone(todo, Visited) + 1] /\ Gone(todo, Visited) + 1 \in 1..Len(Visited)
      BY <1>e, <1>f, <2>1, TailShrinks DEF node
    <3> QED
      BY <3>1, <3>2
  <2>3. ASSUME NEW i, i # "orphan", inst' = [inst EXCEPT ![At(node)] = i]
        PROVE  Ours
    BY <1>d, <1>j, <2>1, <2>2, <2>3 DEF Changed
  <2>4. CASE /\ inst' = [inst EXCEPT ![At(node)] = Made] /\ UNCHANGED result
             /\ Advance(After, AfterList)
    <3>1. Made # "orphan"
      BY DEF Made
    <3>2. Ours
      BY <2>3, <2>4, <3>1
    <3>3. phase' \in {"install", After}
      BY <1>g, <2>1, <2>4
    <3>4. CASE phase' = "drop"
      BY <2>1, <2>4, <3>4 DEF TraceInv, Own
    <3>5. CASE phase' # "drop"
      BY <1>d, <1>k, <2>1, <3>2, <3>3, <3>5 DEF After, Own
    <3> QED
      BY <3>4, <3>5
  <2>5. CASE /\ \E i \in InstState : inst' = [inst EXCEPT ![At(node)] = i] /\ Mark(i = "orphan")
             /\ FailInstallation(RollList, DropList)
    <3>1. PICK i \in InstState : inst' = [inst EXCEPT ![At(node)] = i] /\ Mark(i = "orphan")
      BY <2>5
    <3>2. i # "orphan"
      BY <1>c, <3>1 DEF Mark
    <3> QED
      BY <1>l, <2>1, <2>3, <2>5, <3>1, <3>2
  <2> QED
    BY <1>5, <2>4, <2>5, Zenon DEF Installing
<1>6. CASE Removing
  <2>1. /\ phase = "uninstall" /\ TailOf(todo, RollList) /\ result' = "err"
        /\ Advance("drop", DropList)
    BY <1>a, <1>6, <1>e, <1>f DEF Removing, ControlInv
  <2>2. PICK i \in InstState, ok \in BOOLEAN :
          /\ inst' = [inst EXCEPT ![At(node)] = i]
          /\ ok => i = IF inst[At(node)] = "orphan" THEN "orphan" ELSE "free"
          /\ Mark(~ok)
    BY <1>6, Zenon DEF Removing
  <2>3. ok
    BY <1>c, <2>2 DEF Mark
  <2>4. /\ todo \in Seq(Nat) /\ Len(todo) \in Nat \ {0} /\ node = todo[1] /\ At(node) \in Slot
    <3>1. todo # <<>> /\ At(node) \in Slot /\ todo \in Seq(Nat)
      BY <1>a, NodeAtHand DEF Where, TypeInv
    <3> QED
      BY <3>1, EmptySeq, LenProperties, HeadTailProperties DEF node
  <2>5. before.inst[At(node)] = "free"
    BY <2>1, <2>4 DEF WasFree, PriorInv
  <2>6. inst[At(node)] # "orphan"
    BY <1>d, <2>1, <2>4, <2>5 DEF Changed
  <2>7. inst'[At(node)] = "free"
    BY <1>j, <2>2, <2>3, <2>4, <2>6
  <2>8. \A s \in Slot : inst'[s] # before.inst[s] =>
          inst'[s] # "orphan" /\ \E j \in 2..Len(todo) : s = At(todo[j])
    <3> SUFFICES ASSUME NEW s \in Slot, inst'[s] # before.inst[s]
                 PROVE  inst'[s] # "orphan" /\ \E j \in 2..Len(todo) : s = At(todo[j])
      OBVIOUS
    <3>1. s # At(node) /\ inst'[s] = inst[s]
      BY <1>j, <2>2, <2>4, <2>5, <2>7
    <3>2. inst[s] # "orphan" /\ \E j \in 1..Len(todo) : s = At(todo[j])
      BY <1>d, <2>1, <3>1 DEF Changed
    <3>3. PICK j \in 1..Len(todo) : s = At(todo[j])
      BY <3>2
    <3>4. j # 1
      BY <2>4, <3>1, <3>3
    <3>5. j \in 2..Len(todo)
      BY <2>4, <3>4
    <3> QED
      BY <3>1, <3>2, <3>3, <3>5
  <2>9. CASE Len(todo) > 1
    <3>1. phase' = "uninstall" /\ todo' = Tail(todo)
      BY <2>1, <2>9 DEF Advance
    <3>2. Len(todo') = Len(todo) - 1 /\ \A j \in 1..Len(todo') : todo'[j] = todo[j + 1]
      BY <2>4, <3>1, EmptySeq, TailTyped
    <3>3. \A j \in 1..Len(todo') : j + 1 \in 1..Len(todo)
      BY <2>4, <3>2
    <3>4. \A j \in 2..Len(todo) : j - 1 \in 1..Len(todo') /\ todo'[j - 1] = todo[j]
      BY <2>4, <3>2
    <3>5. \A s \in Slot : Changed(s)' => inst'[s] # "orphan" /\ \E j \in 1..Len(todo') : s = At(todo'[j])
      BY <1>a, <2>8, <3>4 DEF Changed
    <3>6. \A j : At(todo[j])' = At(todo'[j])
      BY <1>b DEF At
    <3>7. \A s \in Slot : Changed(s)' =>
            inst'[s] # "orphan" /\ \E j \in 1..Len(todo') : s = At(todo[j])'
      BY <3>5, <3>6
    <3>8. phase' \notin {"connect", "checktmp", "scp", "checkenv", "install", "drop", "done"} \cup Own
      BY <3>1 DEF Own
    <3> QED
      BY <3>1, <3>7, <3>8 DEF TraceInv
  <2>10. CASE ~(Len(todo) > 1)
    <3>1. \A j \in 2..Len(todo) : FALSE
      BY <2>4, <2>10
    <3>2. \A s \in Slot : inst'[s] = before.inst[s]
      BY <2>8, <3>1
    <3>3. inst' = before.inst
      BY <1>j, <3>2
    <3>4. phase' = "drop"
      BY <2>1, <2>10 DEF Advance, Enter
    <3> QED
      BY <1>a, <3>3, <3>4 DEF TraceInv, Own
  <2> QED
    BY <2>9, <2>10
<1>7. CASE Dropping
  <2>1. phase = "drop" /\ UNCHANGED inst /\ phase' \in {"drop", "done"} /\ (result' = "err" => result = "err")
    BY <1>a, <1>7, <1>g DEF Dropping
  <2> QED
    BY <1>a, <1>d, <2>1 DEF TraceInv, Own
<1>8. CASE OwnStep
  <2>1. phase \in Own /\ UNCHANGED inst
    BY <1>8 DEF OwnStep, OwnMove, OwnFailure, Own
  <2>2. Ours
    BY <1>d, <2>1 DEF Changed
  <2>3. CASE OwnFailure
    BY <1>a, <1>l, <2>1, <2>2, <2>3 DEF OwnFailure
  <2>4. CASE OwnMove
    <3>1. phase' \in Own \cup {"drop", "undo"} /\ result' = "none"
      BY <1>e, <1>g, <2>1, <2>4 DEF OwnMove, Own, ControlInv
    <3>2. CASE phase' \in {"drop", "undo"}
      BY <3>1, <3>2 DEF TraceInv, Own
    <3> QED
      BY <1>d, <1>k, <2>1, <2>2, <3>1, <3>2
  <2> QED
    BY <1>8, <2>3, <2>4 DEF OwnStep
<1>9. CASE Starting
  <2>1. phase = "start" /\ phase \in Own
    BY <1>9 DEF Starting, Own
  <2>2. At(node) \in Slot /\ node \in 1..Last
    <3>1. /\ Slaves \in Seq(Nat) /\ Len(Slaves) = Last - 1 /\ \A i \in 1..(Last - 1) : Slaves[i] = i + 1
          /\ \A i \in 1..Last : At(i) \in Slot
      BY <1>a, <2>1, NodesVisited
    <3>2. node = Slaves[Gone(todo, Slaves) + 1] /\ Gone(todo, Slaves) + 1 \in 1..Len(Slaves)
      BY <1>f, <2>1, <3>1, TailShrinks DEF node
    <3>3. node = (Gone(todo, Slaves) + 1) + 1
      BY <3>1, <3>2
    <3> QED
      BY <1>e, <3>1, <3>2, <3>3
  <2>3. Ours
    <3>1. UNCHANGED inst \/ inst' = [inst EXCEPT ![At(node)] = "up"]
      BY <1>9 DEF Starting
    <3> QED
      BY <1>d, <1>j, <2>1, <2>2, <3>1 DEF Changed
  <2>4. \/ phase' \in {"basebackup", "verify"}
        \/ FailInstallation(RollList, DropList)
    BY <1>9, <1>g DEF Starting
  <2> QED
    BY <1>d, <1>k, <1>l, <2>1, <2>3, <2>4 DEF Own
<1>10. ~Undoing
  BY <1>e DEF Undoing, ControlInv, Joiners, Joining!Joiners
<1> QED
  BY <1>1, <1>2, <1>3, <1>4, <1>5, <1>6, <1>7, <1>8, <1>9, <1>10 DEF ProgramStep

LEMMA TraceElsewhere ==
  ASSUME Where, TraceInv, Environment \/ UNCHANGED rollVars
  PROVE  TraceInv'
<1>a. UNCHANGED <<file, op, keep, before>>
  BY DEF Environment, Interrupt, LoseConnection, OtherInstalls, OtherFills, LinkChanges, fileVars,
         histVars, rollVars
<1>b. UNCHANGED <<Visited, Last, Places>> /\ \A n : At(n)' = At(n)
  BY <1>a, SameLists
<1>1. CASE Interrupt
  <2>1. blemish'
    BY <1>1 DEF Interrupt, Mark
  <2> QED
    BY <2>1 DEF TraceInv
<1>2. CASE OtherInstalls \/ OtherFills
  <2>1. others' # 0
    BY <1>2 DEF OtherInstalls, OtherFills, Where, TypeInv
  <2> QED
    BY <2>1 DEF TraceInv
<1>3. CASE LoseConnection \/ LinkChanges \/ UNCHANGED rollVars
  <2>1. UNCHANGED <<phase, todo, result, inst, blemish, others>>
    BY <1>3 DEF LoseConnection, LinkChanges, ctlVars, histVars, rollVars
  <2> QED
    BY <1>a, <1>b, <2>1 DEF TraceInv, WasFree, Changed, Gone
<1> QED
  BY <1>1, <1>2, <1>3 DEF Environment

-------------------------------------------------------------------------------
LEMMA SafeInit ==
  ASSUME RolloutInit
  PROVE  Safe
<1>1. Where
  BY WhereInit
<1>2. phase = "done" /\ result = "none"
  BY DEF RolloutInit, StartFrom
<1> QED
  BY <1>1, <1>2 DEF Safe, InstalledInv, ExpansionInv, Begun, PriorInv, TraceInv, Own

LEMMA SafeNext ==
  ASSUME Safe, [Next]_rollVars
  PROVE  Safe'
<1>1. Where'
  BY WhereNext DEF Safe
<1>2. CASE Begins
  <2>1. Beginning
    BY <1>2, BeginKinds
  <2>2. ExpansionInv'
    BY <2>1, ExpansionBegins DEF Safe
  <2>3. InstalledInv'
    BY <2>1 DEF Beginning, InstalledInv
  <2>4. PriorInv'
    <3>1. inst' = before'.inst
      BY <2>1 DEF Beginning
    <3> QED
      BY <2>1, <3>1 DEF Beginning, PriorInv, Own
  <2>5. TraceInv'
    BY <2>1 DEF Beginning, TraceInv, Own
  <2> QED
    BY <1>1, <2>2, <2>3, <2>4, <2>5 DEF Safe
<1>3. CASE Program
  <2>1. ProgramStep
    BY <1>3, ProgramKinds DEF Safe
  <2> QED
    BY <1>1, <2>1, ExpansionStep, InstalledStep, PriorStep, TraceStep DEF Safe
<1>4. CASE Environment \/ UNCHANGED rollVars
  BY <1>1, <1>4, ExpansionElsewhere, InstalledElsewhere, PriorElsewhere, TraceElsewhere DEF Safe
<1> QED
  BY <1>2, <1>3, <1>4 DEF Next

(* Safe, the inductive invariant: where the run is, what it has installed and   *)
(* what it has changed, through every loop of every product.                   *)
THEOREM Safety == Spec => []Safe
<1> QED
  BY SafeInit, SafeNext, PTL DEF Spec

(* SqlTypeOK: the values of the variables, and which nodes a loop may still   *)
(* visit, for any files, machines and number of runs.                         *)
THEOREM SqlTyped == Spec => []SqlTypeOK
<1>1. Safe => SqlTypeOK
  BY DEF Safe, Where, TypeInv
<1> QED
  BY <1>1, Safety, PTL

(* FailureLeavesNoTrace: a deployment of any product that fails, was not told *)
(* to keep the pieces, and whose clean-up commands did their work, leaves     *)
(* every slot as it was; for any lists of nodes, whatever fails when.         *)
THEOREM NoTraceLeft == Spec => []FailureLeavesNoTrace
<1>1. Safe => FailureLeavesNoTrace
  BY DEF Safe, TraceInv, FailureLeavesNoTrace
<1> QED
  BY <1>1, Safety, PTL

LEMMA ReplicatingMeans ==
  ASSUME Safe
  PROVE  SuccessMeansReplicating
<1> SUFFICES ASSUME phase = "done", result = "ok", op # "remove"
             PROVE  /\ Cardinality(Goals) = Len(Visited)
                    /\ \A s \in Goals : inst[s] = "up"
                    /\ file.product \in {"mariadb", "pgsql"} =>
                         \A i \in DOMAIN Slaves : link[At(Slaves[i])] # "none"
                    /\ file.mode = "MM" => link[At(1)] # "none"
                    /\ op = "add" => link[At(1)] # "none"
  BY DEF SuccessMeansReplicating
<1>1. Replicating /\ file \in Files /\ op \in {"deploy", "remove", "add"}
  BY DEF Safe, InstalledInv, Where, TypeInv, SqlTypeOK
<1>2. ~Expansion
  <2>1. CASE op = "deploy"
    BY <2>1 DEF Safe, ExpansionInv, Begun
  <2>2. CASE op = "add"
    <3>1. file.product \in Joiners
      BY <2>2 DEF Safe, Where, RunInv, Begun
    <3> QED
      BY <1>1, <3>1, JoinerLists
  <2> QED
    BY <1>1, <2>1, <2>2
<1>3. /\ Visited = Nodes /\ Nodes \in Seq(Nat) /\ Len(Nodes) = Last /\ \A i \in 1..Last : Nodes[i] = i
      /\ Slaves \in Seq(Nat) /\ Len(Slaves) = Last - 1 /\ \A i \in 1..(Last - 1) : Slaves[i] = i + 1
      /\ Last \in Nat \ {0}
  BY <1>1, <1>2, VisitedList, NodesList, FileTyped
<1>4. DOMAIN Nodes = 1..Last /\ DOMAIN Slaves = 1..(Last - 1)
  BY <1>3, LenProperties
<1>5. Goals = {At(i) : i \in 1..Last}
  BY <1>3, <1>4, SMTT(30) DEF Goals
<1>6. Cardinality(Goals) = Len(Visited)
  <2> DEFINE h == [i \in 1..Last |-> At(i)]
  <2>1. IsFiniteSet(1..Last) /\ Cardinality(1..Last) = Last
    BY <1>3, FS_Interval
  <2>2. h \in Bijection(1..Last, Goals)
    BY <1>1, <1>5 DEF Replicating, Distinct, Bijection, Injection, Surjection, IsInjective
  <2>3. Cardinality(1..Last) = Cardinality(Goals)
    BY <2>1, <2>2, FS_Bijection DEF ExistsBijection
  <2> QED
    BY <1>3, <2>1, <2>3
<1>7. \A s \in Goals : inst[s] = "up"
  BY <1>1, <1>5 DEF Replicating
<1>8. file.product \in {"mariadb", "pgsql"} => \A i \in DOMAIN Slaves : link[At(Slaves[i])] # "none"
  <2>1. \A i \in 1..(Last - 1) : Slaves[i] \in 2..Last
    BY <1>3
  <2> QED
    BY <1>1, <1>4, <2>1 DEF Replicating
<1> QED
  BY <1>1, <1>6, <1>7, <1>8 DEF Replicating

(* SuccessMeansReplicating: a deployment or an addition that says "ok" has an *)
(* instance in a slot of its own for every node, and every slave, in MM each  *)
(* master too, is pointed at its master; for any lists of nodes and any loss  *)
(* of connections, interruption and installation by others.                   *)
THEOREM Success == Spec => []SuccessMeansReplicating
<1> QED
  BY ReplicatingMeans, Safety, PTL
-------------------------------------------------------------------------------
(* The refinement of DeployPromise. *)

(* The lists that are padded are no longer than the longest. *)
LEMMA ForwardLength ==
  ASSUME file \in Files, file.product = "pgauto", Expansion
  PROVE  Len(PgAuto!Forward) = (Last - 1) + (Len(file.fresh) - 1)
<1>1. /\ Last \in Nat /\ file.fresh \in Seq(Slot) /\ file.fresh # <<>>
      /\ Len(file.fresh) \in Nat /\ Len(file.fresh) # 0
  BY FileTyped, EmptySeq DEF Expansion
<1>2. Len(PgAuto!NewPGslave) = Len(file.fresh) - 1
  <2>1. PgAuto!NewPGslave = Tail(Fresh)
    BY <1>1 DEF PgAuto!NewPGslave, PgAuto!NewPGdata, PgAuto!Fresh, Fresh
  <2>2. Fresh \in Seq(Nat) /\ Len(Fresh) = Len(file.fresh)
    <3>1. Fresh \in [1..Len(file.fresh) -> Nat]
      BY <1>1 DEF Fresh, Last
    <3> QED
      BY <1>1, <3>1, IsASeq, LenProperties
  <2>3. Fresh # <<>>
    BY <1>1, <2>2, EmptySeq
  <2> QED
    BY <2>1, <2>2, <2>3, TailTyped
<1>3. /\ PgAuto!NewPGslave \in Seq(DOMAIN Places) /\ PgAuto!Master \in Seq(DOMAIN Places)
      /\ PgAuto!PGslave \in Seq(DOMAIN Places)
      /\ Len(PgAuto!Master) = 1 /\ Len(PgAuto!PGslave) = Last - 2
  BY PgLists
<1> DEFINE Front == PgAuto!NewPGslave \o PgAuto!Master
<1>4. PgAuto!Forward = Front \o PgAuto!PGslave
  BY <1>1 DEF PgAuto!Forward, PgAuto!NewPGdata
<1>5. Front \in Seq(DOMAIN Places) /\ Len(Front) = Len(PgAuto!NewPGslave) + Len(PgAuto!Master)
  BY <1>3, ConcatProperties
<1> HIDE DEF Front
<1>6. Len(PgAuto!Forward) = Len(Front) + Len(PgAuto!PGslave)
  BY <1>3, <1>4, <1>5, ConcatProperties
<1> QED
  BY <1>1, <1>2, <1>3, <1>5, <1>6

LEMMA VisitedFits ==
  ASSUME file \in Files
  PROVE  Len(Visited) \in 1..MaxNodes
<1>1. Visited \in Seq(Nat) /\ Visited # <<>>
  BY VisitedList
<1>2. Len(Visited) \in Nat /\ Len(Visited) # 0
  BY <1>1, EmptySeq, LenProperties
<1>3. /\ MaxNodes \in Nat /\ Last <= MaxNodes
      /\ (Last - 1) + (Len(file.fresh) - 1) <= MaxNodes
  BY MaxNodesAssumption DEF Last
<1>4. Len(Visited) <= MaxNodes
  <2>1. CASE Expansion
    <3>1. Visited = PgAuto!Forward /\ file.product = "pgauto"
      BY <2>1 DEF Visited, Expansion
    <3> QED
      BY <1>3, <2>1, <3>1, ForwardLength
  <2>2. CASE ~Expansion
    <3>1. Visited = Nodes /\ Len(Nodes) = Last
      BY <2>2, VisitedList, NodesList
    <3> QED
      BY <1>3, <3>1
  <2> QED
    BY <2>1, <2>2
<1> QED
  BY <1>2, <1>3, <1>4

(* Goal, as DeployPromise sees it, is made of the slots of the nodes visited. *)
Goal == GoalOf([i \in DOMAIN Visited |-> At(Visited[i])])

LEMMA GoalMeets ==
  file \in Files =>
    /\ Goal \in [1..MaxNodes -> Slot]
    /\ \A n : Visits(Visited, n) => \E k \in 1..MaxNodes : Goal[k] = At(n)
    /\ \A k \in 1..MaxNodes : \E n : Visits(Visited, n) /\ Goal[k] = At(n)
<1> SUFFICES ASSUME file \in Files
             PROVE  /\ Goal \in [1..MaxNodes -> Slot]
                    /\ \A n : Visits(Visited, n) => \E k \in 1..MaxNodes : Goal[k] = At(n)
                    /\ \A k \in 1..MaxNodes : \E n : Visits(Visited, n) /\ Goal[k] = At(n)
  OBVIOUS
<1> DEFINE s == [i \in DOMAIN Visited |-> At(Visited[i])]
           pad(n) == IF n <= Len(s) THEN n ELSE 1
<1>1. Len(Visited) \in 1..MaxNodes /\ MaxNodes \in Nat
  BY VisitedFits, MaxNodesAssumption
<1>2. DOMAIN Visited = 1..Len(Visited) /\ Within(Visited)
  BY VisitedList, LenProperties
<1>3. \A i \in 1..Len(Visited) : At(Visited[i]) \in Slot
  BY <1>2, FileTyped DEF Within
<1>4. s \in [1..Len(Visited) -> Slot] /\ Len(s) = Len(Visited)
  <2>1. s \in [1..Len(Visited) -> Slot]
    BY <1>2, <1>3
  <2>2. s \in Seq(Slot)
    BY <1>1, <2>1, IsASeq
  <2> QED
    BY <1>1, <2>1, <2>2, LenProperties
<1>5. \A n \in 1..MaxNodes : pad(n) \in 1..Len(Visited)
  BY <1>1, <1>4
<1>6. \A i \in 1..Len(Visited) : s[i] = At(Visited[i])
  BY <1>2
<1>7. Goal = [n \in 1..MaxNodes |-> s[pad(n)]]
  BY DEF Goal, GoalOf
<1> HIDE DEF s
<1>8. \A n \in 1..Len(Visited) : n \in 1..MaxNodes /\ pad(n) = n
  BY <1>1, <1>4
<1> HIDE DEF pad
<1>9. Goal \in [1..MaxNodes -> Slot]
  BY <1>4, <1>5, <1>7
<1>10. ASSUME NEW n, Visits(Visited, n) PROVE \E k \in 1..MaxNodes : Goal[k] = At(n)
  BY <1>6, <1>7, <1>8, <1>10 DEF Visits
<1>11. ASSUME NEW k \in 1..MaxNodes PROVE \E n : Visits(Visited, n) /\ Goal[k] = At(n)
  <2>1. Visits(Visited, Visited[pad(k)])
    BY <1>5 DEF Visits
  <2>2. Goal[k] = At(Visited[pad(k)])
    BY <1>5, <1>6, <1>7
  <2> QED
    BY <2>1, <2>2
<1> QED
  BY <1>9, <1>10, <1>11

-------------------------------------------------------------------------------
LEMMA PromiseBegins ==
  ASSUME RolloutInit
  PROVE  Promise!Init
<1>1. Where
  BY WhereInit
<1>2. file \in Files /\ inst \in [Slot -> InstState]
  BY <1>1 DEF Where, TypeInv, SqlTypeOK
<1>3. phase = "done" /\ op = "deploy" /\ result = "none" /\ before.inst = inst
  BY DEF RolloutInit, StartFrom
<1>4. Goal \in [1..MaxNodes -> Slot]
  BY <1>2, GoalMeets
<1> QED
  BY <1>2, <1>3, <1>4 DEF Promise!Init, Goal

(* A run changes the slot of a node it visits, and a deployment only one that  *)
(* was free; or it notes an error, or comes to its end.                        *)
LEMMA Works ==
  ASSUME Where, phase # "done", phase' # "done", UNCHANGED <<file, op, before>>,
         NEW n, Visits(Visited, n), op # "remove" => WasFree(n),
         NEW i \in InstState, inst' = [inst EXCEPT ![At(n)] = i],
         result' \in {result, "err"}
  PROVE  Promise!Next
<1>1. file \in Files
  BY DEF Where, TypeInv, SqlTypeOK
<1>2. Goal' = Goal
  BY SameLists DEF Goal
<1>3. PICK k \in 1..MaxNodes : Goal[k] = At(n)
  BY <1>1, GoalMeets
<1>4. At(n) \in Slot
  BY <1>1, <1>3, GoalMeets
<1>5. At(n) \in Promise!Reach
  BY <1>3, <1>4 DEF Promise!Reach, WasFree, Goal
<1>6. Promise!Work
  BY <1>2, <1>5 DEF Promise!Work, Goal
<1> QED
  BY <1>6 DEF Promise!Next

LEMMA Notes ==
  ASSUME phase # "done", phase' # "done", UNCHANGED <<file, op, before, inst>>,
         result' \in {result, "err"}
  PROVE  [Promise!Next]_Promise!vars
<1>1. Goal' = Goal
  BY SameLists DEF Goal
<1>2. CASE result' = result
  BY <1>1, <1>2 DEF Promise!vars, Goal
<1>3. CASE result' = "err"
  <2>1. Promise!NoteError
    BY <1>1, <1>3 DEF Promise!NoteError, Goal
  <2> QED
    BY <2>1 DEF Promise!Next
<1> QED
  BY <1>2, <1>3

LEMMA Ends ==
  ASSUME phase # "done", phase' = "done", UNCHANGED <<file, op, before, inst>>,
         \/ result' \in {"err", "killed"}
         \/ /\ result = "none" /\ result' = "ok"
            /\ op # "remove" => \A k \in 1..MaxNodes : inst[Goal[k]] = "up"
  PROVE  Promise!Next
<1>1. Goal' = Goal
  BY SameLists DEF Goal
<1>2. Promise!Finish
  BY <1>1 DEF Promise!Finish, Goal
<1> QED
  BY <1>2 DEF Promise!Next

(* The new slave of MariaDB has the port of its master.  Where it has another, *)
(* DataSync leaves its slot: the run sql_datasync shows it.                    *)
SamePort == \A f \in Files : f.product = "mariadb-slave" => f.from[2] = f.nodes[1][2]

LEMMA FirstPlace ==
  ASSUME file \in Files
  PROVE  At(1) = file.nodes[1]
<1>1. \A s, t \in Seq(Slot) : s # <<>> => (s \o t)[1] = s[1]
  <2> SUFFICES ASSUME NEW s \in Seq(Slot), NEW t \in Seq(Slot), s # <<>> PROVE (s \o t)[1] = s[1]
    OBVIOUS
  <2>1. Len(s) \in Nat /\ Len(s) # 0 /\ Len(t) \in Nat
    BY EmptySeq, LenProperties
  <2>2. 1 \in 1..(Len(s) + Len(t)) /\ 1 <= Len(s)
    BY <2>1
  <2> QED
    BY <2>2, ConcatProperties
<1>2. file.nodes \in Seq(Slot) /\ file.fresh \in Seq(Slot) /\ file.nodes # <<>>
  BY FilesAssumption
<1>3. (file.nodes \o file.fresh)[1] = file.nodes[1]
  BY <1>1, <1>2, Zenon
<1> QED
  BY <1>3 DEF At, Places

LEMMA ProgramPromise ==
  ASSUME SamePort, Safe, ProgramStep
  PROVE  [Promise!Next]_Promise!vars
<1>a. phase # "done" /\ UNCHANGED <<file, op, keep, before>> /\ Where
  BY StepLists, StepTyped DEF ProgramStep, Connecting, Checking, Copying, Looking, Installing,
     Removing,
         Dropping, OwnStep, OwnMove, OwnFailure, Starting, Undoing, Own, Safe
<1>b. /\ todo # <<>> /\ todo \in Seq(Nat) /\ node = todo[1] /\ Len(todo) \in Nat /\ 1 \in 1..Len(todo)
      /\ file \in Files /\ inst \in [Slot -> InstState] /\ At(node) \in Slot
      /\ op \in {"deploy", "remove", "add"} /\ result \in {"none", "ok", "err", "killed"}
  <2>1. todo # <<>> /\ At(node) \in Slot
    BY <1>a, NodeAtHand
  <2>2. /\ todo \in Seq(Nat) /\ file \in Files /\ inst \in [Slot -> InstState]
        /\ op \in {"deploy", "remove", "add"} /\ result \in {"none", "ok", "err", "killed"}
    BY <1>a DEF Where, TypeInv, SqlTypeOK
  <2>3. Len(todo) \in Nat /\ Len(todo) # 0 /\ node = todo[1]
    BY <2>1, <2>2, EmptySeq, LenProperties, HeadTailProperties DEF node
  <2> QED
    BY <2>1, <2>2, <2>3
<1>c. /\ \A p, ns : Advance(p, ns) => phase' \in {phase, p}
      /\ \A p, ns : Proceed(p, ns) => phase' = p /\ result' = result
      /\ \A drop : GiveUp(drop) => phase' = "drop" /\ result' = "err"
      /\ \A roll, drop : FailInstallation(roll, drop) => phase' \in {"drop", "uninstall"} /\ result' = "err"
      /\ \A r : Return(r) => phase' = "done" /\ result' = r
  BY DEF Advance, Enter, Proceed, GiveUp, Return, FailInstallation
<1>d. ASSUME phase' # "done", inst' = inst, result' \in {result, "err"}
      PROVE  [Promise!Next]_Promise!vars
  BY <1>a, <1>d, Notes
<1>e. ASSUME phase' # "done", NEW i \in InstState, inst' = [inst EXCEPT ![At(node)] = i],
             Visits(Visited, node), op # "remove" => WasFree(node), result' \in {result, "err"}
      PROVE  [Promise!Next]_Promise!vars
  BY <1>a, <1>e, Works
<1>f. ASSUME Return("err"), inst' = inst
      PROVE  [Promise!Next]_Promise!vars
  BY <1>a, <1>c, <1>f, Ends
<1>1. CASE Connecting
  <2>1. inst' = inst /\ phase = "connect"
    BY <1>1 DEF Connecting
  <2>2. CASE Advance("checktmp", Visited) /\ result' = result
    BY <1>a, <1>c, <1>d, <2>1, <2>2
  <2> QED
    BY <1>1, <1>f, <2>1, <2>2 DEF Connecting
<1>2. CASE Checking
  <2>1. inst' = inst /\ phase = "checktmp"
    BY <1>2 DEF Checking
  <2>2. CASE Advance("scp", Visited) /\ result' = result
    BY <1>a, <1>c, <1>d, <2>1, <2>2
  <2> QED
    BY <1>2, <1>f, <2>1, <2>2 DEF Checking
<1>3. CASE Copying
  <2>1. inst' = inst /\ phase = "scp"
    BY <1>3 DEF Copying
  <2>2. phase' # "done" /\ result' \in {result, "err"}
    BY <1>3, <1>c, <2>1 DEF Copying
  <2> QED
    BY <1>d, <2>1, <2>2
<1>4. CASE Looking
  <2>1. inst' = inst /\ phase = "checkenv"
    BY <1>4 DEF Looking
  <2>2. phase' # "done" /\ result' \in {result, "err"}
    BY <1>4, <1>c, <2>1 DEF Looking
  <2> QED
    BY <1>d, <2>1, <2>2
<1>5. CASE Installing
  <2>1. phase = "install" /\ op # "remove" /\ Visits(Visited, node)
    <3>1. phase = "install"
      BY <1>5 DEF Installing
    <3>2. TailOf(todo, Visited) /\ op # "remove"
      BY <1>a, <3>1 DEF Where, ListInv, ControlInv
    <3>3. Visited \in Seq(Nat) /\ Len(Visited) \in Nat
      BY <1>b, VisitedList, LenProperties
    <3>4. node = Visited[Gone(todo, Visited) + 1] /\ Gone(todo, Visited) + 1 \in 1..Len(Visited)
      BY <3>2, <3>3, TailShrinks DEF node
    <3> QED
      BY <3>1, <3>2, <3>4 DEF Visits
  <2>2. inst[At(node)] = "free" => WasFree(node)
    BY <1>b, <2>1 DEF Safe, PriorInv, WasFree
  <2>3. CASE inst[At(node)] = "free" /\ inst' = [inst EXCEPT ![At(node)] = Made]
             /\ Advance(After, AfterList) /\ result' = result
    <3>1. Made \in InstState /\ phase' # "done"
      BY <1>c, <2>1, <2>3 DEF Made, InstState, After
    <3> QED
      BY <1>e, <2>1, <2>2, <2>3, <3>1
  <2>4. ASSUME NEW i \in InstState, inst' = [inst EXCEPT ![At(node)] = i],
               inst[At(node)] # "free" => i = inst[At(node)], FailInstallation(RollList, DropList)
        PROVE  [Promise!Next]_Promise!vars
    <3>1. phase' # "done" /\ result' = "err"
      BY <1>c, <2>4
    <3>2. CASE inst[At(node)] = "free"
      BY <1>e, <2>1, <2>2, <2>4, <3>1, <3>2
    <3>3. CASE inst[At(node)] # "free"
      <4>1. inst' = inst
        BY <1>b, <2>4, <3>3
      <4> QED
        BY <1>d, <3>1, <4>1
    <3> QED
      BY <3>2, <3>3
  <2> QED
    BY <1>5, <2>3, <2>4 DEF Installing
<1>6. CASE Removing
  <2>1. phase = "uninstall" /\ result' = result /\ Advance("drop", DropList)
        /\ \E i \in InstState : inst' = [inst EXCEPT ![At(node)] = i]
    BY <1>6 DEF Removing
  <2>2. Visits(Visited, node)
    <3>1. TailOf(todo, RollList)
      BY <1>a, <2>1 DEF Where, ListInv
    <3>2. RollList \in Seq(Nat) /\ Len(RollList) \in Nat
      BY <1>b, RunLists, LenProperties
    <3>3. node = RollList[Gone(todo, RollList) + 1] /\ Gone(todo, RollList) + 1 \in 1..Len(RollList)
      BY <3>1, <3>2, TailShrinks DEF node
    <3>4. Visits(RollList, node)
      BY <3>3 DEF Visits
    <3> QED
      BY <1>b, <3>4, RunLists
  <2>3. op # "remove" => WasFree(node)
    BY <1>b, <2>1 DEF Safe, PriorInv
  <2>4. phase' # "done"
    BY <1>c, <2>1
  <2> QED
    BY <1>e, <2>1, <2>2, <2>3, <2>4
<1>7. CASE Dropping
  <2>1. phase = "drop" /\ inst' = inst /\ result \in {"none", "err"}
    BY <1>7, <1>a DEF Dropping, Where, ControlInv
  <2>2. CASE Proceed("drop", Tail(todo))
    BY <1>c, <1>d, <2>1, <2>2
  <2>3. ASSUME NEW r \in {"ok", "killed"}, r = "killed" => op = "remove",
               Return(IF result = "none" THEN r ELSE result)
        PROVE  [Promise!Next]_Promise!vars
    <3>1. phase' = "done" /\ result' = IF result = "none" THEN r ELSE result
      BY <1>c, <2>3
    <3>2. CASE result' \in {"err", "killed"}
      BY <1>a, <2>1, <3>1, <3>2, Ends
    <3>3. CASE result = "none" /\ result' = "ok"
      <4>1. ASSUME op # "remove" PROVE \A k \in 1..MaxNodes : inst[Goal[k]] = "up"
        <5>1. Replicating
          BY <2>1, <3>3, <4>1 DEF Safe, InstalledInv
        <5>2. ~Expansion
          <6>1. CASE op = "deploy"
            BY <2>1, <3>3, <6>1 DEF Safe, ExpansionInv, Begun
          <6>2. CASE op = "add"
            <7>1. file.product \in Joiners
              BY <1>a, <2>1, <6>2 DEF Where, RunInv, Begun
            <7> QED
              BY <1>b, <7>1, JoinerLists
          <6> QED
            BY <1>b, <4>1, <6>1, <6>2
        <5>3. Visited = Nodes /\ Len(Nodes) = Last /\ \A i \in 1..Last : Nodes[i] = i
          BY <1>b, <5>2, VisitedList, NodesList
        <5>4. \A n : Visits(Visited, n) => n \in 1..Last
          BY <5>3 DEF Visits
        <5> QED
          BY <1>b, <5>1, <5>4, GoalMeets DEF Replicating
      <4> QED
        BY <1>a, <2>1, <3>1, <3>3, <4>1, Ends
    <3> QED
      BY <2>1, <2>3, <3>1, <3>2, <3>3
  <2> QED
    BY <1>7, <2>2, <2>3 DEF Dropping
<1>8. CASE OwnStep
  <2>1. inst' = inst
    BY <1>8 DEF OwnStep
  <2>2. CASE OwnMove
    <3>1. phase' # "done" /\ result' = result
      BY <1>c, <2>2 DEF OwnMove
    <3> QED
      BY <1>d, <2>1, <3>1
  <2>3. CASE OwnFailure
    <3>1. phase' # "done" /\ result' = "err"
      BY <1>c, <2>3 DEF OwnFailure
    <3> QED
      BY <1>d, <2>1, <3>1
  <2> QED
    BY <1>8, <2>2, <2>3 DEF OwnStep
<1>9. CASE Starting
  <2>1. phase = "start" /\ op # "remove"
    <3>1. phase = "start"
      BY <1>9 DEF Starting
    <3> QED
      BY <1>a, <3>1 DEF Where, ControlInv
  <2>2. phase' # "done" /\ result' \in {result, "err"}
    BY <1>9, <1>c DEF Starting
  <2>3. CASE inst' = [inst EXCEPT ![At(node)] = "up"]
    <3>1. /\ Visited = Nodes /\ Len(Nodes) = Last /\ Last \in Nat \ {0} /\ \A i \in 1..Last : Nodes[i] = i
          /\ Slaves \in Seq(Nat) /\ Len(Slaves) = Last - 1 /\ \A i \in 1..(Last - 1) : Slaves[i] = i + 1
      BY <1>a, <2>1, NodesVisited DEF Safe, Own
    <3>2. TailOf(todo, Slaves)
      BY <1>a, <2>1 DEF Where, ListInv
    <3>3. node = Slaves[Gone(todo, Slaves) + 1] /\ Gone(todo, Slaves) + 1 \in 1..Len(Slaves)
      BY <3>1, <3>2, TailShrinks, LenProperties DEF node
    <3>4. node \in 1..Last
      BY <3>1, <3>3
    <3>5. WasFree(node)
      BY <2>1, <3>4 DEF Safe, PriorInv, Own
    <3>6. Visits(Visited, node)
      BY <3>1, <3>4 DEF Visits
    <3> QED
      BY <1>e, <2>2, <2>3, <3>5, <3>6 DEF InstState
  <2>4. CASE inst' = inst
    BY <1>d, <2>2, <2>4
  <2> QED
    BY <1>9, <2>3, <2>4 DEF Starting
<1>10. CASE Undoing
  <2>1. phase = "undo" /\ GiveUp(DropList) /\ \E i \in InstState : inst' = [inst EXCEPT ![Joining!Target] = i]
    BY <1>10 DEF Undoing
  <2>2. file.product = "mariadb-slave" /\ op # "remove" /\ todo = <<1>>
    BY <1>a, <2>1 DEF Where, ControlInv, ListInv
  <2>3. file.product \in Joiners
    BY <2>2 DEF Joiners, Joining!Joiners
  <2>4. node = 1 /\ Last = 1 /\ Visited = <<1>>
    BY <1>b, <2>2, <2>3, JoinerLists
  <2>5. Visits(Visited, node) /\ WasFree(node)
    BY <2>1, <2>2, <2>4 DEF Visits, Safe, PriorInv
  <2>6. Joining!Target = At(node)
    <3>1. At(1) = file.nodes[1]
      BY <1>b, FirstPlace
    <3>2. file.from[2] = At(1)[2]
      BY <1>b, <2>2, <3>1 DEF SamePort
    <3>3. Joining!Target = <<At(1)[1], file.from[2]>>
      BY DEF Joining!Target, Joining!HostOf, Joining!At, Joining!Places, At, Places
    <3>4. At(1) = <<At(1)[1], At(1)[2]>>
      BY <1>b, <2>4 DEF Slot
    <3> QED
      BY <2>4, <3>2, <3>3, <3>4
  <2>7. phase' # "done" /\ result' = "err"
    BY <1>c, <2>1
  <2> QED
    BY <1>e, <2>1, <2>2, <2>5, <2>6, <2>7
<1> QED
  BY <1>1, <1>2, <1>3, <1>4, <1>5, <1>6, <1>7, <1>8, <1>9, <1>10 DEF ProgramStep

LEMMA ElsewherePromise ==
  ASSUME Where, Environment \/ UNCHANGED rollVars
  PROVE  [Promise!Next]_Promise!vars
<1>1. CASE Interrupt
  <2>1. phase # "done" /\ phase' = "done" /\ result' = "killed" /\ UNCHANGED <<file, op, before, inst>>
    BY <1>1 DEF Interrupt, Return, Enter, fileVars
  <2> QED
    BY <2>1, Ends
<1>2. ASSUME UNCHANGED <<file, op, before, inst, phase, result>>
      PROVE  [Promise!Next]_Promise!vars
  <2>1. Goal' = Goal
    BY <1>2, SameLists DEF Goal
  <2> QED
    BY <1>2, <2>1 DEF Promise!vars, Goal
<1>3. CASE LoseConnection \/ OtherFills \/ LinkChanges \/ UNCHANGED rollVars
  <2>1. UNCHANGED <<file, op, before, inst, phase, result>>
    BY <1>3 DEF LoseConnection, OtherFills, LinkChanges, rollVars, fileVars, ctlVars, histVars
  <2> QED
    BY <1>2, <2>1
<1>4. CASE OtherInstalls
  <2>1. /\ phase # "done" /\ UNCHANGED <<file, op, before, phase, result>>
        /\ \E n \in DOMAIN Places : inst[At(n)] = "free" /\ inst' = [inst EXCEPT ![At(n)] = "up"]
    BY <1>4 DEF OtherInstalls, fileVars, ctlVars
  <2>2. \A n \in DOMAIN Places : At(n) \in Slot
    BY FileTyped DEF Where, TypeInv, SqlTypeOK
  <2>3. Goal' = Goal
    BY <2>1, SameLists DEF Goal
  <2>4. Promise!OtherInstalls
    BY <2>1, <2>2, <2>3 DEF Promise!OtherInstalls, Goal
  <2> QED
    BY <2>4 DEF Promise!Next
<1> QED
  BY <1>1, <1>3, <1>4 DEF Environment

LEMMA GoalTyped == file \in Files => Goal \in [1..MaxNodes -> Slot]
  BY GoalMeets

LEMMA StartsPromise ==
  ASSUME Where, Beginning
  PROVE  Promise!Next
<1>1. /\ phase = "done" /\ phase' = "connect" /\ result' = "none" /\ before'.inst = inst
      /\ inst' = inst /\ file' \in Files
  BY DEF Beginning
<1>2. (file \in Files => Goal \in [1..MaxNodes -> Slot])'
  BY GoalTyped, PTL
<1>3. Promise!Start
  BY <1>1, <1>2 DEF Promise!Start, Goal
<1> QED
  BY <1>3 DEF Promise!Next

(* PromiseKept: whatever the product, the lists, the failures and the others   *)
(* about, a run changes only slots of its file, a deployment or an addition    *)
(* only such as were free, and says "ok" only when an instance runs in each.   *)
THEOREM Implementation == SamePort => (Spec => PromiseKept)
<1> SUFFICES ASSUME SamePort PROVE Spec => PromiseKept
  OBVIOUS
<1>1. RolloutInit => Promise!Init
  BY PromiseBegins
<1>2. Safe /\ [Next]_rollVars => [Promise!Next]_Promise!vars
  <2> SUFFICES ASSUME Safe, [Next]_rollVars PROVE [Promise!Next]_Promise!vars
    OBVIOUS
  <2>1. CASE Begins
    BY <2>1, BeginKinds, StartsPromise DEF Safe
  <2>2. CASE Program
    BY <2>2, ProgramKinds, ProgramPromise DEF Safe
  <2>3. CASE Environment \/ UNCHANGED rollVars
    BY <2>3, ElsewherePromise DEF Safe
  <2> QED
    BY <2>1, <2>2, <2>3 DEF Next
<1> QED
  BY <1>1, <1>2, Safety, PTL DEF Spec, PromiseKept, Promise!Spec
===============================================================================
