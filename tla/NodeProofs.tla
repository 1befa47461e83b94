------------------------------- MODULE NodeProofs -------------------------------
(***************************************************************************)
(* Proofs about what install, uninstall, galera-start and upgrade do on    *)
(* the machine they run on, for every set of products.  The commands of an *)
(* operation are a list that is worked off from the left; what is still to *)
(* come and in which order is what the invariants are made of.             *)
(***************************************************************************)
EXTENDS NodeUpgrade, Integers, TLAPS, SequenceTheorems

-------------------------------------------------------------------------------
(* Lists of commands: c is among them; every c is before every d; none of C is *)
(* among them.                                                                 *)
Has(s, c) == \E i \in 1..Len(s) : s[i] = c
Before(s, c, d) == \A i, j \in 1..Len(s) : s[i] = c /\ s[j] = d => i < j
Free(s, C) == \A i \in 1..Len(s) : s[i] \notin C

(* A list that is run on from its head. *)
LEMMA TailHas ==
  ASSUME NEW s \in Seq(Commands), s # <<>>, NEW c
  PROVE  Has(s, c) <=> (c = Head(s) \/ Has(Tail(s), c))
<1>1. /\ Tail(s) \in Seq(Commands) /\ Len(Tail(s)) = Len(s) - 1 /\ Len(s) \in Nat \ {0}
      /\ Head(s) = s[1]
      /\ \A i \in 1..Len(Tail(s)) : Tail(s)[i] = s[i+1]
  BY HeadTailProperties, EmptySeq, LenProperties
<1>2. ASSUME Has(s, c), c # Head(s) PROVE Has(Tail(s), c)
  <2>1. PICK i \in 1..Len(s) : s[i] = c
    BY <1>2 DEF Has
  <2>2. i - 1 \in 1..Len(Tail(s)) /\ Tail(s)[i - 1] = c
    BY <1>1, <1>2, <2>1
  <2> QED
    BY <2>2 DEF Has
<1>3. ASSUME Has(Tail(s), c) PROVE Has(s, c)
  <2>1. PICK i \in 1..Len(Tail(s)) : Tail(s)[i] = c
    BY <1>3 DEF Has
  <2>2. i + 1 \in 1..Len(s) /\ s[i + 1] = c
    BY <1>1, <2>1
  <2> QED
    BY <2>2 DEF Has
<1>4. ASSUME c = Head(s) PROVE Has(s, c)
  BY <1>1, <1>4 DEF Has
<1> QED
  BY <1>2, <1>3, <1>4

LEMMA TailBefore ==
  ASSUME NEW s \in Seq(Commands), s # <<>>, NEW c, NEW d, Before(s, c, d)
  PROVE  Before(Tail(s), c, d) /\ (Head(s) = d => ~Has(s, c) /\ ~Has(Tail(s), c))
<1>1. /\ Tail(s) \in Seq(Commands) /\ Len(Tail(s)) = Len(s) - 1 /\ Len(s) \in Nat \ {0}
      /\ Head(s) = s[1]
      /\ \A i \in 1..Len(Tail(s)) : Tail(s)[i] = s[i+1]
  BY HeadTailProperties, EmptySeq, LenProperties
<1>2. Before(Tail(s), c, d)
  <2> SUFFICES ASSUME NEW i \in 1..Len(Tail(s)), NEW j \in 1..Len(Tail(s)),
                      Tail(s)[i] = c, Tail(s)[j] = d
               PROVE  i < j
    BY DEF Before
  <2>1. i + 1 \in 1..Len(s) /\ j + 1 \in 1..Len(s) /\ s[i + 1] = c /\ s[j + 1] = d
    BY <1>1
  <2>2. i + 1 < j + 1
    BY <2>1 DEF Before
  <2> QED
    BY <2>2
<1>3. ASSUME Head(s) = d PROVE ~Has(s, c)
  <2> SUFFICES ASSUME NEW i \in 1..Len(s), s[i] = c PROVE FALSE
    BY DEF Has
  <2>1. 1 \in 1..Len(s) /\ s[1] = d
    BY <1>1, <1>3
  <2>2. i < 1
    BY <2>1 DEF Before
  <2> QED
    BY <2>2
<1> QED
  BY <1>2, <1>3, TailHas

LEMMA TailFree ==
  ASSUME NEW s \in Seq(Commands), s # <<>>, NEW C, Free(s, C)
  PROVE  Free(Tail(s), C) /\ Head(s) \notin C
<1>1. /\ Len(Tail(s)) = Len(s) - 1 /\ Len(s) \in Nat \ {0}
      /\ Head(s) = s[1]
      /\ \A i \in 1..Len(Tail(s)) : Tail(s)[i] = s[i+1]
  BY HeadTailProperties, EmptySeq, LenProperties
<1>2. \A i \in 1..Len(Tail(s)) : i + 1 \in 1..Len(s)
  BY <1>1
<1> QED
  BY <1>1, <1>2 DEF Free

LEMMA FreeHas ==
  ASSUME NEW s, NEW C, Free(s, C), NEW c \in C
  PROVE  ~Has(s, c)
  BY DEF Free, Has

LEMMA EmptyList ==
  /\ \A c : ~Has(<<>>, c)
  /\ \A C : Free(<<>>, C)
  /\ \A c, d : Before(<<>>, c, d)
  BY DEF Has, Free, Before

(* Lists put together. *)
LEMMA ConcatHas ==
  ASSUME NEW s \in Seq(Commands), NEW t \in Seq(Commands), NEW c
  PROVE  Has(s \o t, c) <=> (Has(s, c) \/ Has(t, c))
<1>1. ASSUME Has(s, c) PROVE Has(s \o t, c)
  BY <1>1, ConcatProperties DEF Has
<1>2. ASSUME Has(t, c) PROVE Has(s \o t, c)
  <2>1. PICK i \in 1..Len(t) : t[i] = c
    BY <1>2 DEF Has
  <2>2. Len(s) + i \in 1..Len(s \o t) /\ (s \o t)[Len(s) + i] = t[i]
    BY <2>1, ConcatProperties
  <2> QED
    BY <2>1, <2>2 DEF Has
<1>3. ASSUME Has(s \o t, c) PROVE Has(s, c) \/ Has(t, c)
  <2>1. PICK i \in 1..Len(s \o t) : (s \o t)[i] = c
    BY <1>3 DEF Has
  <2>2. CASE i <= Len(s)
    BY <2>1, <2>2, ConcatProperties DEF Has
  <2>3. CASE i > Len(s)
    <3>1. i - Len(s) \in 1..Len(t) /\ t[i - Len(s)] = c
      BY <2>1, <2>3, ConcatProperties
    <3> QED
      BY <3>1 DEF Has
  <2> QED
    BY <2>1, <2>2, <2>3
<1> QED
  BY <1>1, <1>2, <1>3

LEMMA ConcatBefore ==
  ASSUME NEW s \in Seq(Commands), NEW t \in Seq(Commands), NEW c, NEW d,
         Before(s, c, d), Before(t, c, d), ~Has(s, d) \/ ~Has(t, c)
  PROVE  Before(s \o t, c, d)
  BY ConcatProperties DEF Has, Before

LEMMA ConcatFree ==
  ASSUME NEW s \in Seq(Commands), NEW t \in Seq(Commands), NEW C, Free(s, C), Free(t, C)
  PROVE  Free(s \o t, C)
  BY ConcatProperties DEF Free

-------------------------------------------------------------------------------
(* The installations.  Removing: what no installation does.  Sound: the unit  *)
(* is there before the instance starts.  An installation is put together from *)
(* lists without a start and, after these, lists that do not write the unit;  *)
(* only pg_auto_failover's make a node of pg_autoctl ("create").              *)
Removing == {"stop", "rmunit", "mvunit", "rmdir", "mvdir", "drop", "rmauto", "seed"}
Prepares(s) == s \in Seq(Commands) /\ Free(s, Removing \cup {"start", "unseed", "create"})
Ends(s)     == s \in Seq(Commands) /\ Free(s, Removing \cup {"unit", "create"})
Sound(s) == s \in Seq(Commands) /\ Free(s, Removing) /\ Before(s, "unit", "start")
Bootable(s) == Has(s, "untar") /\ Has(s, "unit") /\ Has(s, "enable") /\ ~Has(s, "create")

LEMMA PreparingSound ==
  ASSUME NEW s, Prepares(s)
  PROVE  Sound(s) /\ ~Has(s, "start") /\ ~Has(s, "unseed") /\ ~Has(s, "create")
<1>1. Free(s, Removing) /\ ~Has(s, "start") /\ ~Has(s, "unseed") /\ ~Has(s, "create")
  BY DEF Prepares, Free, Has
<1>2. Before(s, "unit", "start")
  BY <1>1 DEF Before, Has
<1> QED
  BY <1>1, <1>2 DEF Prepares, Sound

LEMMA EndingSound ==
  ASSUME NEW s, Ends(s)
  PROVE  Sound(s) /\ ~Has(s, "unit") /\ ~Has(s, "create")
<1>1. Free(s, Removing) /\ ~Has(s, "unit") /\ ~Has(s, "create")
  BY DEF Ends, Free, Has
<1>2. Before(s, "unit", "start")
  BY <1>1 DEF Before, Has
<1> QED
  BY <1>1, <1>2 DEF Ends, Sound

LEMMA SoundConcat ==
  ASSUME NEW s, NEW t, Sound(s), Sound(t), ~Has(s, "start") \/ ~Has(t, "unit")
  PROVE  Sound(s \o t)
<1>1. s \in Seq(Commands) /\ t \in Seq(Commands)
  BY DEF Sound
<1>2. s \o t \in Seq(Commands)
  BY <1>1, ConcatProperties
<1> QED
  BY <1>1, <1>2, ConcatFree, ConcatBefore DEF Sound

(* What a list has that is put together of two. *)
LEMMA AfterPreparing ==
  ASSUME NEW s, NEW t, Prepares(s), Sound(t)
  PROVE  /\ Sound(s \o t) /\ \A c : Has(s \o t, c) <=> (Has(s, c) \/ Has(t, c))
         /\ ~Has(s, "create")
  BY PreparingSound, SoundConcat, ConcatHas DEF Sound

LEMMA AfterUnstarted ==
  ASSUME NEW s, NEW t, Sound(s), ~Has(s, "start"), Sound(t)
  PROVE  Sound(s \o t) /\ \A c : Has(s \o t, c) <=> (Has(s, c) \/ Has(t, c))
  BY SoundConcat, ConcatHas DEF Sound

LEMMA BeforeEnding ==
  ASSUME NEW s, NEW t, Sound(s), Ends(t)
  PROVE  /\ Sound(s \o t) /\ \A c : Has(s \o t, c) <=> (Has(s, c) \/ Has(t, c))
         /\ ~Has(t, "create")
  BY EndingSound, SoundConcat, ConcatHas DEF Sound

LEMMA PreparedConcat ==
  ASSUME NEW s, NEW t, Prepares(s), Prepares(t)
  PROVE  /\ Prepares(s \o t) /\ \A c : Has(s \o t, c) <=> (Has(s, c) \/ Has(t, c))
         /\ ~Has(s \o t, "create")
<1>1. s \in Seq(Commands) /\ t \in Seq(Commands)
  BY DEF Prepares
<1>2. s \o t \in Seq(Commands)
  BY <1>1, ConcatProperties
<1>3. Free(s \o t, Removing \cup {"start", "unseed", "create"})
  BY <1>1, ConcatFree DEF Prepares
<1>4. Prepares(s \o t)
  BY <1>2, <1>3 DEF Prepares
<1> QED
  BY <1>1, <1>4, ConcatHas, PreparingSound

LEMMA EndedConcat ==
  ASSUME NEW s, NEW t, Ends(s), Ends(t)
  PROVE  Ends(s \o t) /\ \A c : Has(s \o t, c) <=> (Has(s, c) \/ Has(t, c))
<1>1. s \in Seq(Commands) /\ t \in Seq(Commands)
  BY DEF Ends
<1>2. s \o t \in Seq(Commands)
  BY <1>1, ConcatProperties
<1>3. Free(s \o t, Removing \cup {"unit", "create"})
  BY <1>1, ConcatFree DEF Ends
<1> QED
  BY <1>1, <1>2, <1>3, ConcatHas DEF Ends

(* The parts that several installations share. *)
LEMMA UnpackPart == Prepares(UnpackSteps) /\ Has(UnpackSteps, "untar")
<1>1. CreateUser \in Seq(Commands) /\ Mkdir \in Seq(Commands) /\ <<"untar">> \in Seq(Commands)
  BY DEF CreateUser, Mkdir, Commands
<1>2. UnpackSteps \in Seq(Commands)
  BY <1>1, ConcatProperties DEF UnpackSteps
<1>3. Free(UnpackSteps, Removing \cup {"start", "unseed", "create"})
  BY DEF UnpackSteps, CreateUser, Mkdir, Removing, Free
<1>4. Has(UnpackSteps, "untar")
  BY DEF UnpackSteps, CreateUser, Mkdir, Has
<1> QED
  BY <1>2, <1>3, <1>4 DEF Prepares

LEMMA SystemdPart == Prepares(SystemdSteps) /\ Has(SystemdSteps, "unit") /\ Has(SystemdSteps, "enable")
<1>1. SystemdSteps \in Seq(Commands)
  BY DEF SystemdSteps, Commands
<1>2. Free(SystemdSteps, Removing \cup {"start", "unseed", "create"})
  BY DEF SystemdSteps, Removing, Free
<1>3. Has(SystemdSteps, "unit") /\ Has(SystemdSteps, "enable")
  BY DEF SystemdSteps, Has
<1> QED
  BY <1>1, <1>2, <1>3 DEF Prepares

LEMMA LibPart == Prepares(LibComplement)
<1>1. LibComplement \in Seq(Commands)
  BY DEF LibComplement, Commands
<1>2. Free(LibComplement, Removing \cup {"start", "unseed", "create"})
  BY DEF LibComplement, Removing, Free
<1> QED
  BY <1>1, <1>2 DEF Prepares

LEMMA ExporterPart ==
  /\ Sound(ExporterSystemd) /\ Has(ExporterSystemd, "unit") /\ Has(ExporterSystemd, "enable")
  /\ Has(ExporterSystemd, "start") /\ ~Has(ExporterSystemd, "create")
<1>1. ExporterSystemd \in Seq(Commands)
  BY DEF ExporterSystemd, Commands
<1>2. Free(ExporterSystemd, Removing)
  BY DEF ExporterSystemd, Free, Removing
<1>3. Before(ExporterSystemd, "unit", "start")
  BY DEF ExporterSystemd, Before
<1>4. Has(ExporterSystemd, "unit") /\ Has(ExporterSystemd, "enable") /\ ~Has(ExporterSystemd, "create")
  BY DEF ExporterSystemd, Has
<1>5. Has(ExporterSystemd, "start")
  BY DEF ExporterSystemd, Has
<1> QED
  BY <1>1, <1>2, <1>3, <1>4, <1>5 DEF Sound

(* One after the other: redis, *)
LEMMA RedisSound ==
  Sound(RedisInstall) /\ Bootable(RedisInstall) /\ Has(RedisInstall, "start")
<1> DEFINE l1 == <<"ldd", "config", "chown">>
           l2 == <<"start", "join", "info">>
           q1 == UnpackSteps \o l1
           q2 == q1 \o SystemdSteps
           q3 == q2 \o l2
<1>1. Prepares(l1)
  BY DEF Prepares, Commands, Free, Removing
<1>2. Ends(l2) /\ Has(l2, "start")
  BY DEF Ends, Commands, Free, Removing, Has
<1> HIDE DEF l1, l2, q1, q2, q3
<1>3. Prepares(q1) /\ Has(q1, "untar")
  BY UnpackPart, <1>1, PreparedConcat DEF q1
<1>4. Prepares(q2) /\ Bootable(q2)
  BY <1>3, SystemdPart, PreparedConcat DEF Bootable, q2
<1>5. Sound(q3) /\ Bootable(q3) /\ Has(q3, "start")
  BY <1>4, <1>2, PreparingSound, BeforeEnding DEF Bootable, q3
<1> QED
  BY <1>5 DEF RedisInstall, l1, l2, q1, q2, q3

(* MongoDB, *)
LEMMA MongodSound ==
  Sound(MongodInstall) /\ Bootable(MongodInstall) /\ Has(MongodInstall, "start")
<1> DEFINE l1 == <<"config", "keyfile", "chown">>
           l2 == <<"start", "join">>
           q1 == UnpackSteps \o LibComplement
           q2 == q1 \o l1
           q3 == q2 \o SystemdSteps
           q4 == q3 \o l2
<1>1. Prepares(l1)
  BY DEF Prepares, Commands, Free, Removing
<1>2. Ends(l2) /\ Has(l2, "start")
  BY DEF Ends, Commands, Free, Removing, Has
<1> HIDE DEF l1, l2, q1, q2, q3, q4
<1>3. Prepares(q1) /\ Has(q1, "untar")
  BY UnpackPart, LibPart, PreparedConcat DEF q1
<1>4. Prepares(q2) /\ Has(q2, "untar")
  BY <1>3, <1>1, PreparedConcat DEF q2
<1>5. Prepares(q3) /\ Bootable(q3)
  BY <1>4, SystemdPart, PreparedConcat DEF Bootable, q3
<1>6. Sound(q4) /\ Bootable(q4) /\ Has(q4, "start")
  BY <1>5, <1>2, PreparingSound, BeforeEnding DEF Bootable, q4
<1> QED
  BY <1>6 DEF MongodInstall, l1, l2, q1, q2, q3, q4

LEMMA MongosSound ==
  Sound(MongosInstall) /\ Bootable(MongosInstall) /\ Has(MongosInstall, "start")
<1> DEFINE l1 == <<"mkdir", "untar", "ldd", "config", "keyfile", "chown">>
           l2 == <<"start">>
           q1 == l1 \o SystemdSteps
           q2 == q1 \o l2
<1>1. Prepares(l1) /\ Has(l1, "untar")
  BY DEF Prepares, Commands, Free, Removing, Has
<1>2. Ends(l2) /\ Has(l2, "start")
  BY DEF Ends, Commands, Free, Removing, Has
<1> HIDE DEF l1, l2, q1, q2
<1>3. Prepares(q1) /\ Bootable(q1)
  BY <1>1, SystemdPart, PreparedConcat DEF Bootable, q1
<1>4. Sound(q2) /\ Bootable(q2) /\ Has(q2, "start")
  BY <1>3, <1>2, PreparingSound, BeforeEnding DEF Bootable, q2
<1> QED
  BY <1>4 DEF MongosInstall, l1, l2, q1, q2

(* MariaDB, *)
LEMMA MariaDBPart ==
  Prepares(MariaDBSystem) /\ Bootable(MariaDBSystem)
<1> DEFINE l1 == <<"ldd", "ldd-library", "library", "ldd">>
           l2 == <<"config", "chown">>
           q1 == UnpackSteps \o l1
           q2 == q1 \o l2
           q3 == q2 \o SystemdSteps
<1>1. Prepares(l1)
  BY DEF Prepares, Commands, Free, Removing
<1>2. Prepares(l2)
  BY DEF Prepares, Commands, Free, Removing
<1> HIDE DEF l1, l2, q1, q2, q3
<1>3. Prepares(q1) /\ Has(q1, "untar")
  BY UnpackPart, <1>1, PreparedConcat DEF q1
<1>4. Prepares(q2) /\ Has(q2, "untar")
  BY <1>3, <1>2, PreparedConcat DEF q2
<1>5. Prepares(q3) /\ Bootable(q3)
  BY <1>4, SystemdPart, PreparedConcat DEF Bootable, q3
<1> QED
  BY <1>5 DEF MariaDBSystem, MariaDBLibComplement, l1, l2, q1, q2, q3

LEMMA PrimaryPart == Ends(InitPrimary)
<1>1. InitPrimary \in Seq(Commands)
  BY DEF InitPrimary, Changelocalpassword, CreateReplBackupUsers, Commands
<1>2. Free(InitPrimary, Removing \cup {"unit", "create"})
  BY DEF InitPrimary, Changelocalpassword, CreateReplBackupUsers, Free, Removing
<1> QED
  BY <1>1, <1>2 DEF Ends

LEMMA SecondaryPart == Ends(InitSecondary)
<1>1. InitSecondary \in Seq(Commands)
  BY DEF InitSecondary, Changelocalpassword, Commands
<1>2. Free(InitSecondary, Removing \cup {"unit", "create"})
  BY DEF InitSecondary, Changelocalpassword, Free, Removing
<1> QED
  BY <1>1, <1>2 DEF Ends

LEMMA SecondaryDataPart == Ends(InitSecondaryWithData)
<1>1. InitSecondaryWithData \in Seq(Commands)
  BY DEF InitSecondaryWithData, Changelocalpassword, Commands
<1>2. Free(InitSecondaryWithData, Removing \cup {"unit", "create"})
  BY DEF InitSecondaryWithData, Changelocalpassword, Free, Removing
<1> QED
  BY <1>1, <1>2 DEF Ends

LEMMA MariaDBSound ==
  Sound(MariaDBInstall) /\ Bootable(MariaDBInstall) /\ Has(MariaDBInstall, "start")
<1> DEFINE l1 == <<"start">>
           q1 == MariaDBSystem \o l1
           q2 == q1 \o InitPrimary
<1>1. Ends(l1) /\ Has(l1, "start")
  BY DEF Ends, Commands, Free, Removing, Has
<1> HIDE DEF l1, q1, q2
<1>2. Sound(q1) /\ Bootable(q1) /\ Has(q1, "start")
  BY MariaDBPart, <1>1, PreparingSound, BeforeEnding DEF Bootable, q1
<1>3. Sound(q2) /\ Bootable(q2) /\ Has(q2, "start")
  BY <1>2, PrimaryPart, BeforeEnding DEF Bootable, q2
<1> QED
  BY <1>3 DEF MariaDBInstall, l1, q1, q2

LEMMA MariaDBSlaveSound ==
  /\ Sound(MariaDBSlaveInstall)
  /\ Bootable(MariaDBSlaveInstall)
  /\ Has(MariaDBSlaveInstall, "start")
<1> DEFINE l1 == <<"start">>
           q1 == MariaDBSystem \o l1
           q2 == q1 \o InitSecondary
<1>1. Ends(l1) /\ Has(l1, "start")
  BY DEF Ends, Commands, Free, Removing, Has
<1> HIDE DEF l1, q1, q2
<1>2. Sound(q1) /\ Bootable(q1) /\ Has(q1, "start")
  BY MariaDBPart, <1>1, PreparingSound, BeforeEnding DEF Bootable, q1
<1>3. Sound(q2) /\ Bootable(q2) /\ Has(q2, "start")
  BY <1>2, SecondaryPart, BeforeEnding DEF Bootable, q2
<1> QED
  BY <1>3 DEF MariaDBSlaveInstall, l1, q1, q2

LEMMA MariaDBDataSlaveSound ==
  /\ Sound(MariaDBDataSlaveInstall)
  /\ Bootable(MariaDBDataSlaveInstall)
  /\ Has(MariaDBDataSlaveInstall, "start")
<1> DEFINE l1 == <<"start">>
           q1 == MariaDBSystem \o l1
           q2 == q1 \o InitSecondaryWithData
<1>1. Ends(l1) /\ Has(l1, "start")
  BY DEF Ends, Commands, Free, Removing, Has
<1> HIDE DEF l1, q1, q2
<1>2. Sound(q1) /\ Bootable(q1) /\ Has(q1, "start")
  BY MariaDBPart, <1>1, PreparingSound, BeforeEnding DEF Bootable, q1
<1>3. Sound(q2) /\ Bootable(q2) /\ Has(q2, "start")
  BY <1>2, SecondaryDataPart, BeforeEnding DEF Bootable, q2
<1> QED
  BY <1>3 DEF MariaDBDataSlaveInstall, l1, q1, q2

LEMMA GaleraMemberSound ==
  /\ Sound(GaleraMemberInstall)
  /\ Bootable(GaleraMemberInstall)
  /\ Has(GaleraMemberInstall, "start")
<1> DEFINE l1 == <<"start">>
           q1 == MariaDBSystem \o l1
<1>1. Ends(l1) /\ Has(l1, "start")
  BY DEF Ends, Commands, Free, Removing, Has
<1> HIDE DEF l1, q1
<1>2. Sound(q1) /\ Bootable(q1) /\ Has(q1, "start")
  BY MariaDBPart, <1>1, PreparingSound, BeforeEnding DEF Bootable, q1
<1> QED
  BY <1>2 DEF GaleraMemberInstall, l1, q1

LEMMA GaleraFirstSound ==
  /\ Sound(GaleraFirstInstall)
  /\ Bootable(GaleraFirstInstall)
  /\ Has(GaleraFirstInstall, "start")
<1> DEFINE l1 == <<"start">>
           l2 == <<"root@localhost", "root@127.0.0.1">>
           l3 == <<"unseed", "reload">>
           q1 == MariaDBSystem \o l1
           q2 == q1 \o l2
           q3 == q2 \o l3
<1>1. Ends(l1) /\ Has(l1, "start")
  BY DEF Ends, Commands, Free, Removing, Has
<1>2. Ends(l2)
  BY DEF Ends, Commands, Free, Removing
<1>3. Ends(l3)
  BY DEF Ends, Commands, Free, Removing
<1> HIDE DEF l1, l2, l3, q1, q2, q3
<1>4. Sound(q1) /\ Bootable(q1) /\ Has(q1, "start")
  BY MariaDBPart, <1>1, PreparingSound, BeforeEnding DEF Bootable, q1
<1>5. Sound(q2) /\ Bootable(q2) /\ Has(q2, "start")
  BY <1>4, <1>2, BeforeEnding DEF Bootable, q2
<1>6. Sound(q3) /\ Bootable(q3) /\ Has(q3, "start")
  BY <1>5, <1>3, BeforeEnding DEF Bootable, q3
<1> QED
  BY <1>6 DEF GaleraFirstInstall, Changelocalpassword, l1, l2, l3, q1, q2, q3

(* PostgreSQL, *)
LEMMA PgsqlPart ==
  Prepares(PgsqlSystem) /\ Bootable(PgsqlSystem)
<1> DEFINE l1 == <<"chown">>
           q1 == UnpackSteps \o LibComplement
           q2 == q1 \o l1
           q3 == q2 \o SystemdSteps
<1>1. Prepares(l1)
  BY DEF Prepares, Commands, Free, Removing
<1> HIDE DEF l1, q1, q2, q3
<1>2. Prepares(q1) /\ Has(q1, "untar")
  BY UnpackPart, LibPart, PreparedConcat DEF q1
<1>3. Prepares(q2) /\ Has(q2, "untar")
  BY <1>2, <1>1, PreparedConcat DEF q2
<1>4. Prepares(q3) /\ Bootable(q3)
  BY <1>3, SystemdPart, PreparedConcat DEF Bootable, q3
<1> QED
  BY <1>4 DEF PgsqlSystem, l1, q1, q2, q3

LEMMA InitDBPart == Ends(InitDB) /\ Has(InitDB, "start")
<1>1. InitDB \in Seq(Commands)
  BY DEF InitDB, InitDatabase, CreateDBUser, Commands
<1>2. Free(InitDB, Removing \cup {"unit", "create"})
  BY DEF InitDB, InitDatabase, CreateDBUser, Free, Removing
<1>3. Has(InitDB, "start")
  BY DEF InitDB, InitDatabase, CreateDBUser, Has
<1> QED
  BY <1>1, <1>2, <1>3 DEF Ends

LEMMA PgsqlSound ==
  Sound(PgsqlInstall) /\ Bootable(PgsqlInstall) /\ Has(PgsqlInstall, "start")
<1> DEFINE l1 == <<"info">>
           q1 == PgsqlSystem \o InitDB
           q2 == q1 \o l1
<1>1. Ends(l1)
  BY DEF Ends, Commands, Free, Removing
<1> HIDE DEF l1, q1, q2
<1>2. Sound(q1) /\ Bootable(q1) /\ Has(q1, "start")
  BY PgsqlPart, InitDBPart, PreparingSound, BeforeEnding DEF Bootable, q1
<1>3. Sound(q2) /\ Bootable(q2) /\ Has(q2, "start")
  BY <1>2, <1>1, BeforeEnding DEF Bootable, q2
<1> QED
  BY <1>3 DEF PgsqlInstall, l1, q1, q2

LEMMA PgslaveSound ==
  Sound(PgslaveInstall) /\ Bootable(PgslaveInstall) /\ Has(PgslaveInstall, "start")
<1> DEFINE l1 == <<"basebackup">>
           l2 == <<"config", "chown", "start">>
           q1 == PgsqlSystem \o l1
           q2 == q1 \o l2
<1>1. Prepares(l1)
  BY DEF Prepares, Commands, Free, Removing
<1>2. Ends(l2) /\ Has(l2, "start")
  BY DEF Ends, Commands, Free, Removing, Has
<1> HIDE DEF l1, l2, q1, q2
<1>3. Prepares(q1) /\ Bootable(q1)
  BY PgsqlPart, <1>1, PreparedConcat DEF Bootable, q1
<1>4. Sound(q2) /\ Bootable(q2) /\ Has(q2, "start")
  BY <1>3, <1>2, PreparingSound, BeforeEnding DEF Bootable, q2
<1> QED
  BY <1>4 DEF PgslaveInstall, ReplicaSlave, l1, l2, q1, q2

(* pgpool, *)
LEMMA PgpoolSound ==
  Sound(PgpoolInstall) /\ Bootable(PgpoolInstall) /\ Has(PgpoolInstall, "start")
<1> DEFINE l1 == <<"ldd", "hba", "config", "unit">>
           l2 == <<"pool-password", "hidden-password", "hba">>
           l3 == <<"chown", "reload", "enable", "limit", "start", "info">>
           q1 == UnpackSteps \o l1
           q2 == q1 \o l2
           q3 == q2 \o l3
<1>1. Prepares(l1) /\ Has(l1, "unit")
  BY DEF Prepares, Commands, Free, Removing, Has
<1>2. Prepares(l2)
  BY DEF Prepares, Commands, Free, Removing
<1>3. Ends(l3) /\ Has(l3, "enable") /\ Has(l3, "start")
  BY DEF Ends, Commands, Free, Removing, Has
<1> HIDE DEF l1, l2, l3, q1, q2, q3
<1>4. Prepares(q1) /\ Has(q1, "untar") /\ Has(q1, "unit")
  BY UnpackPart, <1>1, PreparedConcat DEF q1
<1>5. Prepares(q2) /\ Has(q2, "untar") /\ Has(q2, "unit")
  BY <1>4, <1>2, PreparedConcat DEF q2
<1>6. Sound(q3) /\ Bootable(q3) /\ Has(q3, "start")
  BY <1>5, <1>3, PreparingSound, BeforeEnding DEF Bootable, q3
<1> QED
  BY <1>6 DEF PgpoolInstall, PgpoolDBUser, l1, l2, l3, q1, q2, q3

(* pg_auto_failover, *)
LEMMA PgAutoPart == Prepares(PgAutoSystemInit) /\ Has(PgAutoSystemInit, "untar")
<1>1. PgAutoSystemInit \in Seq(Commands)
  BY DEF PgAutoSystemInit, CreateUser, PgAutoMkdir, Mkdir, Checksys, Checkldd, Commands
<1>2. Free(PgAutoSystemInit, Removing \cup {"start", "unseed", "create"})
  BY DEF PgAutoSystemInit, CreateUser, PgAutoMkdir, Mkdir, Checksys, Checkldd, Free, Removing
<1>3. Has(PgAutoSystemInit, "untar")
  BY DEF PgAutoSystemInit, CreateUser, PgAutoMkdir, Mkdir, Checksys, Checkldd, Has
<1> QED
  BY <1>1, <1>2, <1>3 DEF Prepares

LEMMA MonitorPart ==
  /\ Sound(PgAutoInitDatabase("monitor"))
  /\ ~Has(PgAutoInitDatabase("monitor"), "start") /\ ~Has(PgAutoInitDatabase("monitor"), "unit")
<1> DEFINE s == PgAutoInitDatabase("monitor")
<1>1. s \in Seq(Commands)
  BY DEF PgAutoInitDatabase, MonitorChangehba, Commands
<1>2. Free(s, Removing)
  BY DEF PgAutoInitDatabase, MonitorChangehba, Free, Removing
<1>3. ~Has(s, "start") /\ ~Has(s, "unit")
  BY DEF PgAutoInitDatabase, MonitorChangehba, Has
<1> HIDE DEF s
<1>4. Before(s, "unit", "start")
  BY <1>3 DEF Before, Has
<1>5. Sound(s)
  BY <1>1, <1>2, <1>4 DEF Sound
<1> QED
  BY <1>3, <1>5 DEF s

LEMMA PgdataPart ==
  /\ Sound(PgAutoInitDatabase("pgdata"))
  /\ ~Has(PgAutoInitDatabase("pgdata"), "start") /\ ~Has(PgAutoInitDatabase("pgdata"), "unit")
<1> DEFINE s == PgAutoInitDatabase("pgdata")
<1>1. s \in Seq(Commands)
  BY DEF PgAutoInitDatabase, Commands
<1>2. Free(s, Removing)
  BY DEF PgAutoInitDatabase, Free, Removing
<1>3. ~Has(s, "start") /\ ~Has(s, "unit")
  BY DEF PgAutoInitDatabase, Has
<1> HIDE DEF s
<1>4. Before(s, "unit", "start")
  BY <1>3 DEF Before, Has
<1>5. Sound(s)
  BY <1>1, <1>2, <1>4 DEF Sound
<1> QED
  BY <1>3, <1>5 DEF s

LEMMA MemberPart ==
  /\ Sound(PgAutoInitDatabase("pgdata member"))
  /\ ~Has(PgAutoInitDatabase("pgdata member"), "start") /\ ~Has(PgAutoInitDatabase("pgdata member"), "unit")
<1> DEFINE s == PgAutoInitDatabase("pgdata member")
<1>1. s \in Seq(Commands)
  BY DEF PgAutoInitDatabase, Commands
<1>2. Free(s, Removing)
  BY DEF PgAutoInitDatabase, Free, Removing
<1>3. ~Has(s, "start") /\ ~Has(s, "unit")
  BY DEF PgAutoInitDatabase, Has
<1> HIDE DEF s
<1>4. Before(s, "unit", "start")
  BY <1>3 DEF Before, Has
<1>5. Sound(s)
  BY <1>1, <1>2, <1>4 DEF Sound
<1> QED
  BY <1>3, <1>5 DEF s

LEMMA AuthPart == Prepares(FlushPGAuth)
<1>1. FlushPGAuth \in Seq(Commands)
  BY DEF FlushPGAuth, Commands
<1>2. Free(FlushPGAuth, Removing \cup {"start", "unseed", "create"})
  BY DEF FlushPGAuth, Free, Removing
<1> QED
  BY <1>1, <1>2 DEF Prepares

LEMMA PgAutoStartPart ==
  Sound(PgAutoSystemd) /\ Has(PgAutoSystemd, "unit") /\ Has(PgAutoSystemd, "start")
<1>1. PgAutoSystemd \in Seq(Commands)
  BY DEF PgAutoSystemd, Commands
<1>2. Free(PgAutoSystemd, Removing)
  BY DEF PgAutoSystemd, Free, Removing
<1>3. Before(PgAutoSystemd, "unit", "start")
  BY DEF PgAutoSystemd, Before
<1>4. Has(PgAutoSystemd, "unit") /\ Has(PgAutoSystemd, "start")
  BY DEF PgAutoSystemd, Has
<1> QED
  BY <1>1, <1>2, <1>3, <1>4 DEF Sound

LEMMA MonitorSound ==
  /\ Sound(MonitorInstall)
  /\ Has(MonitorInstall, "untar")
  /\ Has(MonitorInstall, "unit")
  /\ Has(MonitorInstall, "start")
<1> DEFINE l1 == <<"password", "reload-config">>
           q1 == PgAutoSystemInit \o PgAutoInitDatabase("monitor")
           q2 == q1 \o PgAutoSystemd
           q3 == q2 \o l1
<1>1. Ends(l1)
  BY DEF Ends, Commands, Free, Removing
<1> HIDE DEF l1, q1, q2, q3
<1>2. Sound(q1) /\ ~Has(q1, "start") /\ Has(q1, "untar")
  BY PgAutoPart, MonitorPart, PreparingSound, AfterPreparing DEF q1
<1>3. Sound(q2) /\ Has(q2, "untar") /\ Has(q2, "unit") /\ Has(q2, "start")
  BY <1>2, PgAutoStartPart, AfterUnstarted DEF q2
<1>4. Sound(q3) /\ Has(q3, "untar") /\ Has(q3, "unit") /\ Has(q3, "start")
  BY <1>3, <1>1, BeforeEnding DEF q3
<1> QED
  BY <1>4 DEF MonitorInstall, MonitorChangePass, l1, q1, q2, q3

LEMMA PgAutoUserPart == Ends(PgAutoDBUser)
<1>1. PgAutoDBUser \in Seq(Commands)
  BY DEF PgAutoDBUser, Commands
<1>2. Free(PgAutoDBUser, Removing \cup {"unit", "create"})
  BY DEF PgAutoDBUser, Free, Removing
<1> QED
  BY <1>1, <1>2 DEF Ends

LEMMA PgdataStartPart ==
  LET t == <<"config", "chown">> \o PgAutoSystemd \o PgAutoDBUser
  IN  Sound(t) /\ Has(t, "unit") /\ Has(t, "start")
<1> DEFINE l1 == <<"config", "chown">>
           q1 == l1 \o PgAutoSystemd
           q2 == q1 \o PgAutoDBUser
<1>1. Prepares(l1)
  BY DEF Prepares, Commands, Free, Removing
<1> HIDE DEF l1, q1, q2
<1>2. Sound(q1) /\ Has(q1, "unit") /\ Has(q1, "start")
  BY <1>1, PgAutoStartPart, AfterPreparing DEF q1
<1>3. Sound(q2) /\ Has(q2, "unit") /\ Has(q2, "start")
  BY <1>2, PgAutoUserPart, BeforeEnding DEF q2
<1> QED
  BY <1>3 DEF l1, q1, q2

LEMMA PgdataSound ==
  /\ Sound(PGdataInstall("pgdata"))
  /\ Has(PGdataInstall("pgdata"), "untar")
  /\ Has(PGdataInstall("pgdata"), "unit")
  /\ Has(PGdataInstall("pgdata"), "start")
<1> DEFINE l1 == <<"checkmonitor">>
           l2 == <<"limit">>
           l3 == <<"info">>
           q1 == l1 \o PgAutoSystemInit
           q2 == q1 \o FlushPGAuth
           q3 == q2 \o PgAutoInitDatabase("pgdata")
           q4 == q3 \o (<<"config", "chown">> \o PgAutoSystemd \o PgAutoDBUser)
           q5 == q4 \o l2
           q6 == q5 \o l3
<1>1. Prepares(l1)
  BY DEF Prepares, Commands, Free, Removing
<1>2. Ends(l2)
  BY DEF Ends, Commands, Free, Removing
<1>3. Ends(l3)
  BY DEF Ends, Commands, Free, Removing
<1> HIDE DEF l1, l2, l3, q1, q2, q3, q4, q5, q6
<1>4. Prepares(q1) /\ Has(q1, "untar")
  BY <1>1, PgAutoPart, PreparedConcat DEF q1
<1>5. Prepares(q2) /\ Has(q2, "untar")
  BY <1>4, AuthPart, PreparedConcat DEF q2
<1>6. Sound(q3) /\ ~Has(q3, "start") /\ Has(q3, "untar")
  BY <1>5, PgdataPart, PreparingSound, AfterPreparing DEF q3
<1>7. Sound(q4) /\ Has(q4, "untar") /\ Has(q4, "unit") /\ Has(q4, "start")
  BY <1>6, PgdataStartPart, AfterUnstarted DEF q4
<1>8. Sound(q5) /\ Has(q5, "untar") /\ Has(q5, "unit") /\ Has(q5, "start")
  BY <1>7, <1>2, BeforeEnding DEF q5
<1>9. Sound(q6) /\ Has(q6, "untar") /\ Has(q6, "unit") /\ Has(q6, "start")
  BY <1>8, <1>3, BeforeEnding DEF q6
<1> QED
  BY <1>9 DEF PGdataInstall, l1, l2, l3, q1, q2, q3, q4, q5, q6

LEMMA MemberSound ==
  /\ Sound(PGdataInstall("pgdata member"))
  /\ Has(PGdataInstall("pgdata member"), "untar")
  /\ Has(PGdataInstall("pgdata member"), "unit")
  /\ Has(PGdataInstall("pgdata member"), "start")
<1> DEFINE l1 == <<"checkmonitor">>
           l2 == <<"limit">>
           l3 == <<>>
           q1 == l1 \o PgAutoSystemInit
           q2 == q1 \o FlushPGAuth
           q3 == q2 \o PgAutoInitDatabase("pgdata member")
           q4 == q3 \o PgAutoSystemd
           q5 == q4 \o l2
           q6 == q5 \o l3
<1>1. Prepares(l1)
  BY DEF Prepares, Commands, Free, Removing
<1>2. Ends(l2)
  BY DEF Ends, Commands, Free, Removing
<1>3. Ends(l3)
  BY DEF Ends, Commands, Free, Removing
<1> HIDE DEF l1, l2, l3, q1, q2, q3, q4, q5, q6
<1>4. Prepares(q1) /\ Has(q1, "untar")
  BY <1>1, PgAutoPart, PreparedConcat DEF q1
<1>5. Prepares(q2) /\ Has(q2, "untar")
  BY <1>4, AuthPart, PreparedConcat DEF q2
<1>6. Sound(q3) /\ ~Has(q3, "start") /\ Has(q3, "untar")
  BY <1>5, MemberPart, PreparingSound, AfterPreparing DEF q3
<1>7. Sound(q4) /\ Has(q4, "untar") /\ Has(q4, "unit") /\ Has(q4, "start")
  BY <1>6, PgAutoStartPart, AfterUnstarted DEF q4
<1>8. Sound(q5) /\ Has(q5, "untar") /\ Has(q5, "unit") /\ Has(q5, "start")
  BY <1>7, <1>2, BeforeEnding DEF q5
<1>9. Sound(q6) /\ Has(q6, "untar") /\ Has(q6, "unit") /\ Has(q6, "start")
  BY <1>8, <1>3, BeforeEnding DEF q6
<1> QED
  BY <1>9 DEF PGdataInstall, l1, l2, l3, q1, q2, q3, q4, q5, q6

(* and the monitoring programs. *)
LEMMA RedisExporterSound ==
  /\ Sound(RedisExporterInstall)
  /\ Bootable(RedisExporterInstall)
  /\ Has(RedisExporterInstall, "start")
<1> DEFINE l1 == <<"mkdir", "untar">>
           q1 == l1 \o ExporterSystemd
<1>1. Prepares(l1) /\ Has(l1, "untar")
  BY DEF Prepares, Commands, Free, Removing, Has
<1> HIDE DEF l1, q1
<1>2. Sound(q1) /\ Bootable(q1) /\ Has(q1, "start")
  BY <1>1, ExporterPart, AfterPreparing DEF Bootable, q1
<1> QED
  BY <1>2 DEF RedisExporterInstall, l1, q1

LEMMA MongodbExporterSound ==
  /\ Sound(MongodbExporterInstall)
  /\ Bootable(MongodbExporterInstall)
  /\ Has(MongodbExporterInstall, "start")
<1> DEFINE l1 == <<"mkdir", "untar">>
           q1 == l1 \o ExporterSystemd
<1>1. Prepares(l1) /\ Has(l1, "untar")
  BY DEF Prepares, Commands, Free, Removing, Has
<1> HIDE DEF l1, q1
<1>2. Sound(q1) /\ Bootable(q1) /\ Has(q1, "start")
  BY <1>1, ExporterPart, AfterPreparing DEF Bootable, q1
<1> QED
  BY <1>2 DEF MongodbExporterInstall, l1, q1

LEMMA PostgresExporterSound ==
  /\ Sound(PostgresExporterInstall)
  /\ Bootable(PostgresExporterInstall)
  /\ Has(PostgresExporterInstall, "start")
<1> DEFINE l1 == <<"mkdir", "untar">>
           q1 == l1 \o ExporterSystemd
<1>1. Prepares(l1) /\ Has(l1, "untar")
  BY DEF Prepares, Commands, Free, Removing, Has
<1> HIDE DEF l1, q1
<1>2. Sound(q1) /\ Bootable(q1) /\ Has(q1, "start")
  BY <1>1, ExporterPart, AfterPreparing DEF Bootable, q1
<1> QED
  BY <1>2 DEF PostgresExporterInstall, l1, q1

LEMMA NodeExporterSound ==
  /\ Sound(NodeExporterInstall)
  /\ Bootable(NodeExporterInstall)
  /\ Has(NodeExporterInstall, "start")
<1> DEFINE l1 == <<"mkdir", "untar">>
           q1 == l1 \o ExporterSystemd
<1>1. Prepares(l1) /\ Has(l1, "untar")
  BY DEF Prepares, Commands, Free, Removing, Has
<1> HIDE DEF l1, q1
<1>2. Sound(q1) /\ Bootable(q1) /\ Has(q1, "start")
  BY <1>1, ExporterPart, AfterPreparing DEF Bootable, q1
<1> QED
  BY <1>2 DEF NodeExporterInstall, l1, q1

LEMMA MariadbExporterSound ==
  /\ Sound(MariadbExporterInstall)
  /\ Bootable(MariadbExporterInstall)
  /\ Has(MariadbExporterInstall, "start")
<1> DEFINE l1 == <<"mkdir", "untar", "config">>
           q1 == l1 \o ExporterSystemd
<1>1. Prepares(l1) /\ Has(l1, "untar")
  BY DEF Prepares, Commands, Free, Removing, Has
<1> HIDE DEF l1, q1
<1>2. Sound(q1) /\ Bootable(q1) /\ Has(q1, "start")
  BY <1>1, ExporterPart, AfterPreparing DEF Bootable, q1
<1> QED
  BY <1>2 DEF MariadbExporterInstall, l1, q1

LEMMA PrometheusSound ==
  /\ Sound(PrometheusInstall)
  /\ Bootable(PrometheusInstall)
  /\ Has(PrometheusInstall, "start")
<1> DEFINE l1 == <<"mkdir", "hosts", "untar">>
           q1 == l1 \o ExporterSystemd
<1>1. Prepares(l1) /\ Has(l1, "untar")
  BY DEF Prepares, Commands, Free, Removing, Has
<1> HIDE DEF l1, q1
<1>2. Sound(q1) /\ Bootable(q1) /\ Has(q1, "start")
  BY <1>1, ExporterPart, AfterPreparing DEF Bootable, q1
<1> QED
  BY <1>2 DEF PrometheusInstall, l1, q1

LEMMA GrafanaSound ==
  Sound(GrafanaInstall) /\ Bootable(GrafanaInstall) /\ Has(GrafanaInstall, "start")
<1> DEFINE l1 == <<"mkdir", "untar">>
           l2 == <<"wait", "password">>
           q1 == l1 \o ExporterSystemd
           q2 == q1 \o l2
<1>1. Prepares(l1) /\ Has(l1, "untar")
  BY DEF Prepares, Commands, Free, Removing, Has
<1>2. Ends(l2)
  BY DEF Ends, Commands, Free, Removing
<1> HIDE DEF l1, l2, q1, q2
<1>3. Sound(q1) /\ Bootable(q1) /\ Has(q1, "start")
  BY <1>1, ExporterPart, AfterPreparing DEF Bootable, q1
<1>4. Sound(q2) /\ Bootable(q2) /\ Has(q2, "start")
  BY <1>3, <1>2, BeforeEnding DEF Bootable, q2
<1> QED
  BY <1>4 DEF GrafanaInstall, l1, l2, q1, q2

LEMMA BothSound ==
  Sound(BothInstall) /\ Bootable(BothInstall) /\ Has(BothInstall, "start")
<1> DEFINE l1 == <<"grafana">>
           q1 == PrometheusInstall \o l1
<1>1. Ends(l1)
  BY DEF Ends, Commands, Free, Removing
<1> HIDE DEF l1, q1
<1>2. Sound(q1) /\ Bootable(q1) /\ Has(q1, "start")
  BY PrometheusSound, <1>1, BeforeEnding DEF Bootable, q1
<1> QED
  BY <1>2 DEF BothInstall, l1, q1

(* Every installation: nothing is removed, the program, the unit and a start   *)
(* are among the commands, the unit before the start, and "enable" everywhere  *)
(* but in pg_auto_failover, the only one with "create".                        *)
Complete(s) == Sound(s) /\ Has(s, "untar") /\ Has(s, "unit") /\ Has(s, "start")

LEMMA InstallComplete ==
  ASSUME NEW p \in AllProducts
  PROVE  /\ Complete(InstallSteps(p))
         /\ p \notin PgAutoFailover => /\ Has(InstallSteps(p), "enable")
                                      /\ ~Has(InstallSteps(p), "create")
<1>1. CASE p = "redis"
  <2>1. InstallSteps(p) = RedisInstall
    BY <1>1 DEF InstallSteps
  <2> QED
    BY <1>1, <2>1, RedisSound DEF Complete, Bootable
<1>2. CASE p = "mongod"
  <2>1. InstallSteps(p) = MongodInstall
    BY <1>2 DEF InstallSteps
  <2> QED
    BY <1>2, <2>1, MongodSound DEF Complete, Bootable
<1>3. CASE p = "mongos"
  <2>1. InstallSteps(p) = MongosInstall
    BY <1>3 DEF InstallSteps
  <2> QED
    BY <1>3, <2>1, MongosSound DEF Complete, Bootable
<1>4. CASE p = "mariadb"
  <2>1. InstallSteps(p) = MariaDBInstall
    BY <1>4 DEF InstallSteps
  <2> QED
    BY <1>4, <2>1, MariaDBSound DEF Complete, Bootable
<1>5. CASE p = "mariadb slave"
  <2>1. InstallSteps(p) = MariaDBSlaveInstall
    BY <1>5 DEF InstallSteps
  <2> QED
    BY <1>5, <2>1, MariaDBSlaveSound DEF Complete, Bootable
<1>6. CASE p = "galera"
  <2>1. InstallSteps(p) = GaleraFirstInstall
    BY <1>6 DEF InstallSteps
  <2> QED
    BY <1>6, <2>1, GaleraFirstSound DEF Complete, Bootable
<1>7. CASE p = "galera member"
  <2>1. InstallSteps(p) = GaleraMemberInstall
    BY <1>7 DEF InstallSteps
  <2> QED
    BY <1>7, <2>1, GaleraMemberSound DEF Complete, Bootable
<1>8. CASE p = "pgsql"
  <2>1. InstallSteps(p) = PgsqlInstall
    BY <1>8 DEF InstallSteps
  <2> QED
    BY <1>8, <2>1, PgsqlSound DEF Complete, Bootable
<1>9. CASE p = "pgslave"
  <2>1. InstallSteps(p) = PgslaveInstall
    BY <1>9 DEF InstallSteps
  <2> QED
    BY <1>9, <2>1, PgslaveSound DEF Complete, Bootable
<1>10. CASE p = "pgpool"
  <2>1. InstallSteps(p) = PgpoolInstall
    BY <1>10 DEF InstallSteps
  <2> QED
    BY <1>10, <2>1, PgpoolSound DEF Complete, Bootable
<1>11. CASE p = "monitor"
  <2>1. InstallSteps(p) = MonitorInstall
    BY <1>11 DEF InstallSteps
  <2> QED
    BY <1>11, <2>1, MonitorSound DEF Complete, PgAutoFailover
<1>12. CASE p = "pgdata"
  <2>1. InstallSteps(p) = PGdataInstall("pgdata")
    BY <1>12 DEF InstallSteps
  <2> QED
    BY <1>12, <2>1, PgdataSound DEF Complete, PgAutoFailover
<1>13. CASE p = "pgdata member"
  <2>1. InstallSteps(p) = PGdataInstall("pgdata member")
    BY <1>13 DEF InstallSteps
  <2> QED
    BY <1>13, <2>1, MemberSound DEF Complete, PgAutoFailover
<1>14. CASE p = "redis_exporter"
  <2>1. InstallSteps(p) = RedisExporterInstall
    BY <1>14 DEF InstallSteps
  <2> QED
    BY <1>14, <2>1, RedisExporterSound DEF Complete, Bootable
<1>15. CASE p = "mongodb_exporter"
  <2>1. InstallSteps(p) = MongodbExporterInstall
    BY <1>15 DEF InstallSteps
  <2> QED
    BY <1>15, <2>1, MongodbExporterSound DEF Complete, Bootable
<1>16. CASE p = "mariadb_exporter"
  <2>1. InstallSteps(p) = MariadbExporterInstall
    BY <1>16 DEF InstallSteps
  <2> QED
    BY <1>16, <2>1, MariadbExporterSound DEF Complete, Bootable
<1>17. CASE p = "postgres_exporter"
  <2>1. InstallSteps(p) = PostgresExporterInstall
    BY <1>17 DEF InstallSteps
  <2> QED
    BY <1>17, <2>1, PostgresExporterSound DEF Complete, Bootable
<1>18. CASE p = "node_exporter"
  <2>1. InstallSteps(p) = NodeExporterInstall
    BY <1>18 DEF InstallSteps
  <2> QED
    BY <1>18, <2>1, NodeExporterSound DEF Complete, Bootable
<1>19. CASE p = "prometheus"
  <2>1. InstallSteps(p) = PrometheusInstall
    BY <1>19 DEF InstallSteps
  <2> QED
    BY <1>19, <2>1, PrometheusSound DEF Complete, Bootable
<1>20. CASE p = "prometheus, grafana"
  <2>1. InstallSteps(p) = BothInstall
    BY <1>20 DEF InstallSteps
  <2> QED
    BY <1>20, <2>1, BothSound DEF Complete, Bootable
<1>21. CASE p = "grafana"
  <2>1. InstallSteps(p) = GrafanaInstall
    BY <1>21 DEF InstallSteps
  <2> QED
    BY <1>21, <2>1, GrafanaSound DEF Complete, Bootable
<1>22. CASE p = "mariadb slave, data"
  <2>1. InstallSteps(p) = MariaDBDataSlaveInstall
    BY <1>22 DEF InstallSteps
  <2> QED
    BY <1>22, <2>1, MariaDBDataSlaveSound DEF Complete, Bootable
<1> QED
  BY <1>1, <1>2, <1>3, <1>4, <1>5, <1>6, <1>7, <1>8, <1>9, <1>10, <1>11, <1>12, <1>13, <1>14,
     <1>15, <1>16, <1>17, <1>18, <1>19, <1>20, <1>21, <1>22
     DEF AllProducts, Monitoring, Exporters, PgAutoFailover

(* The first node of a galera cluster: the flag is taken out of the unit after *)
(* the unit was written, and systemd is told so in the end.                    *)
EndsInReload(s) == s # <<>> /\ s[Len(s)] = "reload"

LEMMA ConcatLast ==
  ASSUME NEW s \in Seq(Commands), NEW t \in Seq(Commands), EndsInReload(t)
  PROVE  EndsInReload(s \o t)
<1>1. Len(s) \in Nat /\ Len(t) \in Nat \ {0}
  BY LenProperties, EmptySeq DEF EndsInReload
<1>2. Len(s \o t) = Len(s) + Len(t) /\ s \o t \in Seq(Commands)
  BY ConcatProperties
<1>3. \A i \in 1..Len(t) : (s \o t)[Len(s) + i] = t[i]
  BY ConcatProperties
<1>4. (s \o t)[Len(s \o t)] = t[Len(t)]
  BY <1>1, <1>2, <1>3
<1>5. s \o t # <<>>
  BY <1>1, <1>2, EmptySeq
<1> QED
  BY <1>4, <1>5 DEF EndsInReload

LEMMA GaleraSeed ==
  LET s == InstallSteps("galera")
  IN  Has(s, "unseed") /\ Before(s, "unit", "unseed") /\ EndsInReload(s)
<1> DEFINE l1 == <<"start">>
           t == <<"unseed", "reload">>
           q == MariaDBSystem \o l1 \o Changelocalpassword
<1>1. t \in Seq(Commands) /\ Len(t) = 2 /\ t[2] = "reload"
  BY DEF Commands
<1>2. Has(t, "unseed") /\ ~Has(t, "unit")
  BY DEF Has
<1>3. l1 \in Seq(Commands) /\ ~Has(l1, "unseed")
  BY DEF Has, Commands
<1>4. Changelocalpassword \in Seq(Commands) /\ ~Has(Changelocalpassword, "unseed")
  BY DEF Has, Commands, Changelocalpassword
<1> HIDE DEF l1, t
<1>5. MariaDBSystem \in Seq(Commands) /\ ~Has(MariaDBSystem, "unseed")
  BY MariaDBPart, PreparingSound DEF Prepares
<1>6. MariaDBSystem \o l1 \in Seq(Commands) /\ ~Has(MariaDBSystem \o l1, "unseed")
  BY <1>3, <1>5, ConcatHas, ConcatProperties
<1>7. q \in Seq(Commands) /\ ~Has(q, "unseed")
  BY <1>4, <1>6, ConcatHas, ConcatProperties
<1> HIDE DEF q
<1>8. Before(q, "unit", "unseed") /\ Before(t, "unit", "unseed")
  BY <1>2, <1>7 DEF Before, Has
<1>9. Has(q \o t, "unseed") /\ Before(q \o t, "unit", "unseed")
  BY <1>1, <1>2, <1>7, <1>8, ConcatHas, ConcatBefore
<1>10. EndsInReload(t)
  BY <1>1, EmptySeq DEF EndsInReload
<1>11. EndsInReload(q \o t)
  BY <1>1, <1>7, <1>10, ConcatLast
<1>12. InstallSteps("galera") = q \o t
  BY DEF InstallSteps, GaleraFirstInstall, q, t, l1
<1> QED
  BY <1>9, <1>11, <1>12

-------------------------------------------------------------------------------
(* The other lists.  Writing: what puts something into the directory.          *)
(* Changing: what changes the directory or the unit.                           *)
Writing  == {"mkdir", "untar", "config", "keyfile", "pwfile", "initdb", "hba", "basebackup",
             "create"}
Changing == Writing \cup {"unit", "rmunit", "mvunit", "drop", "rmdir", "mvdir"}
Building == Writing \cup {"unit", "start", "seed"}

(* A removal, and a rollback: nothing is built, the process is stopped before  *)
(* its unit goes, and the unit and the directory go.                           *)
Removes(s) == /\ s \in Seq(Commands) /\ Free(s, Building)
              /\ Before(s, "stop", "rmunit") /\ Before(s, "stop", "mvunit")
              /\ Has(s, "stop")
              /\ Has(s, "rmunit") \/ Has(s, "mvunit")
              /\ Has(s, "rmdir") \/ Has(s, "mvdir")

LEMMA UninstallList ==
  ASSUME NEW s, s \in {<<"stop", "mvunit", "reload", "mvdir">>,
                       <<"stop", "mvunit", "reload", "drop", "rmauto", "mvdir">>}
  PROVE  /\ Removes(s) /\ Free(s, {"rmunit", "rmdir"}) /\ Before(s, "mvunit", "reload")
         /\ Has(s, "mvunit") /\ Has(s, "reload") /\ Has(s, "mvdir")
<1> DEFINE a == <<"stop", "mvunit", "reload", "mvdir">>
           b == <<"stop", "mvunit", "reload", "drop", "rmauto", "mvdir">>
<1>1. s \in Seq(Commands)
  <2>1. a \in Seq(Commands) /\ b \in Seq(Commands)
    BY DEF Commands
  <2> QED
    BY <2>1
<1>2. Free(s, Building) /\ Free(s, {"rmunit", "rmdir"})
  BY DEF Free, Building, Writing
<1>3. Has(s, "stop") /\ Has(s, "mvunit") /\ Has(s, "reload") /\ Has(s, "mvdir")
  <2>1. Has(a, "stop") /\ Has(a, "mvunit") /\ Has(a, "reload") /\ Has(a, "mvdir")
    BY DEF Has
  <2>2. Has(b, "stop") /\ Has(b, "mvunit")
    BY DEF Has
  <2>3. Has(b, "reload") /\ Has(b, "mvdir")
    BY DEF Has
  <2> QED
    BY <2>1, <2>2, <2>3
<1>4. Before(s, "stop", "rmunit") /\ Before(s, "stop", "mvunit")
  BY DEF Before
<1>5. Before(s, "mvunit", "reload")
  <2>1. Before(a, "mvunit", "reload") /\ Before(b, "mvunit", "reload")
    BY DEF Before
  <2> QED
    BY <2>1
<1> QED
  BY <1>1, <1>2, <1>3, <1>4, <1>5 DEF Removes

LEMMA UninstallRemoves ==
  ASSUME NEW p
  PROVE  LET s == UninstallSteps(p)
         IN  /\ Removes(s) /\ Free(s, {"rmunit", "rmdir"}) /\ Before(s, "mvunit", "reload")
             /\ Has(s, "mvunit") /\ Has(s, "reload") /\ Has(s, "mvdir")
<1>1. UninstallSteps(p) \in {<<"stop", "mvunit", "reload", "mvdir">>,
                             <<"stop", "mvunit", "reload", "drop", "rmauto", "mvdir">>}
  BY DEF UninstallSteps
<1> QED
  BY <1>1, UninstallList

LEMMA UninstallKeeps ==
  ASSUME NEW p, p \notin PgAutoFailover
  PROVE  ~Has(UninstallSteps(p), "drop")
<1>1. UninstallSteps(p) = <<"stop", "mvunit", "reload", "mvdir">>
  BY DEF UninstallSteps
<1> QED
  BY <1>1 DEF Has

LEMMA DeletionList ==
  ASSUME NEW s, s \in {<<"stop", "rmunit", "reload", "rmdir">>,
                       <<"stop", "rmunit", "reload", "drop", "rmdir">>}
  PROVE  Removes(s)
<1> DEFINE a == <<"stop", "rmunit", "reload", "rmdir">>
           b == <<"stop", "rmunit", "reload", "drop", "rmdir">>
<1>1. s \in Seq(Commands)
  <2>1. a \in Seq(Commands) /\ b \in Seq(Commands)
    BY DEF Commands
  <2> QED
    BY <2>1
<1>2. Free(s, Building)
  BY DEF Free, Building, Writing
<1>3. Has(s, "stop") /\ Has(s, "rmunit") /\ Has(s, "rmdir")
  <2>1. /\ Has(a, "stop") /\ Has(a, "rmunit") /\ Has(a, "rmdir")
        /\ Has(b, "stop") /\ Has(b, "rmunit") /\ Has(b, "rmdir")
    BY DEF Has
  <2> QED
    BY <2>1
<1>4. Before(s, "stop", "rmunit") /\ Before(s, "stop", "mvunit")
  BY DEF Before
<1> QED
  BY <1>1, <1>2, <1>3, <1>4 DEF Removes

LEMMA RollbackRemoves ==
  ASSUME NEW p, NEW c, ~(p = "mariadb slave, data" /\ c \in {"datasync", "join"})
  PROVE  Removes(RollbackSteps(p, c))
<1>1. CASE p \in {"redis", "pgsql", "pgslave", "pgpool", "monitor"}
  <2>1. RollbackSteps(p, c) = <<"stop", "rmunit", "reload", "rmdir">>
    BY <1>1 DEF RollbackSteps, ThoroughRollback
  <2> QED
    BY <2>1, DeletionList
<1>2. CASE p \in {"pgdata", "pgdata member"}
  <2>1. RollbackSteps(p, c) = <<"stop", "rmunit", "reload", "drop", "rmdir">>
    BY <1>2 DEF RollbackSteps
  <2> QED
    BY <2>1, DeletionList
<1>3. CASE p \notin {"redis", "pgsql", "pgslave", "pgpool", "monitor", "pgdata", "pgdata member"}
  <2>1. RollbackSteps(p, c) = UninstallSteps(p)
    BY <1>3 DEF RollbackSteps
  <2> QED
    BY <2>1, UninstallRemoves
<1> QED
  BY <1>1, <1>2, <1>3

(* A rollback where the port is another's: nothing is built and the directory  *)
(* goes.                                                                       *)
Clears(s) == /\ s \in Seq(Commands) /\ Free(s, Building)
             /\ Before(s, "stop", "rmunit") /\ Before(s, "stop", "mvunit")
             /\ Has(s, "rmdir") \/ Has(s, "mvdir")

LEMMA RollbackClears ==
  ASSUME NEW p, NEW c
  PROVE  Clears(RollbackSteps(p, c))
<1>1. CASE p = "mariadb slave, data" /\ c \in {"datasync", "join"}
  <2>1. RollbackSteps(p, c) = DataSyncRollback
    BY <1>1 DEF RollbackSteps
  <2>2. DataSyncRollback \in Seq(Commands)
    BY DEF DataSyncRollback, Commands
  <2>3. Free(DataSyncRollback, Building)
    BY DEF DataSyncRollback, Free, Building, Writing
  <2>4. ~Has(DataSyncRollback, "stop") /\ Has(DataSyncRollback, "mvdir")
    BY DEF DataSyncRollback, Has
  <2>5. /\ Before(DataSyncRollback, "stop", "rmunit")
        /\ Before(DataSyncRollback, "stop", "mvunit")
    BY <2>4 DEF Before, Has
  <2> QED
    BY <2>1, <2>2, <2>3, <2>4, <2>5 DEF Clears
<1>2. CASE ~(p = "mariadb slave, data" /\ c \in {"datasync", "join"})
  BY <1>2, RollbackRemoves DEF Removes, Clears
<1> QED
  BY <1>1, <1>2

LEMMA FourthOfFive == 4 \in 1..5
  OBVIOUS

LEMMA RollbackDrops ==
  ASSUME NEW p \in {"pgdata", "pgdata member"}, NEW c
  PROVE  Has(RollbackSteps(p, c), "drop")
<1> DEFINE s == <<"stop", "rmunit", "reload", "drop", "rmdir">>
<1>1. RollbackSteps(p, c) = s
  BY DEF RollbackSteps
<1>2. Len(s) = 5
  OBVIOUS
<1>3. s[4] = "drop"
  OBVIOUS
<1> HIDE DEF s
<1> QED
  BY <1>1, <1>2, <1>3, FourthOfFive, Zenon DEF Has

(* galera-start, and what is left of it after a failed start. *)
LEMMA BootstrapList ==
  /\ BootstrapSteps \in Seq(Commands) /\ Free(BootstrapSteps, Changing)
  /\ Has(BootstrapSteps, "unseed") /\ Before(BootstrapSteps, "seed", "unseed")
  /\ ~Has(BootstrapSteps, "unit") /\ Before(BootstrapSteps, "unit", "unseed")
  /\ EndsInReload(BootstrapSteps)
<1>1. BootstrapSteps \in Seq(Commands)
  BY DEF BootstrapSteps, Commands
<1>2. Free(BootstrapSteps, Changing)
  BY DEF BootstrapSteps, Free, Changing, Writing
<1>3. Has(BootstrapSteps, "unseed") /\ ~Has(BootstrapSteps, "unit")
  BY DEF BootstrapSteps, Has
<1>4. Before(BootstrapSteps, "seed", "unseed")
  BY DEF BootstrapSteps, Before
<1>5. Before(BootstrapSteps, "unit", "unseed")
  BY DEF BootstrapSteps, Before
<1>6. Len(BootstrapSteps) = 5 /\ BootstrapSteps[5] = "reload"
  BY DEF BootstrapSteps
<1>7. EndsInReload(BootstrapSteps)
  BY <1>1, <1>6, EmptySeq DEF EndsInReload
<1> QED
  BY <1>1, <1>2, <1>3, <1>4, <1>5, <1>7

LEMMA UnwindList ==
  LET s == <<"unseed", "reload">> IN s \in Seq(Commands) /\ Free(s, Changing) /\ ~Has(s, "seed")
<1>1. <<"unseed", "reload">> \in Seq(Commands)
  BY DEF Commands
<1>2. Free(<<"unseed", "reload">>, Changing)
  BY DEF Free, Changing, Writing
<1>3. ~Has(<<"unseed", "reload">>, "seed")
  BY DEF Has
<1> QED
  BY <1>1, <1>2, <1>3

(* The lists of an upgrade: every directory is moved aside, then replaced, and *)
(* all that before the start. *)
Exchanges(s) ==
  /\ s \in Seq(Commands) /\ Free(s, Changing)
  /\ \A p \in Part(product) : /\ Has(s, Aside[p]) /\ Has(s, Take[p])
                              /\ Before(s, Aside[p], Take[p]) /\ Before(s, Take[p], "start")
  /\ Has(s, "start") /\ Before(s, "stop", "start")
  /\ Before(s, "unpack", "rmtmp") /\ ~Has(s, "seed")
  /\ product = "mariadb" => Has(s, "rmtmp")

LEMMA RedisExchanges == ASSUME product = "redis" PROVE Exchanges(RedisUpgrade)
<1>1. RedisUpgrade \in Seq(Commands)
  BY DEF RedisUpgrade, Commands
<1>2. Free(RedisUpgrade, Changing)
  BY DEF RedisUpgrade, Free, Changing, Writing
<1>3. Part(product) = {"server"} /\ Aside["server"] = "mv-server" /\ Take["server"] = "new-server"
  BY DEF Part, Aside, Take
<1>4. Has(RedisUpgrade, "mv-server") /\ Has(RedisUpgrade, "new-server") /\ Has(RedisUpgrade, "start")
  BY DEF RedisUpgrade, Has
<1>5. Before(RedisUpgrade, "mv-server", "new-server")
  BY DEF RedisUpgrade, Before
<1>6. Before(RedisUpgrade, "new-server", "start")
  BY DEF RedisUpgrade, Before
<1>7. Before(RedisUpgrade, "stop", "start")
  BY DEF RedisUpgrade, Before
<1>8. Before(RedisUpgrade, "unpack", "rmtmp")
  BY DEF RedisUpgrade, Before
<1>9. ~Has(RedisUpgrade, "seed")
  BY DEF RedisUpgrade, Has
<1> QED
  BY <1>1, <1>2, <1>3, <1>4, <1>5, <1>6, <1>7, <1>8, <1>9 DEF Exchanges

LEMMA PgsqlExchanges == ASSUME product = "pgsql" PROVE Exchanges(PgsqlUpgrade)
<1>1. PgsqlUpgrade \in Seq(Commands)
  BY DEF PgsqlUpgrade, Commands
<1>2. Free(PgsqlUpgrade, Changing)
  BY DEF PgsqlUpgrade, Free, Changing, Writing
<1>3. Part(product) = {"server"} /\ Aside["server"] = "mv-server" /\ Take["server"] = "new-server"
  BY DEF Part, Aside, Take
<1>4. Has(PgsqlUpgrade, "mv-server") /\ Has(PgsqlUpgrade, "new-server") /\ Has(PgsqlUpgrade, "start")
  BY DEF PgsqlUpgrade, Has
<1>5. Before(PgsqlUpgrade, "mv-server", "new-server")
  BY DEF PgsqlUpgrade, Before
<1>6. Before(PgsqlUpgrade, "new-server", "start")
  BY DEF PgsqlUpgrade, Before
<1>7. Before(PgsqlUpgrade, "stop", "start")
  BY DEF PgsqlUpgrade, Before
<1>8. Before(PgsqlUpgrade, "unpack", "rmtmp")
  BY DEF PgsqlUpgrade, Before
<1>9. ~Has(PgsqlUpgrade, "seed")
  BY DEF PgsqlUpgrade, Has
<1> QED
  BY <1>1, <1>2, <1>3, <1>4, <1>5, <1>6, <1>7, <1>8, <1>9 DEF Exchanges

(* MariaDB: the exchange, the configuration, and the rest. *)
Moves == {"mv-bin", "new-bin", "mv-lib", "new-lib", "mv-share", "new-share"}
LEMMA MariaDBParts ==
  ASSUME product = "mariadb"
  PROVE  /\ Part(product) = {"bin", "lib", "share"}
         /\ Aside["bin"] = "mv-bin" /\ Take["bin"] = "new-bin"
         /\ Aside["lib"] = "mv-lib" /\ Take["lib"] = "new-lib"
         /\ Aside["share"] = "mv-share" /\ Take["share"] = "new-share"
         /\ \A p \in Part(product) : Aside[p] \in Moves /\ Take[p] \in Moves
  BY DEF Part, Aside, Take, Moves

LEMMA MariaDBExchanges == ASSUME product = "mariadb" PROVE Exchanges(MariaDBUpgrade)
<1> DEFINE a == <<"unpack", "stop", "mv-bin", "new-bin", "mv-lib", "new-lib", "mv-share",
                  "new-share">>
           b == <<"type", "chown", "reload", "start", "describe", "reload", "mysql_upgrade",
                  "rmtmp">>
           q == a \o ConfigEdits
<1>1. a \in Seq(Commands) /\ b \in Seq(Commands) /\ ConfigEdits \in Seq(Commands)
  BY DEF Commands, ConfigEdits
<1>2. Free(a, Changing) /\ Free(b, Changing) /\ Free(ConfigEdits, Changing)
  <2>1. Free(a, Changing)
    BY DEF Free, Changing, Writing
  <2>2. Free(b, Changing)
    BY DEF Free, Changing, Writing
  <2>3. Free(ConfigEdits, Changing)
    BY DEF Free, Changing, Writing, ConfigEdits
  <2> QED
    BY <2>1, <2>2, <2>3
<1>3. Free(b, Moves) /\ Free(ConfigEdits, Moves)
  BY DEF Free, Moves, ConfigEdits
<1>4. \A p \in Part(product) : Has(a, Aside[p]) /\ Has(a, Take[p])
  <2>1. Has(a, "mv-bin") /\ Has(a, "mv-lib") /\ Has(a, "mv-share")
    BY DEF Has
  <2>2. Has(a, "new-bin") /\ Has(a, "new-lib") /\ Has(a, "new-share")
    BY DEF Has
  <2> QED
    BY <2>1, <2>2, MariaDBParts
<1>5. \A p \in Part(product) : Before(a, Aside[p], Take[p])
  <2>1. Before(a, "mv-bin", "new-bin")
    BY DEF Before
  <2>2. Before(a, "mv-lib", "new-lib")
    BY DEF Before
  <2>3. Before(a, "mv-share", "new-share")
    BY DEF Before
  <2> QED
    BY <2>1, <2>2, <2>3, MariaDBParts
<1>6. ~Has(a, "start") /\ ~Has(ConfigEdits, "start") /\ Has(b, "start")
  BY DEF Has, ConfigEdits
<1>7. ~Has(a, "rmtmp") /\ ~Has(ConfigEdits, "rmtmp") /\ Has(b, "rmtmp")
  BY DEF Has, ConfigEdits
<1>8. ~Has(b, "stop") /\ ~Has(b, "unpack")
  BY DEF Has
<1>9. ~Has(a, "seed") /\ ~Has(ConfigEdits, "seed") /\ ~Has(b, "seed")
  BY DEF Has, ConfigEdits
<1> HIDE DEF a, b, q
<1>10. /\ q \in Seq(Commands) /\ Free(q, Changing)
      /\ \A c : Has(q, c) <=> (Has(a, c) \/ Has(ConfigEdits, c))
  <2>1. q \in Seq(Commands)
    BY <1>1, ConcatProperties DEF q
  <2>2. Free(q, Changing)
    BY <1>1, <1>2, ConcatFree DEF q
  <2>3. \A c : Has(q, c) <=> (Has(a, c) \/ Has(ConfigEdits, c))
    BY <1>1, ConcatHas DEF q
  <2> QED
    BY <2>1, <2>2, <2>3
<1>11. MariaDBUpgrade = q \o b
  BY DEF MariaDBUpgrade, q, a, b
<1>12. /\ MariaDBUpgrade \in Seq(Commands) /\ Free(MariaDBUpgrade, Changing)
       /\ \A c : Has(MariaDBUpgrade, c) <=> (Has(q, c) \/ Has(b, c))
  <2>1. q \o b \in Seq(Commands)
    BY <1>1, <1>10, ConcatProperties
  <2>2. Free(q \o b, Changing)
    BY <1>1, <1>2, <1>10, ConcatFree
  <2>3. \A c : Has(q \o b, c) <=> (Has(q, c) \/ Has(b, c))
    BY <1>1, <1>10, ConcatHas
  <2> QED
    BY <1>11, <2>1, <2>2, <2>3
<1>13. ASSUME NEW p \in Part(product)
       PROVE  /\ Has(MariaDBUpgrade, Aside[p]) /\ Has(MariaDBUpgrade, Take[p])
              /\ Before(MariaDBUpgrade, Aside[p], Take[p])
              /\ Before(MariaDBUpgrade, Take[p], "start")
  <2>1. /\ Aside[p] \in Moves /\ Take[p] \in Moves
    BY MariaDBParts
  <2>2. /\ ~Has(b, Aside[p]) /\ ~Has(b, Take[p])
        /\ ~Has(ConfigEdits, Aside[p]) /\ ~Has(ConfigEdits, Take[p])
    BY <1>3, <2>1, FreeHas
  <2>3. Before(ConfigEdits, Aside[p], Take[p]) /\ Before(b, Aside[p], Take[p])
    BY <2>2 DEF Before, Has
  <2>4. Before(q, Aside[p], Take[p])
    BY <1>1, <1>5, <2>2, <2>3, ConcatBefore DEF q
  <2>5. Before(MariaDBUpgrade, Aside[p], Take[p])
    BY <1>1, <1>10, <1>11, <2>2, <2>3, <2>4, ConcatBefore
  <2>6. Before(q, Take[p], "start") /\ Before(b, Take[p], "start")
    BY <1>6, <1>10, <2>2 DEF Before, Has
  <2>7. Before(MariaDBUpgrade, Take[p], "start")
    BY <1>1, <1>10, <1>11, <2>2, <2>6, ConcatBefore
  <2> QED
    BY <1>4, <1>10, <1>12, <2>5, <2>7
<1>14. Before(MariaDBUpgrade, "stop", "start") /\ Before(MariaDBUpgrade, "unpack", "rmtmp")
  <2>1. /\ Before(q, "stop", "start") /\ Before(b, "stop", "start")
        /\ Before(q, "unpack", "rmtmp") /\ Before(b, "unpack", "rmtmp")
    BY <1>6, <1>7, <1>8, <1>10 DEF Before, Has
  <2> QED
    BY <1>1, <1>8, <1>10, <1>11, <2>1, ConcatBefore
<1> QED
  BY <1>6, <1>7, <1>10, <1>12, <1>13, <1>14, <1>9 DEF Exchanges

LEMMA UpgradeExchanges ==
  ASSUME product \in {"redis", "pgsql", "mariadb"}
  PROVE  Exchanges(UpgradeSteps)
<1>1. CASE product = "redis"
  BY <1>1, RedisExchanges DEF UpgradeSteps
<1>2. CASE product = "pgsql"
  BY <1>2, PgsqlExchanges DEF UpgradeSteps
<1>3. CASE product = "mariadb"
  BY <1>3, MariaDBExchanges DEF UpgradeSteps
<1> QED
  BY <1>1, <1>2, <1>3

LEMMA UPConfigList ==
  ASSUME product = "mariadb"
  PROVE  /\ MariaDBUPConfig \in Seq(Commands) /\ Free(MariaDBUPConfig, Changing)
         /\ ~Has(MariaDBUPConfig, "seed")
         /\ \A p \in Part(product) :
              ~Has(MariaDBUPConfig, Take[p]) /\ ~Has(MariaDBUPConfig, Aside[p])
<1>1. MariaDBUPConfig \in Seq(Commands)
  BY DEF MariaDBUPConfig, ConfigEdits, Commands
<1>2. Free(MariaDBUPConfig, Changing)
  BY DEF MariaDBUPConfig, ConfigEdits, Free, Changing, Writing
<1>3. Free(MariaDBUPConfig, Moves)
  BY DEF MariaDBUPConfig, ConfigEdits, Free, Moves
<1>4. ~Has(MariaDBUPConfig, "seed")
  BY DEF MariaDBUPConfig, ConfigEdits, Has
<1> QED
  BY <1>1, <1>2, <1>3, <1>4, MariaDBParts, FreeHas

-------------------------------------------------------------------------------
(* What a command makes of each part of the slot. *)
LEMMA DoneType ==
  ASSUME NEW s \in SlotState, NEW c
  PROVE  Done(c, s) \in SlotState
<1>1. CASE ~Needed(c, s)
  BY <1>1 DEF Done
<1>2. CASE Needed(c, s) /\ c \in Writing
  BY <1>2 DEF Done, Writing, SlotState, Content, Age
<1>3. CASE Needed(c, s) /\ c \in {"unit", "seed", "unseed", "reload"}
  BY <1>3 DEF Done, SlotState, Content, Age, UnitFlag
<1>4. CASE Needed(c, s) /\ c \in {"enable", "start", "stop"}
  BY <1>4 DEF Done, SlotState, Content, Age
<1>5. CASE Needed(c, s) /\ c \in {"rmunit", "mvunit"}
  BY <1>5 DEF Done, SlotState, Content, Age
<1>6. CASE Needed(c, s) /\ c \in {"drop", "rmauto", "rmdir", "mvdir"}
  BY <1>6 DEF Done, SlotState, Content, Age
<1>7. CASE /\ Needed(c, s) /\ c \notin Writing
           /\ c \notin {"unit", "seed", "unseed", "reload", "enable", "start", "stop"}
           /\ c \notin {"rmunit", "mvunit", "drop", "rmauto", "rmdir", "mvdir"}
  BY <1>7 DEF Done, Writing
<1> QED
  BY <1>1, <1>2, <1>3, <1>4, <1>5, <1>6, <1>7

LEMMA DoneUnit ==
  ASSUME NEW s \in SlotState, NEW c
  PROVE  Done(c, s).unit = IF c = "unit" THEN "ours"
                           ELSE IF c \in {"rmunit", "mvunit"} THEN "none" ELSE s.unit
  BY DEF Done, Needed, SlotState

LEMMA DoneProc ==
  ASSUME NEW s \in SlotState, NEW c
  PROVE  Done(c, s).proc = IF c = "start" THEN "ours"
                           ELSE IF c = "stop" /\ s.unit # "none" THEN "none" ELSE s.proc
<1>1. CASE c = "start"
  BY <1>1 DEF Done, Needed, SlotState
<1>2. CASE c = "stop"
  <2>1. CASE s.unit # "none"
    <3>1. Done(c, s) = [s EXCEPT !.proc = "none"]
      BY <1>2, <2>1 DEF Done, Needed
    <3> QED
      BY <1>2, <2>1, <3>1 DEF SlotState
  <2>2. CASE s.unit = "none"
    <3>1. Done(c, s) = s
      BY <1>2, <2>2 DEF Done, Needed
    <3> QED
      BY <1>2, <2>2, <3>1
  <2> QED
    BY <2>1, <2>2
<1>3. CASE c \notin {"start", "stop"}
  BY <1>3 DEF Done, Needed, SlotState
<1> QED
  BY <1>1, <1>2, <1>3

LEMMA DoneDir ==
  ASSUME NEW s \in SlotState, NEW c
  PROVE  /\ c \notin {"drop", "rmdir", "mvdir"} => s.dir \subseteq Done(c, s).dir
         /\ c \notin Writing \cup {"drop", "rmdir", "mvdir"} => Done(c, s).dir = s.dir
         /\ c \in Writing => "dir" \in Done(c, s).dir
         /\ c = "untar" => "ours" \in Done(c, s).dir
         /\ c \in {"rmdir", "mvdir"} => Done(c, s).dir = IF "dir" \in s.dir THEN {} ELSE s.dir
         /\ c = "drop" => /\ s.dir \subseteq {"dir"} => Done(c, s).dir = s.dir
                          /\ "dir" \in s.dir => "dir" \in Done(c, s).dir
                          /\ s.dir = {} => Done(c, s).dir = {}
<1>1. CASE c \in Writing
  BY <1>1 DEF Done, Needed, SlotState, Writing
<1>2. CASE c \in {"rmdir", "mvdir"}
  <2>1. c \notin Writing /\ c # "drop" /\ c # "untar"
    BY <1>2 DEF Writing
  <2>2. CASE "dir" \in s.dir
    <3>1. Done(c, s).dir = {}
      BY <1>2, <2>2 DEF Done, Needed, SlotState
    <3> QED
      BY <1>2, <2>1, <2>2, <3>1
  <2>3. CASE "dir" \notin s.dir
    <3>1. Done(c, s) = s
      BY <1>2, <2>3 DEF Done, Needed
    <3> QED
      BY <1>2, <2>1, <2>3, <3>1
  <2> QED
    BY <2>2, <2>3
<1>3. CASE c = "drop"
  BY <1>3 DEF Done, Needed, SlotState, Writing
<1>4. CASE c \notin Writing \cup {"drop", "rmdir", "mvdir"}
  BY <1>4 DEF Done, Needed, SlotState, Writing
<1> QED
  BY <1>1, <1>2, <1>3, <1>4 DEF Writing

LEMMA DoneSaved ==
  ASSUME NEW s \in SlotState, NEW c
  PROVE  /\ s.saved \subseteq Done(c, s).saved
         /\ c = "mvunit" /\ s.unit = "prior" => "unit" \in Done(c, s).saved
         /\ c = "mvdir" /\ {"dir", "prior"} \subseteq s.dir => "dir" \in Done(c, s).saved
  BY DEF Done, Needed, SlotState

LEMMA DoneEnabled ==
  ASSUME NEW s \in SlotState, NEW c
  PROVE  Done(c, s).enabled <=> (s.enabled \/ c = "enable")
  BY DEF Done, Needed, SlotState

LEMMA DoneLoaded ==
  ASSUME NEW s \in SlotState, NEW c
  PROVE  Done(c, s).loaded = IF c = "reload" THEN s.unit ELSE s.loaded
  BY DEF Done, Needed, SlotState

LEMMA DoneSeed ==
  ASSUME NEW s \in SlotState, NEW c
  PROVE  Done(c, s).seed =
           CASE c = "unit" -> s.seed \cup UnitFlag
             [] c = "seed" -> s.seed \cup {"disk"}
             [] c = "unseed" -> s.seed \ {"disk"}
             [] c \in {"rmunit", "mvunit"} -> IF s.unit = "none" THEN s.seed ELSE s.seed \ {"disk"}
             [] c = "reload" -> IF "disk" \in s.seed THEN {"disk", "systemd"} ELSE {}
             [] OTHER -> s.seed
<1>1. CASE c = "unit"
  BY <1>1 DEF Done, Needed, SlotState
<1>2. CASE c \in {"seed", "unseed", "reload"}
  BY <1>2 DEF Done, Needed, SlotState
<1>3. CASE c \in {"rmunit", "mvunit"}
  <2>1. CASE s.unit # "none"
    <3>1. Done(c, s).seed = s.seed \ {"disk"}
      BY <1>3, <2>1 DEF Done, Needed, SlotState
    <3> QED
      BY <1>3, <2>1, <3>1
  <2>2. CASE s.unit = "none"
    <3>1. Done(c, s) = s
      BY <1>3, <2>2 DEF Done, Needed
    <3> QED
      BY <1>3, <2>2, <3>1
  <2> QED
    BY <2>1, <2>2
<1>4. CASE c \notin {"unit", "seed", "unseed", "reload", "rmunit", "mvunit"}
  BY <1>4 DEF Done, Needed, SlotState
<1> QED
  BY <1>1, <1>2, <1>3, <1>4

LEMMA DoneAuto ==
  ASSUME NEW s \in SlotState, NEW c
  PROVE  /\ c = "drop" => ~Done(c, s).auto
         /\ Done(c, s).auto => s.auto \/ c = "create"
<1>1. CASE c = "create"
  BY <1>1 DEF Done, Needed, SlotState
<1>2. CASE c \in {"drop", "rmauto"}
  BY <1>2 DEF Done, Needed, SlotState
<1>3. CASE c \notin {"create", "drop", "rmauto"}
  BY <1>3 DEF Done, Needed, SlotState
<1> QED
  BY <1>1, <1>2, <1>3

LEMMA OlderFacts ==
  ASSUME NEW s \in SlotState
  PROVE  /\ Older(s) \in SlotState
         /\ "prior" \in Older(s).dir <=> s.dir \cap (Content \ {"dir"}) # {}
         /\ Older(s).dir \subseteq {"dir"} <=> s.dir \subseteq {"dir"}
         /\ "dir" \in s.dir <=> "dir" \in Older(s).dir
         /\ s.dir = {} <=> Older(s).dir = {}
         /\ Older(s).unit = Aged(s.unit) /\ Older(s).proc = Aged(s.proc)
         /\ Older(s).loaded = Aged(s.loaded)
         /\ Older(s).seed = s.seed /\ Older(s).auto = s.auto /\ Older(s).enabled = s.enabled
<1>1. Older(s).dir = (s.dir \cap {"dir"}) \cup (IF s.dir \subseteq {"dir"} THEN {} ELSE {"prior"})
  BY DEF Older, SlotState
<1>2. /\ Older(s).unit = Aged(s.unit) /\ Older(s).proc = Aged(s.proc)
      /\ Older(s).loaded = Aged(s.loaded)
      /\ Older(s).seed = s.seed /\ Older(s).auto = s.auto /\ Older(s).enabled = s.enabled
  BY DEF Older, SlotState
<1>3. Older(s) \in SlotState
  BY DEF Older, Aged, SlotState, Content, Age
<1>4. s.dir \subseteq Content
  BY DEF SlotState
<1>5. "prior" \in Older(s).dir <=> s.dir \cap (Content \ {"dir"}) # {}
  BY <1>1, <1>4 DEF Content
<1>6. /\ Older(s).dir \subseteq {"dir"} <=> s.dir \subseteq {"dir"}
      /\ "dir" \in s.dir <=> "dir" \in Older(s).dir
      /\ s.dir = {} <=> Older(s).dir = {}
  BY <1>1
<1> QED
  BY <1>2, <1>3, <1>5, <1>6

LEMMA BootedFacts ==
  ASSUME NEW s \in SlotState, NEW b \in Booted(s)
  PROVE  /\ b \in SlotState
         /\ b.dir = s.dir /\ b.unit = s.unit /\ b.saved = s.saved /\ b.enabled = s.enabled
         /\ b.loaded = s.unit /\ b.auto = s.auto
         /\ b.seed = IF "disk" \in s.seed THEN {"disk", "systemd"} ELSE {}
         /\ s.enabled /\ s.unit = "ours" /\ HasProgram(s) => b.proc = "ours"
         /\ s.unit = "none" => b.proc = "none"
<1>1. PICK pr \in IF ~s.enabled \/ s.unit = "none" THEN {"none"}
                  ELSE IF HasProgram(s) THEN {s.unit}
                  ELSE IF s.unit = "prior" THEN {"prior", "none"} ELSE {"none"} :
        b = [s EXCEPT !.loaded = s.unit,
                      !.seed = IF "disk" \in @ THEN {"disk", "systemd"} ELSE {},
                      !.proc = pr]
  BY Zenon DEF Booted
<1>2. pr \in Age
  BY <1>1 DEF SlotState, Age
<1>3. /\ s.enabled /\ s.unit = "ours" /\ HasProgram(s) => pr = "ours"
      /\ s.unit = "none" => pr = "none"
  BY <1>1
<1> QED
  BY <1>1, <1>2, <1>3 DEF SlotState, Age

LEMMA CheckOlder ==
  ASSUME NEW s \in SlotState, NEW p, CheckOK(p, s)
  PROVE  CheckOK(p, Older(s))
  BY OlderFacts DEF CheckOK, Aged

-------------------------------------------------------------------------------
(* The kinds of steps. *)
Still == UNCHANGED <<product, mode>>
Kept  == UNCHANGED <<product, mode, norollback, last, before>>
Com   == Head(todo)

BeginsInstall == /\ mode = "install" /\ op' = "install" /\ last' = "install"
                 /\ todo' = InstallSteps(product) /\ CheckOK(product, slot)
                 /\ product \in Monitoring => norollback'
BeginsUninstall == /\ mode = "install" /\ op' = "uninstall" /\ last' = "uninstall"
                   /\ todo' = UninstallSteps(product) /\ product \notin Monitoring
BeginsBootstrap == /\ mode = "install" /\ op' = "bootstrap" /\ last' = "bootstrap"
                   /\ todo' = BootstrapSteps /\ product = "galera" /\ CanBootstrap(slot)
BeginsUpgrade == /\ mode = "upgrade" /\ last' = op'
                 /\ \/ op' = "upgrade" /\ todo' = UpgradeSteps
                    \/ op' = "upconfig" /\ todo' = MariaDBUPConfig /\ product = "mariadb"
Begins == /\ Idle /\ slot' = Older(slot) /\ before' = Older(slot) /\ clean' = TRUE
          /\ result' = "none" /\ norollback' \in BOOLEAN
          /\ BeginsInstall \/ BeginsUninstall \/ BeginsBootstrap \/ BeginsUpgrade
Refuses == /\ Idle /\ slot' = Older(slot) /\ before' = Older(slot) /\ clean' = TRUE
           /\ result' = "refused" /\ norollback' \in BOOLEAN /\ UNCHANGED <<op, todo>>
           /\ \/ mode = "install" /\ last' \in {"install", "bootstrap"}
              \/ mode = "upgrade" /\ last' = "upgrade"
Runs == /\ op # "idle" /\ todo # <<>> /\ todo' = Tail(todo) /\ UNCHANGED <<op, result>> /\ Kept
        /\ \/ slot' = Done(Com, slot) /\ UNCHANGED clean
           \/ /\ slot' \in {slot, Done(Com, slot)} /\ clean' = FALSE
              /\ \/ op = "rollback"
                 \/ op = "uninstall" /\ Com \in IgnoredInUninstall(product)
Finishes == /\ op # "idle" /\ todo = <<>> /\ op' = "idle" /\ UNCHANGED <<todo, slot, clean>> /\ Kept
            /\ result' = CASE op = "rollback" -> "undone" [] op = "unwind" -> "failed" [] OTHER -> "ok"
Aborts == /\ op # "idle" /\ op' = "idle" /\ todo' = <<>> /\ Kept
          /\ result' \in {"failed", "killed"} /\ clean' \in {clean, FALSE}
          /\ \/ slot' = slot
             \/ todo # <<>> /\ slot' = Done(Com, slot)
             \/ /\ \E b \in Booted(slot) : slot' \in {b, [b EXCEPT !.proc = "none"]}
                /\ result' = "killed"
RollsBack == /\ op = "install" /\ todo # <<>> /\ ~norollback /\ UNCHANGED <<result, clean>> /\ Kept
             /\ slot' \in {slot, Done(Com, slot)}
             /\ op' = "rollback" /\ todo' = RollbackSteps(product, Com)
Unwinds == /\ op \in {"bootstrap", "unwind"} /\ todo # <<>> /\ UNCHANGED <<result, clean>> /\ Kept
           /\ slot' \in {slot, Done(Com, slot)}
           /\ op' = "unwind" /\ todo' = <<"unseed", "reload">>
Restarts == /\ Idle /\ UNCHANGED <<op, todo, result, clean>> /\ Kept
            /\ \E b \in Booted(slot) :
                 slot' = b \/ (mode = "upgrade" /\ slot' = [b EXCEPT !.proc = "none"])

Kinds == Begins \/ Refuses \/ Runs \/ Finishes \/ Aborts \/ RollsBack \/ Unwinds \/ Restarts

LEMMA FailedFact ==
  ASSUME NEW c, NEW s, NEW r \in Failed(c, s)
  PROVE  r \in {s, Done(c, s)}
  BY DEF Failed

LEMMA InstallKinds ==
  ASSUME mode = "install", mode' = mode, TypeOK, Next
  PROVE  Kinds /\ product' = product
<1>1. CASE BeginInstall
  BY <1>1 DEF BeginInstall, Begin, Idle, Kinds, Begins, BeginsInstall, TypeOK
<1>2. CASE RefuseInstall \/ HandlePrepareArgs
  BY <1>2 DEF RefuseInstall, HandlePrepareArgs, Refuse, Idle, Kinds, Refuses
<1>3. CASE BeginUninstall
  BY <1>3 DEF BeginUninstall, Begin, Idle, Kinds, Begins, BeginsUninstall
<1>4. CASE BeginBootstrap
  BY <1>4 DEF BeginBootstrap, Begin, Idle, Kinds, Begins, BeginsBootstrap
<1>5. CASE RefuseBootstrap
  BY <1>5 DEF RefuseBootstrap, Refuse, Idle, Kinds, Refuses
<1>6. CASE Step
  BY <1>6 DEF Step, Next1, Kinds, Runs, Kept, Com
<1>7. CASE Finish
  BY <1>7 DEF Finish, Return, Kinds, Finishes, Kept
<1>8. CASE InstallFails
  <2>1. slot' \in {slot, Done(Head(todo), slot)}
    BY <1>8, FailedFact DEF InstallFails
  <2> QED
    BY <1>8, <2>1 DEF InstallFails, Running, Kinds, RollsBack, Kept, Com
<1>9. CASE InstallGivesUp
  <2>1. slot' \in {slot, Done(Head(todo), slot)}
    BY <1>9, FailedFact DEF InstallGivesUp
  <2> QED
    BY <1>9, <2>1 DEF InstallGivesUp, Running, Return, Kinds, Aborts, Kept, Com
<1>10. CASE RollbackFails
  <2>1. PICK s \in Failed(Head(todo), slot) :
          IF Head(todo) \in IgnoredInRollback(product)
            THEN Next1(s) ELSE slot' = s /\ Return("failed")
    BY <1>10 DEF RollbackFails
  <2>2. s \in {slot, Done(Head(todo), slot)}
    BY FailedFact
  <2> QED
    BY <1>10, <2>1, <2>2 DEF RollbackFails, Running, Next1, Return, Kinds, Aborts, Runs, Kept, Com
<1>11. CASE UninstallFails
  <2>1. PICK s \in Failed(Head(todo), slot) :
          IF Head(todo) \in IgnoredInUninstall(product)
            THEN Next1(s) ELSE slot' = s /\ Return("failed")
    BY <1>11 DEF UninstallFails
  <2>2. s \in {slot, Done(Head(todo), slot)}
    BY FailedFact
  <2> QED
    BY <1>11, <2>1, <2>2 DEF UninstallFails, Running, Next1, Return, Kinds, Aborts, Runs, Kept,
       Com
<1>12. CASE BootstrapFails
  <2>1. slot' \in {slot, Done(Head(todo), slot)}
    BY <1>12, FailedFact DEF BootstrapFails
  <2> QED
    BY <1>12, <2>1 DEF BootstrapFails, Return, Kinds, Aborts, Unwinds, Kept, Com
<1>13. CASE Kill
  BY <1>13 DEF Kill, Return, Kinds, Aborts, Kept
<1>14. CASE Reboot
  <2>1. CASE Idle
    BY <1>14, <2>1 DEF Reboot, Kinds, Restarts, Kept
  <2>2. CASE ~Idle
    BY <1>14, <2>2 DEF Reboot, Return, Idle, Kinds, Aborts, Kept
  <2> QED
    BY <2>1, <2>2
<1> QED
  BY <1>1, <1>2, <1>3, <1>4, <1>5, <1>6, <1>7, <1>8, <1>9, <1>10, <1>11, <1>12, <1>13, <1>14
     DEF Next

LEMMA UpKinds ==
  ASSUME mode = "upgrade", mode' = mode, TypeOK, UpNext, product \in {"redis", "pgsql", "mariadb"}
  PROVE  Kinds /\ product' = product
<1>1. CASE BeginUpgrade
  <2>1. CASE NewEnough
    BY <1>1, <2>1 DEF BeginUpgrade, NewEnough, Begin, Idle, Kinds, Begins, BeginsUpgrade
  <2>2. CASE ~NewEnough
    BY <1>1, <2>2 DEF BeginUpgrade, Begin, Idle, Kinds, Begins, BeginsUpgrade
  <2> QED
    BY <2>1, <2>2
<1>2. CASE RefuseUpgrade
  BY <1>2 DEF RefuseUpgrade, Refuse, Idle, Kinds, Refuses
<1>3. CASE UpStep
  BY <1>3 DEF UpStep, Upgrading, Kinds, Runs, Kept, Com
<1>4. CASE UpgradeFails
  BY <1>4 DEF UpgradeFails, Upgrading, Return, Kinds, Aborts, Kept, Com
<1>5. CASE UpReboot
  <2>1. PICK b \in Booted(slot) : slot' = IF Runnable THEN b ELSE [b EXCEPT !.proc = "none"]
    BY <1>5, Zenon DEF UpReboot
  <2>2. CASE Idle
    BY <1>5, <2>1, <2>2 DEF UpReboot, Kinds, Restarts, Kept
  <2>3. CASE ~Idle
    BY <1>5, <2>1, <2>3 DEF UpReboot, Return, Idle, Kinds, Aborts, Kept
  <2> QED
    BY <2>2, <2>3
<1>6. CASE Finish
  BY <1>6 DEF Finish, Return, Kinds, Finishes, Kept
<1>7. CASE Kill
  BY <1>7 DEF Kill, Return, Kinds, Aborts, Kept
<1> QED
  BY <1>1, <1>2, <1>3, <1>4, <1>5, <1>6, <1>7 DEF UpNext

-------------------------------------------------------------------------------
(* The inductive invariant.  Which operation runs where, and what was checked  *)
(* when it began:                                                              *)
FormInv ==
  /\ mode = "upgrade" => /\ op \in {"idle", "upgrade", "upconfig"}
                         /\ last \in {"none", "upgrade", "upconfig"}
                         /\ product \in {"redis", "pgsql", "mariadb"}
  /\ mode = "install" => op \notin {"upgrade", "upconfig"}
  /\ op \in {"install", "rollback"} => last = "install" /\ CheckOK(product, before)
  /\ op = "install" /\ product \in Monitoring => norollback
  /\ op = "rollback" => product \notin Monitoring
  /\ op = "uninstall" => last = "uninstall" /\ product \notin Monitoring
  /\ op \in {"bootstrap", "unwind"} => product = "galera" /\ last = "bootstrap"

(* What is always true of the slot. *)
SlotInv == /\ slot.dir # {} => "dir" \in slot.dir
           /\ "disk" \in slot.seed => slot.unit # "none"
           /\ product # "galera" => slot.seed = {}
           /\ op = "bootstrap" => slot.unit # "none"
           /\ mode = "upgrade" => /\ slot.unit = "prior" /\ slot.loaded = "prior"
                                  /\ slot.dir = {"dir", "prior"}

(* What an installation has done is what is no longer in its list. *)
InstallInv ==
  op = "install" =>
    /\ Free(todo, Removing) /\ Before(todo, "unit", "start")
    /\ Has(todo, "unit") \/ slot.unit = "ours"
    /\ Has(todo, "start") \/ slot.proc # "none"
    /\ slot.proc # "none" => slot.unit = "ours"
    /\ Has(todo, "untar") \/ HasProgram(slot)
    /\ product \notin PgAutoFailover => /\ Has(todo, "enable") \/ slot.enabled
                                       /\ ~Has(todo, "create")
InstalledInv ==
  Returned("install", "ok") =>
    /\ slot.unit = "ours"
    /\ product \notin PgAutoFailover => slot.proc # "none" /\ slot.enabled /\ HasProgram(slot)

(* A rollback all of whose commands have worked so far; that of a slave that   *)
(* loads data may have gone for the process and the unit of another port.      *)
RollbackInv ==
  op = "rollback" =>
    /\ Free(todo, Building) /\ Before(todo, "stop", "rmunit") /\ Before(todo, "stop", "mvunit")
    /\ clean /\ slot.dir # {} => Has(todo, "rmdir") \/ Has(todo, "mvdir")
    /\ clean /\ product # "mariadb slave, data"
         => /\ slot.proc # "none" => slot.unit # "none" /\ Has(todo, "stop")
            /\ slot.unit # "none" => Has(todo, "rmunit") \/ Has(todo, "mvunit")

(* pg_autoctl's state file: only its own products have one, and the rollback   *)
(* of a data node drops it.                                                    *)
AutoInv ==
  /\ product \notin PgAutoFailover => ~slot.auto
  /\ op = "rollback" /\ clean /\ product \in {"pgdata", "pgdata member"} /\ slot.auto
       => Has(todo, "drop")

(* A removal leaves a process without a unit alone, and stops every other one  *)
(* before it moves the unit away.                                              *)
UninstallInv ==
  op = "uninstall" =>
    /\ Free(todo, Building) /\ Free(todo, {"rmunit", "rmdir"})
    /\ product \notin PgAutoFailover => ~Has(todo, "drop")
    /\ Before(todo, "stop", "mvunit") /\ Before(todo, "mvunit", "reload")
    /\ IF Inst(before) = "orphan"
         THEN slot.proc # "none" /\ slot.unit = "none"
         ELSE /\ Has(todo, "stop") \/ slot.proc = "none"
              /\ slot.unit = "none" => slot.proc = "none"
    /\ before.proc = "none" => slot.proc = "none"
    /\ Has(todo, "mvunit") \/ slot.unit = "none"
    /\ Has(todo, "mvdir") \/ slot.dir = {}
    /\ Inst(before) = "free" => slot.unit = "none" /\ slot.dir \subseteq {"dir"}
    /\ product = "galera" => Has(todo, "reload") \/ slot.seed = {}

(* galera-start touches neither the directory nor the unit file's presence;    *)
(* where the flag is in the unit, or comes into it, it is taken out again and  *)
(* systemd is told so last.                                                    *)
BootInv == op \in {"bootstrap", "unwind"} =>
             Free(todo, Changing) /\ (op = "unwind" => ~Has(todo, "seed"))
SeedInv ==
  product = "galera" /\ op \in {"install", "bootstrap"} =>
    /\ "disk" \in slot.seed \/ Has(todo, "seed") \/ Has(todo, "unit") => Has(todo, "unseed")
    /\ Before(todo, "unit", "unseed") /\ Before(todo, "seed", "unseed")
    /\ IF todo = <<>> THEN slot.seed = {} ELSE EndsInReload(todo)

(* An upgrade exchanges one directory after the other, before the start. *)
UpgradeInv ==
  op \in {"upgrade", "upconfig"} =>
    /\ Free(todo, Changing) /\ ~Has(todo, "seed")
    /\ op = "upconfig" =>
         \A p \in Part(product) : ~Has(todo, Take[p]) /\ ~Has(todo, Aside[p])
    /\ op = "upgrade" =>
         /\ \A p \in Part(product) :
              /\ Before(todo, Aside[p], Take[p]) /\ Before(todo, Take[p], "start")
              /\ Has(todo, Aside[p]) => Has(todo, Take[p])
              /\ Has(todo, Take[p]) \/ part[p] = "new"
              /\ Has(todo, Aside[p]) \/ p \in kept \cup deleted
         /\ Has(todo, "start") \/ slot.proc # "none"
         /\ Before(todo, "stop", "start") /\ (Has(todo, "stop") => Has(todo, "start"))
         /\ Before(todo, "unpack", "rmtmp")
         /\ unpacks => Has(todo, "rmtmp") \/ (~tmpdir /\ ~Has(todo, "unpack"))

(* A step of the specification is one of the kinds, in either mode. *)
LEMMA StepKind ==
  ASSUME NodeTypeOK, FormInv, NodeNext
  PROVE  Kinds /\ product' = product /\ mode' = mode
<1>1. CASE mode = "install" /\ Next
  BY <1>1, InstallKinds DEF NodeNext, NodeTypeOK
<1>2. CASE mode = "upgrade" /\ UpNext
  BY <1>2, UpKinds DEF NodeNext, NodeTypeOK, FormInv
<1> QED
  BY <1>1, <1>2 DEF NodeNext

-------------------------------------------------------------------------------
(* Type correctness. *)
LEMMA SlotType ==
  ASSUME TypeOK, Kinds
  PROVE  slot' \in SlotState /\ before' \in SlotState
<1> USE DEF TypeOK, Kinds
<1>1. CASE Begins \/ Refuses
  BY <1>1, OlderFacts DEF Begins, Refuses
<1>2. CASE Runs
  BY <1>2, DoneType DEF Runs, Kept
<1>3. CASE Finishes
  BY <1>3 DEF Finishes, Kept
<1>4. CASE Aborts
  <2>1. before' = before
    BY <1>4 DEF Aborts, Kept
  <2>2. CASE slot' = slot
    BY <2>1, <2>2
  <2>3. CASE slot' = Done(Com, slot)
    BY <2>1, <2>3, DoneType
  <2>4. CASE \E b \in Booted(slot) : slot' \in {b, [b EXCEPT !.proc = "none"]}
    <3>1. PICK b \in Booted(slot) : slot' \in {b, [b EXCEPT !.proc = "none"]}
      BY <2>4
    <3>2. b \in SlotState
      BY BootedFacts
    <3>3. [b EXCEPT !.proc = "none"] \in SlotState
      BY <3>2 DEF SlotState, Age
    <3> QED
      BY <2>1, <3>1, <3>2, <3>3
  <2> QED
    BY <1>4, <2>2, <2>3, <2>4 DEF Aborts
<1>5. CASE RollsBack
  BY <1>5, DoneType DEF RollsBack, Kept
<1>6. CASE Unwinds
  BY <1>6, DoneType DEF Unwinds, Kept
<1>7. CASE Restarts
  <2>1. before' = before
    BY <1>7 DEF Restarts, Kept
  <2>2. PICK b \in Booted(slot) :
               slot' = b \/ (mode = "upgrade" /\ slot' = [b EXCEPT !.proc = "none"])
    BY <1>7 DEF Restarts
  <2>3. b \in SlotState
    BY BootedFacts
  <2>4. [b EXCEPT !.proc = "none"] \in SlotState
    BY <2>3 DEF SlotState, Age
  <2> QED
    BY <2>1, <2>2, <2>3, <2>4
<1> QED
  BY <1>1, <1>2, <1>3, <1>4, <1>5, <1>6, <1>7

LEMMA BeginsList ==
  ASSUME TypeOK, FormInv, Begins
  PROVE  todo' \in Seq(Commands)
<1>1. CASE BeginsInstall
  BY <1>1, ProductsAssumption, InstallComplete DEF BeginsInstall, TypeOK, Complete, Sound
<1>2. CASE BeginsUninstall
  BY <1>2, UninstallRemoves DEF BeginsUninstall, Removes
<1>3. CASE BeginsBootstrap
  BY <1>3, BootstrapList DEF BeginsBootstrap
<1>4. CASE BeginsUpgrade
  BY <1>4, UpgradeExchanges, UPConfigList DEF BeginsUpgrade, FormInv, Exchanges
<1> QED
  BY <1>1, <1>2, <1>3, <1>4 DEF Begins

LEMMA TodoType ==
  ASSUME TypeOK, FormInv, Kinds
  PROVE  todo' \in Seq(Commands) /\ (op' = "idle" => todo' = <<>>)
<1> USE DEF TypeOK, Kinds
<1>1. CASE Begins
  <2>1. op' # "idle"
    BY <1>1 DEF Begins, BeginsInstall, BeginsUninstall, BeginsBootstrap, BeginsUpgrade
  <2> QED
    BY <1>1, <2>1, BeginsList
<1>2. CASE Refuses \/ Restarts
  BY <1>2 DEF Refuses, Restarts
<1>3. CASE Runs
  BY <1>3, HeadTailProperties DEF Runs
<1>4. CASE Finishes \/ Aborts
  BY <1>4, EmptySeq DEF Finishes, Aborts
<1>5. CASE RollsBack
  BY <1>5, RollbackClears DEF RollsBack, Clears
<1>6. CASE Unwinds
  BY <1>6, UnwindList DEF Unwinds
<1> QED
  BY <1>1, <1>2, <1>3, <1>4, <1>5, <1>6

LEMMA WordsType ==
  ASSUME TypeOK, Kinds
  PROVE  /\ op' \in {"idle", "install", "rollback", "uninstall", "bootstrap", "unwind",
                    "upgrade", "upconfig"}
         /\ norollback' \in BOOLEAN /\ clean' \in BOOLEAN
         /\ last' \in {"none", "install", "uninstall", "bootstrap", "upgrade", "upconfig"}
         /\ result' \in {"none", "refused", "ok", "failed", "undone", "killed"}
<1> USE DEF TypeOK, Kinds
<1>1. CASE Begins
  BY <1>1 DEF Begins, BeginsInstall, BeginsUninstall, BeginsBootstrap, BeginsUpgrade
<1>2. CASE Refuses
  BY <1>2 DEF Refuses
<1>3. CASE Runs
  BY <1>3 DEF Runs, Kept
<1>4. CASE Finishes
  BY <1>4 DEF Finishes, Kept
<1>5. CASE Aborts
  BY <1>5 DEF Aborts, Kept
<1>6. CASE RollsBack
  BY <1>6 DEF RollsBack, Kept
<1>7. CASE Unwinds
  BY <1>7 DEF Unwinds, Kept
<1>8. CASE Restarts
  BY <1>8 DEF Restarts, Kept
<1> QED
  BY <1>1, <1>2, <1>3, <1>4, <1>5, <1>6, <1>7, <1>8

(* The variables of an upgrade. *)
UpType == /\ part \in [Part(product) -> {"old", "new", "none", "broken"}]
          /\ kept \subseteq Part(product) /\ deleted \subseteq Part(product)
          /\ fresh \subseteq Part(product) /\ (unpacks /\ fresh # {} => tmpdir)
          /\ tmpdir \in BOOLEAN /\ nobak \in BOOLEAN /\ unpacks \in BOOLEAN

LEMMA ExchangeType ==
  ASSUME UpType, product' = product, NEW c, Exchange(c)
  PROVE  /\ part' \in [Part(product) -> {"old", "new", "none", "broken"}]
         /\ kept' \subseteq Part(product) /\ deleted' \subseteq Part(product)
<1>1. DOMAIN part = Part(product)
  BY DEF UpType
<1>2. part' \in [Part(product) -> {"old", "new", "none", "broken"}]
  BY <1>1 DEF UpType, Exchange
<1>3. PartOf(c, Aside) \subseteq Part(product)
  BY DEF PartOf
<1>4. MovedAside(PartOf(c, Aside)) \subseteq Part(product)
  BY <1>3 DEF MovedAside
<1> QED
  BY <1>2, <1>3, <1>4 DEF UpType, Exchange

LEMMA UpTypeStep ==
  ASSUME UpType, NodeNext, product' = product
  PROVE  UpType'
<1>1. CASE UNCHANGED upvars
  BY <1>1 DEF UpType, upvars, Part
<1>2. Part(product)' = Part(product)
  BY DEF Part
<1>3. CASE BeginUpgrade
  <2>1. nobak' \in BOOLEAN /\ unpacks' \in BOOLEAN
    BY <1>3 DEF BeginUpgrade
  <2>2. fresh' \subseteq Part(product) /\ (unpacks' => fresh' = {})
    BY <1>3 DEF BeginUpgrade
  <2> QED
    BY <1>2, <1>3, <2>1, <2>2 DEF BeginUpgrade, UpType
<1>4. CASE UpStep
  <2> DEFINE c == Head(todo)
  <2>1. /\ Exchange(c) /\ fresh' = NextFresh(c) /\ UNCHANGED <<nobak, unpacks>>
        /\ tmpdir' = IF unpacks /\ c \in {"unpack", "rmtmp"} THEN c = "unpack" ELSE tmpdir
    BY <1>4 DEF UpStep
  <2>2. tmpdir' \in BOOLEAN
    BY <2>1 DEF UpType
  <2>3. fresh' \subseteq Part(product)
    BY <2>1 DEF NextFresh, UpType
  <2>4. unpacks /\ fresh' # {} => tmpdir'
    <3>1. CASE unpacks /\ c = "unpack"
      BY <2>1, <3>1
    <3>2. CASE unpacks /\ c = "rmtmp"
      BY <2>1, <3>2 DEF NextFresh
    <3>3. CASE unpacks /\ c \notin {"unpack", "rmtmp"}
      <4>1. fresh' \subseteq fresh /\ tmpdir' = tmpdir
        BY <2>1, <3>3 DEF NextFresh
      <4> QED
        BY <4>1 DEF UpType
    <3> QED
      BY <3>1, <3>2, <3>3
  <2> QED
    BY <1>2, <2>1, <2>2, <2>3, <2>4, ExchangeType DEF UpType
<1>5. CASE UpgradeFails
  <2> DEFINE c == Head(todo)
             exits == c = "unpack" /\ unpacks /\ tmpdir
  <2>1. /\ Exchange(c) \/ Half(c)
        /\ fresh' = (IF unpacks THEN {} ELSE fresh)
        /\ tmpdir' = (IF unpacks THEN exits ELSE tmpdir)
        /\ UNCHANGED <<nobak, unpacks>>
    BY <1>5 DEF UpgradeFails
  <2>2. /\ fresh' \subseteq Part(product) /\ tmpdir' \in BOOLEAN
        /\ unpacks => fresh' = {}
    BY <2>1 DEF UpType
  <2>3. CASE Exchange(c)
    BY <1>2, <2>1, <2>2, <2>3, ExchangeType DEF UpType
  <2>4. CASE Half(c)
    <3>1. part' \in [Part(product) -> {"old", "new", "none", "broken"}]
      BY <2>4 DEF UpType, Half
    <3>2. kept' = kept /\ deleted' \subseteq Part(product)
      BY <2>4 DEF UpType, Half, PartOf
    <3> QED
      BY <1>2, <2>1, <2>2, <3>1, <3>2 DEF UpType
  <2> QED
    BY <2>1, <2>3, <2>4
<1> QED
  BY <1>1, <1>3, <1>4, <1>5 DEF NodeNext, UpNext, RefuseUpgrade, UpReboot

LEMMA TypeStep ==
  ASSUME NodeTypeOK, FormInv, NodeNext
  PROVE  NodeTypeOK'
<1>1. Kinds /\ product' = product /\ mode' = mode
  BY StepKind
<1>2. TypeOK /\ UpType
  BY DEF NodeTypeOK, UpType
<1>3. TypeOK'
  BY <1>1, <1>2, SlotType, TodoType, WordsType DEF TypeOK
<1>4. UpType'
  BY <1>1, <1>2, UpTypeStep
<1>5. mode' \in {"install", "upgrade"}
  BY <1>1 DEF NodeTypeOK
<1> QED
  BY <1>3, <1>4, <1>5 DEF NodeTypeOK, UpType

-------------------------------------------------------------------------------
(* Which operation runs, and the slot. *)
LEMMA FormStep ==
  ASSUME NodeTypeOK, FormInv, Kinds, product' = product, mode' = mode
  PROVE  FormInv'
<1> USE DEF FormInv
<1>1. mode \in {"install", "upgrade"} /\ slot \in SlotState
  BY DEF NodeTypeOK, TypeOK
<1>2. CASE Begins
  <2>1. CASE BeginsInstall
    <3>1. CheckOK(product, before')
      BY <1>1, <1>2, <2>1, CheckOlder DEF Begins, BeginsInstall
    <3>2. CheckOK(product, before)'
      BY <3>1 DEF CheckOK
    <3> QED
      BY <1>1, <1>2, <2>1, <3>2 DEF BeginsInstall
  <2>2. CASE BeginsUninstall
    BY <1>1, <1>2, <2>2 DEF BeginsUninstall
  <2>3. CASE BeginsBootstrap
    BY <1>1, <1>2, <2>3 DEF BeginsBootstrap
  <2>4. CASE BeginsUpgrade
    BY <1>1, <1>2, <2>4 DEF BeginsUpgrade
  <2> QED
    BY <1>2, <2>1, <2>2, <2>3, <2>4 DEF Begins
<1>3. CASE Refuses
  BY <1>1, <1>3 DEF Refuses, Idle
<1>4. (UNCHANGED <<before>>) => (CheckOK(product, before)' <=> CheckOK(product, before))
  BY DEF CheckOK
<1>5. CASE Runs
  BY <1>1, <1>4, <1>5 DEF Runs, Kept
<1>6. CASE Finishes
  BY <1>1, <1>6 DEF Finishes, Kept
<1>7. CASE Aborts
  BY <1>1, <1>7 DEF Aborts, Kept
<1>8. CASE RollsBack
  BY <1>1, <1>4, <1>8 DEF RollsBack, Kept
<1>9. CASE Unwinds
  BY <1>1, <1>9 DEF Unwinds, Kept
<1>10. CASE Restarts
  BY <1>1, <1>10 DEF Restarts, Kept, Idle
<1> QED
  BY <1>2, <1>3, <1>5, <1>6, <1>7, <1>8, <1>9, <1>10 DEF Kinds

(* What the list of an operation can hold of the commands that matter. *)
LEMMA HeadFacts ==
  ASSUME NodeTypeOK, todo # <<>>
  PROVE  /\ Tail(todo) \in Seq(Commands)
         /\ \A c : Has(todo, c) <=> (c = Com \/ Has(Tail(todo), c))
         /\ \A c, d : Before(todo, c, d) =>
              /\ Before(Tail(todo), c, d)
              /\ Com = d => ~Has(todo, c) /\ ~Has(Tail(todo), c)
         /\ \A C : Free(todo, C) => Free(Tail(todo), C) /\ Com \notin C
<1>1. todo \in Seq(Commands)
  BY DEF NodeTypeOK, TypeOK
<1> QED
  BY <1>1, TailHas, TailBefore, TailFree, HeadTailProperties DEF Com

(* "seed" is only ever run where there is a unit. *)
SeedFree == op \in {"install", "rollback", "uninstall"} => Free(todo, {"seed"})
LEMMA NoSeed ==
  ASSUME InstallInv, RollbackInv, UninstallInv
  PROVE  SeedFree
  BY DEF InstallInv, RollbackInv, UninstallInv, SeedFree, Free, Removing, Building

GoodSlot(s) == /\ s.dir # {} => "dir" \in s.dir
               /\ "disk" \in s.seed => s.unit # "none"
               /\ product # "galera" => s.seed = {}

LEMMA DoneGood ==
  ASSUME NEW s \in SlotState, GoodSlot(s), NEW c,
         c = "seed" => s.unit # "none" /\ product = "galera"
  PROVE  GoodSlot(Done(c, s))
<1>1. Done(c, s).dir # {} => "dir" \in Done(c, s).dir
  <2>1. CASE c \in Writing
    BY <2>1, DoneDir
  <2>2. CASE c \in {"rmdir", "mvdir"}
    BY <2>2, DoneDir DEF GoodSlot
  <2>3. CASE c = "drop"
    BY <2>3, DoneDir DEF GoodSlot
  <2>4. CASE c \notin Writing \cup {"drop", "rmdir", "mvdir"}
    BY <2>4, DoneDir DEF GoodSlot
  <2> QED
    BY <2>1, <2>2, <2>3, <2>4
<1>2. "disk" \in Done(c, s).seed => Done(c, s).unit # "none"
  <2>1. CASE c = "unit"
    BY <2>1, DoneUnit
  <2>2. CASE c \in {"rmunit", "mvunit"}
    <3>1. Done(c, s).seed = IF s.unit = "none" THEN s.seed ELSE s.seed \ {"disk"}
      <4>1. c \notin {"unit", "seed", "unseed", "reload"}
        BY <2>2
      <4> QED
        BY <2>2, <4>1, DoneSeed
    <3> QED
      BY <3>1 DEF GoodSlot
  <2>3. CASE c \notin {"unit", "rmunit", "mvunit"}
    <3>1. Done(c, s).unit = s.unit
      BY <2>3, DoneUnit
    <3>2. "disk" \in Done(c, s).seed => "disk" \in s.seed \/ c = "seed"
      BY <2>3, DoneSeed
    <3> QED
      BY <3>1, <3>2 DEF GoodSlot
  <2> QED
    BY <2>1, <2>2, <2>3
<1>3. product # "galera" => Done(c, s).seed = {}
  BY DoneSeed DEF GoodSlot, UnitFlag
<1> QED
  BY <1>1, <1>2, <1>3 DEF GoodSlot

LEMMA OlderGood ==
  ASSUME NEW s \in SlotState, GoodSlot(s)
  PROVE  GoodSlot(Older(s))
  BY OlderFacts DEF GoodSlot, Aged

LEMMA BootedGood ==
  ASSUME NEW s \in SlotState, GoodSlot(s), NEW b \in Booted(s)
  PROVE  GoodSlot(b) /\ GoodSlot([b EXCEPT !.proc = "none"])
<1>1. b \in SlotState /\ b.dir = s.dir /\ b.unit = s.unit
      /\ b.seed = IF "disk" \in s.seed THEN {"disk", "systemd"} ELSE {}
  BY BootedFacts
<1>2. GoodSlot(b)
  BY <1>1 DEF GoodSlot
<1>3. LET z == [b EXCEPT !.proc = "none"] IN z.dir = b.dir /\ z.unit = b.unit /\ z.seed = b.seed
  BY <1>1 DEF SlotState
<1> QED
  BY <1>2, <1>3 DEF GoodSlot

(* Every new slot is an old one aged, worked on or booted. *)
LEMMA SlotSources ==
  ASSUME NodeTypeOK, Kinds
  PROVE  \/ slot' = slot
         \/ slot' = Older(slot) /\ op = "idle"
         \/ slot' = Done(Com, slot) /\ op # "idle" /\ todo # <<>>
         \/ \E b \in Booted(slot) : slot' \in {b, [b EXCEPT !.proc = "none"]}
<1>1. CASE Begins \/ Refuses
  BY <1>1 DEF Begins, Refuses, Idle
<1>2. CASE Runs \/ Finishes \/ RollsBack \/ Unwinds
  BY <1>2 DEF Runs, Finishes, RollsBack, Unwinds
<1>3. CASE Aborts
  BY <1>3 DEF Aborts
<1>4. CASE Restarts
  BY <1>4 DEF Restarts
<1> QED
  BY <1>1, <1>2, <1>3, <1>4 DEF Kinds

LEMMA GoodStep ==
  ASSUME NodeTypeOK, FormInv, SlotInv, SeedFree, BootInv, UpgradeInv, Kinds,
         product' = product, mode' = mode
  PROVE  GoodSlot(slot')
<1>1. slot \in SlotState /\ GoodSlot(slot)
  BY DEF NodeTypeOK, TypeOK, SlotInv, GoodSlot
<1>2. ASSUME op # "idle", todo # <<>>, Com = "seed"
      PROVE  slot.unit # "none" /\ product = "galera"
  <2>1. Has(todo, "seed")
    BY <1>2, HeadFacts
  <2>2. op \notin {"install", "rollback", "uninstall"}
    BY <2>1, FreeHas DEF SeedFree
  <2>3. op # "unwind"
    BY <2>1 DEF BootInv
  <2>4. CASE op = "bootstrap"
    BY <2>4 DEF SlotInv, FormInv
  <2>5. CASE op \in {"upgrade", "upconfig"}
    BY <2>1, <2>5 DEF UpgradeInv
  <2> QED
    BY <1>2, <2>2, <2>3, <2>4, <2>5 DEF NodeTypeOK, TypeOK
<1>3. CASE slot' = slot
  BY <1>1, <1>3
<1>4. CASE slot' = Older(slot)
  BY <1>1, <1>4, OlderGood
<1>5. CASE slot' = Done(Com, slot) /\ op # "idle" /\ todo # <<>>
  BY <1>1, <1>2, <1>5, DoneGood
<1>6. CASE \E b \in Booted(slot) : slot' \in {b, [b EXCEPT !.proc = "none"]}
  BY <1>1, <1>6, BootedGood
<1> QED
  BY <1>3, <1>4, <1>5, <1>6, SlotSources

LEMMA SlotStep ==
  ASSUME NodeTypeOK, FormInv, SlotInv, SeedFree, BootInv, UpgradeInv, Kinds,
         product' = product, mode' = mode
  PROVE  SlotInv'
<1>1. slot \in SlotState /\ GoodSlot(slot')
  BY GoodStep DEF NodeTypeOK, TypeOK
<1>2. ASSUME op' = "bootstrap" PROVE slot'.unit # "none"
  <2>1. CASE Begins
    <3>1. CanBootstrap(slot) /\ slot' = Older(slot)
      BY <1>2, <2>1 DEF Begins, BeginsInstall, BeginsUninstall, BeginsBootstrap, BeginsUpgrade
    <3> QED
      BY <1>1, <3>1, OlderFacts DEF CanBootstrap, Aged
  <2>2. CASE Runs
    <3>1. op = "bootstrap" /\ slot' = Done(Com, slot) /\ todo # <<>>
      BY <1>2, <2>2 DEF Runs
    <3>2. Com \notin Changing
      BY <3>1, HeadFacts DEF BootInv
    <3> QED
      BY <1>1, <3>1, <3>2, DoneUnit DEF SlotInv, Changing
  <2> QED
    BY <1>2, <2>1, <2>2 DEF Kinds, Refuses, Finishes, Aborts, RollsBack, Unwinds, Restarts, Idle
<1>3. ASSUME mode = "upgrade"
      PROVE  slot'.unit = "prior" /\ slot'.loaded = "prior" /\ slot'.dir = {"dir", "prior"}
  <2>1. slot.unit = "prior" /\ slot.loaded = "prior" /\ slot.dir = {"dir", "prior"}
    BY <1>3 DEF SlotInv
  <2>2. CASE slot' = slot
    BY <2>1, <2>2
  <2>3. CASE slot' = Older(slot)
    <3>1. Older(slot).dir = {"dir", "prior"}
      BY <1>1, <2>1 DEF Older, SlotState
    <3> QED
      BY <1>1, <2>1, <2>3, <3>1, OlderFacts DEF Aged
  <2>4. CASE slot' = Done(Com, slot) /\ op # "idle" /\ todo # <<>>
    <3>1. Com \notin Changing
      BY <1>3, <2>4, HeadFacts DEF FormInv, UpgradeInv
    <3>2. slot'.unit = "prior"
      BY <1>1, <2>1, <2>4, <3>1, DoneUnit DEF Changing
    <3>3. slot'.loaded = "prior"
      BY <1>1, <2>1, <2>4, DoneLoaded
    <3>4. slot'.dir = slot.dir
      BY <1>1, <2>4, <3>1, DoneDir DEF Changing
    <3> QED
      BY <2>1, <3>2, <3>3, <3>4
  <2>5. CASE \E b \in Booted(slot) : slot' \in {b, [b EXCEPT !.proc = "none"]}
    <3>1. PICK b \in Booted(slot) : slot' \in {b, [b EXCEPT !.proc = "none"]}
      BY <2>5
    <3>2. b \in SlotState /\ b.unit = "prior" /\ b.loaded = "prior" /\ b.dir = {"dir", "prior"}
      BY <1>1, <2>1, BootedFacts
    <3> QED
      BY <3>1, <3>2 DEF SlotState
  <2> QED
    BY <2>2, <2>3, <2>4, <2>5, SlotSources
<1> QED
  BY <1>1, <1>2, <1>3 DEF SlotInv, GoodSlot

-------------------------------------------------------------------------------
(* An installation. *)
LEMMA CheckNoProc ==
  ASSUME NEW p, NEW s, CheckOK(p, s)
  PROVE  s.proc = "none"
<1>1. "port" \in Checks(p)
  BY DEF Checks, PgAutoCheck, ExporterCheck, NodeExporterCheck, PrometheusCheck, SlaveCheck,
         PgpoolCheck, DatabaseCheck
<1> QED
  BY <1>1 DEF CheckOK

LEMMA InstallStep ==
  ASSUME NodeTypeOK, InstallInv, Kinds, product' = product
  PROVE  InstallInv'
<1> SUFFICES ASSUME op' = "install"
             PROVE  /\ Free(todo', Removing) /\ Before(todo', "unit", "start")
                    /\ Has(todo', "unit") \/ slot'.unit = "ours"
                    /\ Has(todo', "start") \/ slot'.proc # "none"
                    /\ slot'.proc # "none" => slot'.unit = "ours"
                    /\ Has(todo', "untar") \/ HasProgram(slot')
                    /\ product \notin PgAutoFailover => /\ Has(todo', "enable") \/ slot'.enabled
                                                       /\ ~Has(todo', "create")
  BY DEF InstallInv, Has, Free, Before, HasProgram
<1>1. slot \in SlotState /\ product \in AllProducts
  BY ProductsAssumption DEF NodeTypeOK, TypeOK
<1>2. CASE Begins
  <2>1. todo' = InstallSteps(product) /\ CheckOK(product, slot) /\ slot' = Older(slot)
    BY <1>2 DEF Begins, BeginsInstall, BeginsUninstall, BeginsBootstrap, BeginsUpgrade
  <2>2. slot'.proc = "none"
    BY <1>1, <2>1, CheckNoProc, OlderFacts DEF Aged
  <2>3. /\ Complete(todo')
        /\ product \notin PgAutoFailover => Has(todo', "enable") /\ ~Has(todo', "create")
    BY <1>1, <2>1, InstallComplete
  <2> QED
    BY <2>2, <2>3 DEF Complete, Sound
<1>3. CASE Runs
  <2>1. op = "install" /\ todo # <<>> /\ todo' = Tail(todo) /\ slot' = Done(Com, slot)
    BY <1>3 DEF Runs
  <2>2. /\ Free(todo, Removing) /\ Before(todo, "unit", "start")
        /\ Has(todo, "unit") \/ slot.unit = "ours"
        /\ Has(todo, "start") \/ slot.proc # "none"
        /\ slot.proc # "none" => slot.unit = "ours"
        /\ Has(todo, "untar") \/ HasProgram(slot)
        /\ product \notin PgAutoFailover => /\ Has(todo, "enable") \/ slot.enabled
                                           /\ ~Has(todo, "create")
    BY <2>1 DEF InstallInv
  <2>3. Com \notin Removing /\ Free(todo', Removing) /\ Before(todo', "unit", "start")
    BY <2>1, <2>2, HeadFacts
  <2>4. Has(todo', "unit") \/ slot'.unit = "ours"
    BY <1>1, <2>1, <2>2, <2>3, HeadFacts, DoneUnit DEF Removing
  <2>5. Has(todo', "start") \/ slot'.proc # "none"
    BY <1>1, <2>1, <2>2, <2>3, HeadFacts, DoneProc DEF Removing
  <2>6. ASSUME slot'.proc # "none" PROVE slot'.unit = "ours"
    <3>1. CASE Com = "start"
      <4>1. ~Has(todo', "unit")
        BY <2>1, <2>2, <3>1, HeadFacts
      <4> QED
        BY <2>4, <4>1
    <3>2. CASE Com # "start"
      <4>1. slot'.proc = slot.proc
        BY <1>1, <2>1, <2>3, <3>2, DoneProc DEF Removing
      <4>2. slot.unit = "ours"
        BY <2>2, <2>6, <4>1
      <4> QED
        BY <1>1, <2>1, <2>3, <4>2, DoneUnit DEF Removing
    <3> QED
      BY <3>1, <3>2
  <2>7. Has(todo', "untar") \/ HasProgram(slot')
    <3>1. slot.dir \subseteq slot'.dir
      BY <1>1, <2>1, <2>3, DoneDir DEF Removing
    <3>2. Com = "untar" => "ours" \in slot'.dir
      BY <1>1, <2>1, DoneDir
    <3> QED
      BY <2>1, <2>2, <3>1, <3>2, HeadFacts DEF HasProgram
  <2>8. product \notin PgAutoFailover => /\ Has(todo', "enable") \/ slot'.enabled
                                        /\ ~Has(todo', "create")
    BY <1>1, <2>1, <2>2, HeadFacts, DoneEnabled
  <2> QED
    BY <2>3, <2>4, <2>5, <2>6, <2>7, <2>8
<1> QED
  BY <1>2, <1>3 DEF Kinds, Refuses, Finishes, Aborts, RollsBack, Unwinds, Restarts, Idle

LEMMA InstalledStep ==
  ASSUME NodeTypeOK, FormInv, InstallInv, InstalledInv, Kinds, product' = product, mode' = mode
  PROVE  InstalledInv'
<1> SUFFICES ASSUME op' = "idle", last' = "install", result' = "ok"
             PROVE  /\ slot'.unit = "ours"
                    /\ product \notin PgAutoFailover =>
                         slot'.proc # "none" /\ slot'.enabled /\ HasProgram(slot')
  BY DEF InstalledInv, Returned, Idle, HasProgram
<1>1. slot \in SlotState
  BY DEF NodeTypeOK, TypeOK
<1>2. CASE Finishes
  <2>1. op = "install"
    BY <1>2 DEF Finishes, Kept, FormInv, NodeTypeOK, TypeOK
  <2>2. todo = <<>> /\ slot' = slot
    BY <1>2 DEF Finishes
  <2>3. \A c : ~Has(todo, c)
    BY <2>2, EmptyList
  <2> QED
    BY <2>1, <2>2, <2>3 DEF InstallInv
<1>3. CASE Restarts
  <2>1. Returned("install", "ok") /\ mode # "upgrade"
    BY <1>3 DEF Restarts, Kept, Returned, FormInv
  <2>2. slot' \in Booted(slot)
    BY <1>3, <2>1 DEF Restarts
  <2>3. /\ slot'.unit = slot.unit /\ slot'.enabled = slot.enabled /\ slot'.dir = slot.dir
        /\ slot.enabled /\ slot.unit = "ours" /\ HasProgram(slot) => slot'.proc = "ours"
    BY <1>1, <2>2, BootedFacts
  <2> QED
    BY <2>1, <2>3 DEF InstalledInv, HasProgram
<1>4. ~Begins
  BY DEF Begins
<1>5. ~Refuses /\ ~Aborts
  BY DEF Refuses, Aborts
<1>6. CASE Runs \/ RollsBack \/ Unwinds
  BY <1>6 DEF Runs, RollsBack, Unwinds
<1> QED
  BY <1>2, <1>3, <1>4, <1>5, <1>6 DEF Kinds

(* What an announced installation of the databases has made. *)
LEMMA InstalledFacts ==
  ASSUME InstalledInv
  PROVE  InstalledRuns
  BY DEF InstalledInv, InstalledRuns

-------------------------------------------------------------------------------
(* A rollback. *)
LEMMA RollbackStep ==
  ASSUME NodeTypeOK, SlotInv, InstallInv, RollbackInv, Kinds, product' = product
  PROVE  RollbackInv'
<1> SUFFICES ASSUME op' = "rollback"
             PROVE  /\ Free(todo', Building)
                    /\ Before(todo', "stop", "rmunit") /\ Before(todo', "stop", "mvunit")
                    /\ clean' /\ slot'.dir # {} => Has(todo', "rmdir") \/ Has(todo', "mvdir")
                    /\ clean' /\ product # "mariadb slave, data" =>
                         /\ slot'.proc # "none" => slot'.unit # "none" /\ Has(todo', "stop")
                         /\ slot'.unit # "none" => Has(todo', "rmunit") \/ Has(todo', "mvunit")
  BY DEF RollbackInv, Has, Free, Before
<1>1. slot \in SlotState
  BY DEF NodeTypeOK, TypeOK
<1>2. CASE RollsBack
  <2>1. op = "install" /\ todo # <<>> /\ todo' = RollbackSteps(product, Com)
        /\ slot' \in {slot, Done(Com, slot)}
    BY <1>2 DEF RollsBack
  <2>2. Clears(todo') /\ (product # "mariadb slave, data" => Removes(todo'))
    BY <2>1, RollbackRemoves, RollbackClears
  <2>3. ASSUME slot'.proc # "none" PROVE slot'.unit # "none"
    <3>1. /\ Free(todo, Removing) /\ Before(todo, "unit", "start")
          /\ Has(todo, "unit") \/ slot.unit = "ours"
          /\ slot.proc # "none" => slot.unit = "ours"
      BY <2>1 DEF InstallInv
    <3>2. Com \notin Removing
      BY <2>1, <3>1, HeadFacts
    <3>3. CASE slot' = slot
      BY <2>3, <3>1, <3>3
    <3>4. CASE slot' = Done(Com, slot) /\ Com = "start"
      <4>1. slot.unit = "ours"
        BY <2>1, <3>1, <3>4, HeadFacts
      <4> QED
        BY <1>1, <3>4, <4>1, DoneUnit
    <3>5. CASE slot' = Done(Com, slot) /\ Com # "start"
      <4>1. slot.unit = "ours"
        BY <1>1, <2>3, <3>1, <3>2, <3>5, DoneProc DEF Removing
      <4> QED
        BY <1>1, <3>2, <3>5, <4>1, DoneUnit DEF Removing
    <3> QED
      BY <2>1, <3>3, <3>4, <3>5
  <2> QED
    BY <2>2, <2>3 DEF Removes, Clears
<1>3. CASE Runs
  <2>1. op = "rollback" /\ todo # <<>> /\ todo' = Tail(todo)
    BY <1>3 DEF Runs
  <2>2. /\ Free(todo, Building) /\ Before(todo, "stop", "rmunit") /\ Before(todo, "stop", "mvunit")
        /\ clean /\ slot.dir # {} => Has(todo, "rmdir") \/ Has(todo, "mvdir")
        /\ clean /\ product # "mariadb slave, data"
             => /\ slot.proc # "none" => slot.unit # "none" /\ Has(todo, "stop")
                /\ slot.unit # "none" => Has(todo, "rmunit") \/ Has(todo, "mvunit")
    BY <2>1 DEF RollbackInv
  <2>3. /\ Com \notin Building /\ Free(todo', Building)
        /\ Before(todo', "stop", "rmunit") /\ Before(todo', "stop", "mvunit")
    BY <2>1, <2>2, HeadFacts
  <2>4. ASSUME clean'
        PROVE  /\ product # "mariadb slave, data" =>
                    /\ slot'.proc # "none" => slot'.unit # "none" /\ Has(todo', "stop")
                    /\ slot'.unit # "none" => Has(todo', "rmunit") \/ Has(todo', "mvunit")
               /\ slot'.dir # {} => Has(todo', "rmdir") \/ Has(todo', "mvdir")
    <3>1. slot' = Done(Com, slot) /\ clean
      BY <1>3, <2>4 DEF Runs
    <3>2. ASSUME product # "mariadb slave, data", slot'.proc # "none"
          PROVE  slot'.unit # "none" /\ Has(todo', "stop")
      <4>1. Com # "start"
        BY <2>3 DEF Building
      <4>2. slot.proc # "none"
        BY <1>1, <3>1, <3>2, <4>1, DoneProc
      <4>3. slot.unit # "none" /\ Has(todo, "stop")
        BY <2>2, <3>1, <3>2, <4>2
      <4>4. Com # "stop"
        BY <1>1, <3>1, <3>2, <4>3, DoneProc
      <4>5. Com # "rmunit" /\ Com # "mvunit"
        BY <2>1, <2>2, <4>3, HeadFacts
      <4>6. Com # "unit"
        BY <2>3 DEF Building
      <4> QED
        BY <1>1, <2>1, <3>1, <4>3, <4>4, <4>5, <4>6, HeadFacts, DoneUnit
    <3>3. product # "mariadb slave, data" /\ slot'.unit # "none"
            => Has(todo', "rmunit") \/ Has(todo', "mvunit")
      <4>1. Com # "unit"
        BY <2>3 DEF Building
      <4> QED
        BY <1>1, <2>1, <2>2, <3>1, <4>1, HeadFacts, DoneUnit
    <3>4. ASSUME slot'.dir # {} PROVE Has(todo', "rmdir") \/ Has(todo', "mvdir")
      <4>1. Com \notin Writing
        BY <2>3 DEF Building
      <4>2. CASE Com \in {"rmdir", "mvdir"}
        <5>1. slot.dir # {} => "dir" \in slot.dir
          BY DEF SlotInv
        <5> QED
          BY <1>1, <3>1, <3>4, <4>2, <5>1, DoneDir
      <4>3. CASE Com \notin {"rmdir", "mvdir"}
        <5>1. slot.dir # {}
          BY <1>1, <3>1, <3>4, <4>1, <4>3, DoneDir
        <5> QED
          BY <2>1, <2>2, <3>1, <4>3, <5>1, HeadFacts
      <4> QED
        BY <4>2, <4>3
    <3> QED
      BY <3>2, <3>3, <3>4
  <2> QED
    BY <2>3, <2>4
<1> QED
  BY <1>2, <1>3
     DEF Kinds, Begins, BeginsInstall, BeginsUninstall, BeginsBootstrap, BeginsUpgrade, Refuses,
         Finishes, Aborts, Unwinds, Restarts, Idle

(* Nothing but "create", which only pg_auto_failover's installations have,     *)
(* makes a state file.                                                         *)
LEMMA NoCreate ==
  ASSUME NodeTypeOK, InstallInv, RollbackInv, UninstallInv, BootInv, UpgradeInv,
         op # "idle", todo # <<>>, product \notin PgAutoFailover \/ op # "install"
  PROVE  Com # "create"
<1>1. CASE op = "install"
  BY <1>1, HeadFacts DEF InstallInv
<1>2. CASE op \in {"rollback", "uninstall"}
  BY <1>2, HeadFacts DEF RollbackInv, UninstallInv, Building, Writing
<1>3. CASE op \in {"bootstrap", "unwind", "upgrade", "upconfig"}
  BY <1>3, HeadFacts DEF BootInv, UpgradeInv, Changing, Writing
<1> QED
  BY <1>1, <1>2, <1>3 DEF NodeTypeOK, TypeOK

LEMMA AutoKept ==
  ASSUME NodeTypeOK, InstallInv, RollbackInv, UninstallInv, BootInv, UpgradeInv, Kinds,
         product \notin PgAutoFailover \/ op # "install", slot'.auto
  PROVE  slot.auto
<1>1. slot \in SlotState
  BY DEF NodeTypeOK, TypeOK
<1>2. CASE slot' = slot
  BY <1>2
<1>3. CASE slot' = Older(slot)
  BY <1>1, <1>3, OlderFacts
<1>4. CASE slot' = Done(Com, slot) /\ op # "idle" /\ todo # <<>>
  BY <1>1, <1>4, NoCreate, DoneAuto
<1>5. CASE \E b \in Booted(slot) : slot' \in {b, [b EXCEPT !.proc = "none"]}
  <2>1. PICK b \in Booted(slot) : slot' \in {b, [b EXCEPT !.proc = "none"]}
    BY <1>5
  <2>2. b \in SlotState /\ b.auto = slot.auto
    BY <1>1, BootedFacts
  <2>3. slot'.auto = b.auto
    BY <2>1, <2>2 DEF SlotState
  <2> QED
    BY <2>2, <2>3
<1> QED
  BY <1>2, <1>3, <1>4, <1>5, SlotSources

LEMMA AutoStep ==
  ASSUME NodeTypeOK, InstallInv, RollbackInv, UninstallInv, BootInv, UpgradeInv, AutoInv, Kinds,
         product' = product
  PROVE  AutoInv'
<1>1. product \notin PgAutoFailover => ~slot'.auto
  BY AutoKept DEF AutoInv
<1>2. ASSUME op' = "rollback", clean', product \in {"pgdata", "pgdata member"}, slot'.auto
      PROVE  Has(todo', "drop")
  <2>1. slot \in SlotState
    BY DEF NodeTypeOK, TypeOK
  <2>2. CASE RollsBack
    BY <1>2, <2>2, RollbackDrops DEF RollsBack
  <2>3. CASE Runs
    <3>1. op = "rollback" /\ todo # <<>> /\ todo' = Tail(todo) /\ clean /\ slot' = Done(Com, slot)
      BY <1>2, <2>3 DEF Runs, NodeTypeOK, TypeOK
    <3>2. slot.auto
      BY <1>2, <3>1, AutoKept
    <3>3. Has(todo, "drop")
      BY <1>2, <3>1, <3>2 DEF AutoInv
    <3>4. Com # "drop"
      BY <1>2, <2>1, <3>1, DoneAuto
    <3> QED
      BY <3>1, <3>3, <3>4, HeadFacts
  <2> QED
    BY <1>2, <2>2, <2>3
       DEF Kinds, Begins, BeginsInstall, BeginsUninstall, BeginsBootstrap, BeginsUpgrade,
           Refuses, Finishes, Aborts, Unwinds, Restarts, Idle
<1> QED
  BY <1>1, <1>2 DEF AutoInv, Has

LEMMA FreesStep ==
  ASSUME NodeTypeOK, FormInv, RollbackInv, AutoInv, RollbackFrees, Kinds,
         product' = product, mode' = mode
  PROVE  RollbackFrees'
<1> SUFFICES ASSUME op' = "idle", last' = "install", result' = "undone", clean'
             PROVE  /\ slot'.dir = {}
                    /\ product # "mariadb slave, data"
                         => slot'.proc = "none" /\ slot'.unit = "none"
                    /\ product # "monitor" => ~slot'.auto
  BY DEF RollbackFrees, Returned, Idle
<1>1. slot \in SlotState
  BY DEF NodeTypeOK, TypeOK
<1>2. CASE Finishes
  <2>1. op = "rollback" /\ clean /\ todo = <<>> /\ slot' = slot
    BY <1>2 DEF Finishes, NodeTypeOK, TypeOK
  <2>2. \A c : ~Has(todo, c)
    BY <2>1, EmptyList
  <2>3. product # "monitor" => ~slot.auto
    BY <2>1, <2>2 DEF AutoInv, PgAutoFailover
  <2> QED
    BY <2>1, <2>2, <2>3 DEF RollbackInv
<1>3. CASE Restarts
  <2>1. Returned("install", "undone") /\ clean /\ mode # "upgrade"
    BY <1>3 DEF Restarts, Kept, Returned, FormInv
  <2>2. slot' \in Booted(slot)
    BY <1>3, <2>1 DEF Restarts
  <2>3. /\ slot.dir = {}
        /\ product # "mariadb slave, data" => slot.proc = "none" /\ slot.unit = "none"
        /\ product # "monitor" => ~slot.auto
    BY <2>1 DEF RollbackFrees
  <2>4. slot'.dir = slot.dir /\ slot'.unit = slot.unit /\ slot'.auto = slot.auto
    BY <1>1, <2>2, BootedFacts
  <2>5. slot.unit = "none" => slot'.proc = "none"
    BY <1>1, <2>2, BootedFacts
  <2> QED
    BY <2>3, <2>4, <2>5
<1>4. ~Begins /\ ~Refuses /\ ~Aborts
  BY DEF Begins, Refuses, Aborts
<1>5. ~Runs /\ ~RollsBack /\ ~Unwinds
  BY DEF Runs, RollsBack, Unwinds
<1> QED
  BY <1>2, <1>3, <1>4, <1>5 DEF Kinds

-------------------------------------------------------------------------------
(* A removal. *)
LEMMA OlderInst ==
  ASSUME NEW s \in SlotState
  PROVE  Inst(Older(s)) = Inst(s)
  BY OlderFacts DEF Inst, Aged

(* The slot a removal leaves, whether its next command worked or not. *)
LEMMA RemovedSlot ==
  ASSUME NodeTypeOK, UninstallInv, op = "uninstall",
         slot' = slot \/ (todo # <<>> /\ slot' = Done(Com, slot))
  PROVE  /\ IF Inst(before) = "orphan"
              THEN slot'.proc # "none" /\ slot'.unit = "none"
              ELSE slot'.unit = "none" => slot'.proc = "none"
         /\ before.proc = "none" => slot'.proc = "none"
         /\ Inst(before) = "free" => slot'.unit = "none" /\ slot'.dir \subseteq {"dir"}
<1>1. slot \in SlotState
  BY DEF NodeTypeOK, TypeOK
<1>2. CASE slot' = slot
  BY <1>2 DEF UninstallInv
<1>3. CASE todo # <<>> /\ slot' = Done(Com, slot)
  <2>1. /\ Com \notin Building /\ Com \notin {"rmunit", "rmdir"}
        /\ Com = "mvunit" => ~Has(todo, "stop")
    BY <1>3, HeadFacts DEF UninstallInv
  <2>2. slot'.unit = IF Com = "mvunit" THEN "none" ELSE slot.unit
    BY <1>1, <1>3, <2>1, DoneUnit DEF Building
  <2>3. slot'.proc = IF Com = "stop" /\ slot.unit # "none" THEN "none" ELSE slot.proc
    BY <1>1, <1>3, <2>1, DoneProc DEF Building
  <2>4. slot.dir \subseteq {"dir"} => slot'.dir \subseteq {"dir"}
    BY <1>1, <1>3, <2>1, DoneDir DEF Building
  <2> QED
    BY <2>1, <2>2, <2>3, <2>4 DEF UninstallInv
<1> QED
  BY <1>2, <1>3

LEMMA UninstallStep ==
  ASSUME NodeTypeOK, SlotInv, UninstallInv, Kinds, product' = product
  PROVE  UninstallInv'
<1> SUFFICES ASSUME op' = "uninstall"
             PROVE  /\ Free(todo', Building) /\ Free(todo', {"rmunit", "rmdir"})
                    /\ product \notin PgAutoFailover => ~Has(todo', "drop")
                    /\ Before(todo', "stop", "mvunit") /\ Before(todo', "mvunit", "reload")
                    /\ IF Inst(before') = "orphan"
                         THEN slot'.proc # "none" /\ slot'.unit = "none"
                         ELSE /\ Has(todo', "stop") \/ slot'.proc = "none"
                              /\ slot'.unit = "none" => slot'.proc = "none"
                    /\ before'.proc = "none" => slot'.proc = "none"
                    /\ Has(todo', "mvunit") \/ slot'.unit = "none"
                    /\ Has(todo', "mvdir") \/ slot'.dir = {}
                    /\ Inst(before') = "free" => slot'.unit = "none" /\ slot'.dir \subseteq {"dir"}
                    /\ product = "galera" => Has(todo', "reload") \/ slot'.seed = {}
  BY DEF UninstallInv, Has, Free, Before, Inst
<1>1. slot \in SlotState
  BY DEF NodeTypeOK, TypeOK
<1>2. CASE Begins
  <2>1. todo' = UninstallSteps(product) /\ slot' = Older(slot) /\ before' = slot'
    BY <1>2 DEF Begins, BeginsInstall, BeginsUninstall, BeginsBootstrap, BeginsUpgrade
  <2>2. /\ Removes(todo') /\ Free(todo', {"rmunit", "rmdir"}) /\ Before(todo', "mvunit", "reload")
        /\ Has(todo', "mvunit") /\ Has(todo', "reload") /\ Has(todo', "mvdir")
    BY <2>1, UninstallRemoves
  <2>5. product \notin PgAutoFailover => ~Has(todo', "drop")
    BY <2>1, UninstallKeeps
  <2>3. Inst(before') = "orphan" <=> slot'.proc # "none" /\ slot'.unit = "none"
    BY <2>1 DEF Inst
  <2>4. Inst(before') = "free" => slot'.unit = "none" /\ slot'.dir \subseteq {"dir"}
    BY <2>1 DEF Inst
  <2> QED
    BY <2>1, <2>2, <2>3, <2>4, <2>5 DEF Removes
<1>3. CASE Runs
  <2>1. /\ op = "uninstall" /\ todo # <<>> /\ todo' = Tail(todo) /\ before' = before
        /\ \/ slot' = Done(Com, slot)
           \/ slot' = slot /\ Com \in IgnoredInUninstall(product)
    BY <1>3 DEF Runs, Kept
  <2>2. /\ Free(todo, Building) /\ Free(todo, {"rmunit", "rmdir"})
        /\ product \notin PgAutoFailover => ~Has(todo, "drop")
        /\ Before(todo, "stop", "mvunit") /\ Before(todo, "mvunit", "reload")
        /\ IF Inst(before) = "orphan"
             THEN slot.proc # "none" /\ slot.unit = "none"
             ELSE /\ Has(todo, "stop") \/ slot.proc = "none"
                  /\ slot.unit = "none" => slot.proc = "none"
        /\ before.proc = "none" => slot.proc = "none"
        /\ Has(todo, "mvunit") \/ slot.unit = "none"
        /\ Has(todo, "mvdir") \/ slot.dir = {}
        /\ Inst(before) = "free" => slot.unit = "none" /\ slot.dir \subseteq {"dir"}
        /\ product = "galera" => Has(todo, "reload") \/ slot.seed = {}
    BY <2>1 DEF UninstallInv
  <2>3. /\ Com \notin Building /\ Free(todo', Building) /\ Com \notin {"rmunit", "rmdir"}
        /\ Free(todo', {"rmunit", "rmdir"})
        /\ product \notin PgAutoFailover => ~Has(todo', "drop")
        /\ Before(todo', "stop", "mvunit") /\ Before(todo', "mvunit", "reload")
    BY <2>1, <2>2, HeadFacts
  <2>4. IgnoredInUninstall(product) \subseteq {"reload", "drop"} /\ IgnoredInUninstall("galera") = {}
    BY DEF IgnoredInUninstall, PgAutoFailover
  <2>5. \A c : Has(todo, c) => c = Com \/ Has(todo', c)
    BY <2>1, HeadFacts
  <2>6. slot'.unit = IF Com = "mvunit" THEN "none" ELSE slot.unit
    <3>1. Com # "unit"
      BY <2>3 DEF Building
    <3> QED
      BY <1>1, <2>1, <2>3, <2>4, <3>1, DoneUnit
  <2>7. slot'.proc = IF Com = "stop" /\ slot.unit # "none" THEN "none" ELSE slot.proc
    <3>1. Com # "start"
      BY <2>3 DEF Building
    <3> QED
      BY <1>1, <2>1, <2>4, <3>1, DoneProc
  <2>8. /\ IF Inst(before') = "orphan"
             THEN slot'.proc # "none" /\ slot'.unit = "none"
             ELSE slot'.unit = "none" => slot'.proc = "none"
        /\ before'.proc = "none" => slot'.proc = "none"
        /\ Inst(before') = "free" => slot'.unit = "none" /\ slot'.dir \subseteq {"dir"}
    BY <2>1, RemovedSlot
  <2>9. Inst(before') # "orphan" => Has(todo', "stop") \/ slot'.proc = "none"
    <3>1. Com = "stop" => slot'.proc = "none" \/ slot.unit = "none"
      BY <2>7
    <3> QED
      BY <2>1, <2>2, <2>5, <2>7, <3>1
  <2>10. Has(todo', "mvunit") \/ slot'.unit = "none"
    BY <2>2, <2>5, <2>6
  <2>11. Com \notin Writing
    BY <2>3 DEF Building
  <2>12. Has(todo', "mvdir") \/ slot'.dir = {}
    <3>1. slot.dir # {} => "dir" \in slot.dir
      BY DEF SlotInv
    <3>2. CASE Com = "mvdir"
      BY <1>1, <2>1, <2>4, <3>1, <3>2, DoneDir
    <3>3. CASE Com # "mvdir"
      <4>1. slot.dir = {} => slot'.dir = {}
        BY <1>1, <2>1, <2>3, <2>11, <3>3, DoneDir
      <4> QED
        BY <2>2, <2>5, <3>3, <4>1
    <3> QED
      BY <3>2, <3>3
  <2>13. ASSUME product = "galera" PROVE Has(todo', "reload") \/ slot'.seed = {}
    <3>1. slot' = Done(Com, slot)
      BY <2>1, <2>4, <2>13
    <3>2. CASE Com = "reload"
      <4>1. slot.unit = "none"
        BY <2>1, <2>2, <3>2, HeadFacts
      <4>2. "disk" \notin slot.seed
        BY <4>1 DEF SlotInv
      <4> QED
        BY <1>1, <3>1, <3>2, <4>2, DoneSeed
    <3>3. CASE Com # "reload"
      <4>1. Com \notin {"unit", "seed"}
        BY <2>3 DEF Building
      <4>2. slot.seed = {} => slot'.seed = {}
        BY <1>1, <3>1, <3>3, <4>1, DoneSeed
      <4> QED
        BY <2>2, <2>5, <2>13, <3>3, <4>2
    <3> QED
      BY <3>2, <3>3
  <2> QED
    BY <2>3, <2>8, <2>9, <2>10, <2>12, <2>13
<1> QED
  BY <1>2, <1>3 DEF Kinds, Refuses, Finishes, Aborts, RollsBack, Unwinds, Restarts, Idle

-------------------------------------------------------------------------------
(* galera-start, and the flag that makes a node found a new cluster. *)
LEMMA BootStep ==
  ASSUME NodeTypeOK, BootInv, Kinds, product' = product
  PROVE  BootInv'
<1> SUFFICES ASSUME op' \in {"bootstrap", "unwind"}
             PROVE  Free(todo', Changing) /\ (op' = "unwind" => ~Has(todo', "seed"))
  BY DEF BootInv, Has, Free
<1>1. CASE Begins
  <2>1. todo' = BootstrapSteps /\ op' = "bootstrap"
    BY <1>1 DEF Begins, BeginsInstall, BeginsUninstall, BeginsBootstrap, BeginsUpgrade
  <2> QED
    BY <2>1, BootstrapList
<1>2. CASE Runs
  <2>1. op' = op /\ todo # <<>> /\ todo' = Tail(todo)
    BY <1>2 DEF Runs
  <2> QED
    BY <2>1, HeadFacts DEF BootInv
<1>3. CASE Unwinds
  BY <1>3, UnwindList DEF Unwinds
<1> QED
  BY <1>1, <1>2, <1>3 DEF Kinds, Refuses, Finishes, Aborts, RollsBack, Restarts, Idle

LEMMA TailLast ==
  ASSUME NEW s \in Seq(Commands), EndsInReload(s)
  PROVE  IF Tail(s) = <<>> THEN Head(s) = "reload" ELSE EndsInReload(Tail(s))
<1>1. s # <<>> /\ s[Len(s)] = "reload"
  BY DEF EndsInReload
<1>2. /\ Tail(s) \in Seq(Commands) /\ Len(Tail(s)) = Len(s) - 1 /\ Len(s) \in Nat \ {0}
      /\ Head(s) = s[1]
      /\ \A i \in 1..Len(Tail(s)) : Tail(s)[i] = s[i+1]
  BY <1>1, HeadTailProperties, EmptySeq, LenProperties
<1>3. CASE Tail(s) = <<>>
  <2>1. Len(s) = 1
    <3>1. \A t \in Seq(Commands) : t = <<>> => Len(t) = 0
      BY EmptySeq
    <3>2. Tail(s) \in Seq(Commands) /\ Len(s) \in Nat \ {0} /\ Len(Tail(s)) = Len(s) - 1
      BY <1>2
    <3>3. \A n \in Nat \ {0} : n - 1 = 0 => n = 1
      OBVIOUS
    <3>4. Len(s) - 1 = 0
      BY <1>3, <3>1, <3>2
    <3> QED
      BY <3>2, <3>3, <3>4
  <2> QED
    BY <1>1, <1>2, <1>3, <2>1
<1>4. CASE Tail(s) # <<>>
  <2>1. Len(Tail(s)) \in Nat \ {0}
    BY <1>2, <1>4, EmptySeq, LenProperties
  <2>2. Tail(s)[Len(Tail(s))] = s[Len(s)]
    BY <1>2, <2>1
  <2> QED
    BY <1>1, <1>4, <2>2 DEF EndsInReload
<1> QED
  BY <1>3, <1>4

(* The flag comes with the unit, or with "seed", and "unseed" comes after both. *)
LEMMA SeedStep ==
  ASSUME NodeTypeOK, SeedInv, Kinds, product' = product
  PROVE  SeedInv'
<1> SUFFICES ASSUME product = "galera", op' \in {"install", "bootstrap"}
             PROVE  /\ ("disk" \in slot'.seed \/ Has(todo', "seed") \/ Has(todo', "unit"))
                         => Has(todo', "unseed")
                    /\ Before(todo', "unit", "unseed") /\ Before(todo', "seed", "unseed")
                    /\ IF todo' = <<>> THEN slot'.seed = {} ELSE EndsInReload(todo')
  BY DEF SeedInv, Has, Before, EndsInReload
<1>1. slot \in SlotState /\ todo \in Seq(Commands)
  BY DEF NodeTypeOK, TypeOK
<1>2. CASE Begins /\ op' = "install"
  <2>1. todo' = InstallSteps("galera")
    BY <1>2 DEF Begins, BeginsInstall, BeginsUninstall, BeginsBootstrap, BeginsUpgrade
  <2>2. Complete(todo')
    BY <2>1, InstallComplete DEF AllProducts
  <2>3. ~Has(todo', "seed")
    BY <2>2, FreeHas DEF Complete, Sound, Removing
  <2>4. Before(todo', "seed", "unseed")
    BY <2>3 DEF Before, Has
  <2> QED
    BY <2>1, <2>4, GaleraSeed DEF EndsInReload
<1>3. CASE Begins /\ op' = "bootstrap"
  <2>1. todo' = BootstrapSteps
    BY <1>3 DEF Begins, BeginsInstall, BeginsUninstall, BeginsBootstrap, BeginsUpgrade
  <2> QED
    BY <2>1, BootstrapList DEF EndsInReload
<1>4. CASE Runs
  <2>1. op \in {"install", "bootstrap"} /\ todo # <<>> /\ todo' = Tail(todo)
        /\ slot' = Done(Com, slot)
    BY <1>4 DEF Runs
  <2>2. /\ "disk" \in slot.seed \/ Has(todo, "seed") \/ Has(todo, "unit") => Has(todo, "unseed")
        /\ Before(todo, "unit", "unseed") /\ Before(todo, "seed", "unseed")
        /\ EndsInReload(todo)
    BY <2>1 DEF SeedInv
  <2>3. /\ \A c : Has(todo, c) <=> (c = Com \/ Has(todo', c))
        /\ Before(todo', "unit", "unseed") /\ Before(todo', "seed", "unseed")
        /\ Com = "unseed" => ~Has(todo', "unit") /\ ~Has(todo', "seed")
    BY <2>1, <2>2, HeadFacts
  <2>4. "disk" \in slot'.seed => /\ "disk" \in slot.seed \/ Com \in {"unit", "seed"}
                                 /\ Com # "unseed"
    <3>1. CASE Com \in {"unit", "seed"}
      BY <3>1
    <3>2. CASE Com \in {"unseed", "reload"}
      <4>1. ASSUME Com = "unseed" PROVE slot'.seed = slot.seed \ {"disk"}
        <5>1. Done("unseed", slot).seed = slot.seed \ {"disk"}
          BY <1>1 DEF Done, Needed, SlotState
        <5> QED
          BY <2>1, <4>1, <5>1
      <4>2. Com = "reload" =>
              slot'.seed = IF "disk" \in slot.seed THEN {"disk", "systemd"} ELSE {}
        BY <1>1, <2>1, DoneSeed
      <4> QED
        BY <3>2, <4>1, <4>2
    <3>4. CASE Com \in {"rmunit", "mvunit"}
      <4>1. Com \notin {"unit", "seed", "unseed", "reload"}
        BY <3>4
      <4>2. slot'.seed = IF slot.unit = "none" THEN slot.seed ELSE slot.seed \ {"disk"}
        BY <1>1, <2>1, <3>4, <4>1, DoneSeed
      <4> QED
        BY <4>1, <4>2
    <3>3. CASE Com \notin {"unit", "seed", "unseed", "reload", "rmunit", "mvunit"}
      BY <1>1, <2>1, <3>3, DoneSeed
    <3> QED
      BY <3>1, <3>2, <3>3, <3>4
  <2>5. "disk" \in slot'.seed \/ Has(todo', "seed") \/ Has(todo', "unit") => Has(todo', "unseed")
    BY <2>2, <2>3, <2>4
  <2>6. IF todo' = <<>> THEN slot'.seed = {} ELSE EndsInReload(todo')
    <3>1. CASE todo' = <<>>
      <4>1. Com = "reload" /\ ~Has(todo', "unseed")
        BY <1>1, <2>1, <2>2, <3>1, TailLast, EmptyList DEF Com
      <4>2. "disk" \notin slot.seed
        BY <2>2, <2>3, <4>1
      <4>3. slot'.seed = {}
        BY <1>1, <2>1, <4>1, <4>2, DoneSeed
      <4> QED
        BY <3>1, <4>3
    <3>2. CASE todo' # <<>>
      BY <1>1, <2>1, <2>2, <3>2, TailLast
    <3> QED
      BY <3>1, <3>2
  <2> QED
    BY <2>3, <2>5, <2>6
<1> QED
  BY <1>2, <1>3, <1>4 DEF Kinds, Begins, BeginsInstall, BeginsUninstall, BeginsBootstrap,
     BeginsUpgrade, Refuses, Finishes, Aborts, RollsBack, Unwinds, Restarts, Idle

(* What is announced leaves no flag behind, and a restart brings none. *)
LEMMA NoSeedStep ==
  ASSUME NodeTypeOK, FormInv, SlotInv, UninstallInv, SeedInv, NoSecondBootstrap, Kinds,
         product' = product, mode' = mode
  PROVE  NoSecondBootstrap'
<1> SUFFICES ASSUME op' = "idle", result' = "ok" PROVE slot'.seed = {}
  BY DEF NoSecondBootstrap, Idle
<1>1. slot \in SlotState /\ mode \in {"install", "upgrade"}
  BY DEF NodeTypeOK, TypeOK
<1>2. CASE Finishes
  <2>1. todo = <<>> /\ slot' = slot /\ op \in {"install", "uninstall", "bootstrap",
                                               "upgrade", "upconfig"}
    BY <1>2 DEF Finishes, NodeTypeOK, TypeOK
  <2>2. CASE product # "galera"
    BY <2>1, <2>2 DEF SlotInv
  <2>3. CASE product = "galera" /\ op \in {"install", "bootstrap"}
    BY <2>1, <2>3 DEF SeedInv
  <2>4. CASE product = "galera" /\ op = "uninstall"
    BY <2>1, <2>4, EmptyList DEF UninstallInv
  <2>5. CASE product = "galera" /\ op \in {"upgrade", "upconfig"}
    BY <1>1, <2>5 DEF FormInv
  <2> QED
    BY <2>1, <2>2, <2>3, <2>4, <2>5
<1>3. CASE Restarts
  <2>1. slot.seed = {}
    BY <1>3 DEF Restarts, NoSecondBootstrap
  <2>2. PICK b \in Booted(slot) :
          slot' = b \/ (mode = "upgrade" /\ slot' = [b EXCEPT !.proc = "none"])
    BY <1>3 DEF Restarts
  <2>3. b \in SlotState /\ b.seed = {}
    BY <1>1, <2>1, BootedFacts
  <2> QED
    BY <2>2, <2>3 DEF SlotState
<1>4. ~Begins /\ ~Refuses /\ ~Aborts
  BY DEF Begins, Refuses, Aborts
<1>5. ~Runs /\ ~RollsBack /\ ~Unwinds
  BY DEF Runs, RollsBack, Unwinds, Idle
<1> QED
  BY <1>2, <1>3, <1>4, <1>5 DEF Kinds

-------------------------------------------------------------------------------
(* An upgrade. *)
LEMMA UpgradingMode ==
  ASSUME NodeTypeOK, FormInv, NodeNext
  PROVE  op \in {"upgrade", "upconfig"} \/ op' \in {"upgrade", "upconfig"}
           => mode = "upgrade" /\ UpNext /\ product \in {"redis", "pgsql", "mariadb"}
<1>1. FormInv'
  BY StepKind, FormStep
<1>2. mode' = mode /\ mode \in {"install", "upgrade"}
  BY DEF NodeTypeOK, NodeNext
<1> QED
  BY <1>1, <1>2 DEF FormInv, NodeNext

LEMMA PartWords ==
  ASSUME product \in {"redis", "pgsql", "mariadb"}, NEW p \in Part(product)
  PROVE  /\ Aside[p] # Take[p]
         /\ \A q \in Part(product) : Aside[q] = Aside[p] <=> q = p
         /\ \A q \in Part(product) : Take[q] = Take[p] <=> q = p
  BY DEF Part, Aside, Take

(* What an exchange makes of one directory. *)
LEMMA ExchangePart ==
  ASSUME NodeTypeOK, NEW c, Exchange(c), product \in {"redis", "pgsql", "mariadb"},
         NEW p \in Part(product)
  PROVE  /\ part'[p] = IF c = Aside[p] THEN "none" ELSE IF c = Take[p] THEN "new" ELSE part[p]
         /\ c = Aside[p] => IF nobak THEN p \in deleted' ELSE part[p] = "old" => p \in kept'
         /\ kept \subseteq kept' /\ deleted \subseteq deleted'
<1>1. DOMAIN part = Part(product)
  BY DEF NodeTypeOK
<1>2. p \in PartOf(c, Aside) <=> c = Aside[p]
  BY DEF PartOf
<1> QED
  BY <1>1, <1>2 DEF Exchange, MovedAside

(* A directory is only replaced after it was moved aside or deleted. *)
LEMMA TakenAfterAside ==
  ASSUME NodeTypeOK, UpgradeInv, Upgrading, todo # <<>>, NEW p \in Part(product),
         Com \in {Aside[p], Take[p]}
  PROVE  op = "upgrade" /\ (Com = Take[p] => p \in kept \cup deleted)
<1>1. Has(todo, Com)
  BY HeadFacts
<1>2. op = "upgrade"
  BY <1>1 DEF Upgrading, UpgradeInv
<1>3. ASSUME Com = Take[p] PROVE p \in kept \cup deleted
  <2>1. Before(todo, Aside[p], Take[p]) /\ (Has(todo, Aside[p]) \/ p \in kept \cup deleted)
    BY <1>2 DEF UpgradeInv
  <2>2. ~Has(todo, Aside[p])
    BY <1>3, <2>1, HeadFacts
  <2> QED
    BY <2>1, <2>2
<1> QED
  BY <1>2, <1>3

LEMMA ExchangeKeeps ==
  ASSUME NodeTypeOK, UpgradeInv, OldProgramKept, Upgrading, todo # <<>>,
         product \in {"redis", "pgsql", "mariadb"}, product' = product,
         Exchange(Com) \/ Half(Com)
  PROVE  OldProgramKept'
<1> SUFFICES ASSUME NEW p \in Part(product)
             PROVE  part'[p] = "old" \/ p \in kept' \/ p \in deleted'
  BY DEF OldProgramKept, Part
<1>1. part[p] = "old" \/ p \in kept \/ p \in deleted
  BY DEF OldProgramKept
<1>2. Com = Take[p] => p \in kept \cup deleted
  BY TakenAfterAside
<1>3. CASE Exchange(Com)
  BY <1>1, <1>2, <1>3, ExchangePart
<1>4. CASE Half(Com)
  <2>1. DOMAIN part = Part(product)
    BY DEF NodeTypeOK
  <2>2. kept' = kept /\ deleted \subseteq deleted'
    BY <1>4 DEF Half
  <2>3. CASE Com = Take[p]
    BY <1>2, <2>2, <2>3
  <2>4. CASE nobak /\ Com = Aside[p]
    BY <1>4, <2>4 DEF Half, PartOf
  <2>5. CASE Com # Take[p] /\ ~(nobak /\ Com = Aside[p])
    <3>1. part'[p] = part[p]
      BY <1>4, <2>1, <2>5 DEF Half, PartOf
    <3> QED
      BY <1>1, <2>2, <3>1
  <2> QED
    BY <2>3, <2>4, <2>5
<1> QED
  BY <1>3, <1>4

LEMMA OldProgramStep ==
  ASSUME NodeTypeOK, FormInv, UpgradeInv, OldProgramKept, NodeNext
  PROVE  OldProgramKept'
<1>1. product' = product
  BY StepKind
<1>2. CASE UNCHANGED <<part, kept, deleted>>
  BY <1>1, <1>2 DEF OldProgramKept, Part
<1>3. CASE UpStep \/ UpgradeFails
  <2>1. Upgrading /\ todo # <<>> /\ (Exchange(Com) \/ Half(Com))
    BY <1>3 DEF UpStep, UpgradeFails, Com
  <2>2. product \in {"redis", "pgsql", "mariadb"}
    BY <2>1, UpgradingMode DEF Upgrading
  <2> QED
    BY <1>1, <2>1, <2>2, ExchangeKeeps
<1> QED
  BY <1>2, <1>3 DEF NodeNext, UpNext, BeginUpgrade, RefuseUpgrade, UpReboot, upvars

LEMMA UpgradeStep ==
  ASSUME NodeTypeOK, FormInv, UpgradeInv, OldProgramKept, NodeNext
  PROVE  UpgradeInv'
<1>0. product' = product
  BY StepKind
<1> SUFFICES
      ASSUME op' \in {"upgrade", "upconfig"}
      PROVE  /\ Free(todo', Changing) /\ ~Has(todo', "seed")
             /\ op' = "upconfig" =>
                  \A p \in Part(product) : ~Has(todo', Take[p]) /\ ~Has(todo', Aside[p])
             /\ op' = "upgrade" =>
                  /\ \A p \in Part(product) :
                       /\ Before(todo', Aside[p], Take[p]) /\ Before(todo', Take[p], "start")
                       /\ Has(todo', Aside[p]) => Has(todo', Take[p])
                       /\ Has(todo', Take[p]) \/ part'[p] = "new"
                       /\ Has(todo', Aside[p]) \/ p \in kept' \cup deleted'
                  /\ Has(todo', "start") \/ slot'.proc # "none"
                  /\ Before(todo', "stop", "start") /\ (Has(todo', "stop") => Has(todo', "start"))
                  /\ Before(todo', "unpack", "rmtmp")
                  /\ unpacks' => Has(todo', "rmtmp") \/ (~tmpdir' /\ ~Has(todo', "unpack"))
  BY <1>0 DEF UpgradeInv, Has, Free, Before, Part
<1>1. UpNext /\ product \in {"redis", "pgsql", "mariadb"} /\ slot \in SlotState
  BY UpgradingMode DEF NodeTypeOK, TypeOK
<1>2. CASE BeginUpgrade
  <2>1. CASE op' = "upconfig"
    <3>1. product = "mariadb" /\ todo' = MariaDBUPConfig
      BY <1>2, <2>1 DEF BeginUpgrade, NewEnough, Begin
    <3> QED
      BY <2>1, <3>1, UPConfigList
  <2>2. CASE op' = "upgrade"
    <3>1. todo' = UpgradeSteps
      BY <1>2, <2>2 DEF BeginUpgrade, Begin
    <3>2. Exchanges(todo')
      BY <1>1, <3>1, UpgradeExchanges
    <3>3. unpacks' => product = "mariadb"
      BY <1>2 DEF BeginUpgrade
    <3> QED
      BY <2>2, <3>2, <3>3 DEF Exchanges
  <2> QED
    BY <2>1, <2>2
<1>3. CASE UpStep
  <2>1. /\ op' = op /\ Upgrading /\ todo # <<>> /\ todo' = Tail(todo)
        /\ Exchange(Com) /\ slot' = Done(Com, slot) /\ unpacks' = unpacks
        /\ tmpdir' = IF unpacks /\ Com \in {"unpack", "rmtmp"} THEN Com = "unpack" ELSE tmpdir
    BY <1>3 DEF UpStep, Com
  <2>2. /\ \A c : Has(todo, c) <=> (c = Com \/ Has(todo', c))
        /\ \A c, d : Before(todo, c, d) =>
              Before(todo', c, d) /\ (Com = d => ~Has(todo, c) /\ ~Has(todo', c))
        /\ \A C : Free(todo, C) => Free(todo', C)
    BY <2>1, HeadFacts
  <2>3. Free(todo', Changing) /\ ~Has(todo', "seed")
    BY <2>1, <2>2 DEF UpgradeInv
  <2>4. CASE op = "upconfig"
    BY <2>1, <2>2, <2>3, <2>4 DEF UpgradeInv
  <2>5. CASE op = "upgrade"
    <3>1. /\ \A p \in Part(product) :
               /\ Before(todo, Aside[p], Take[p]) /\ Before(todo, Take[p], "start")
               /\ Has(todo, Aside[p]) => Has(todo, Take[p])
               /\ Has(todo, Take[p]) \/ part[p] = "new"
               /\ Has(todo, Aside[p]) \/ p \in kept \cup deleted
          /\ Has(todo, "start") \/ slot.proc # "none"
          /\ Before(todo, "stop", "start") /\ (Has(todo, "stop") => Has(todo, "start"))
          /\ Before(todo, "unpack", "rmtmp")
          /\ unpacks => Has(todo, "rmtmp") \/ (~tmpdir /\ ~Has(todo, "unpack"))
      BY <2>5 DEF UpgradeInv
    <3>2. ASSUME NEW p \in Part(product)
          PROVE  /\ Before(todo', Aside[p], Take[p]) /\ Before(todo', Take[p], "start")
                 /\ Has(todo', Aside[p]) => Has(todo', Take[p])
                 /\ Has(todo', Take[p]) \/ part'[p] = "new"
                 /\ Has(todo', Aside[p]) \/ p \in kept' \cup deleted'
      <4>1. Before(todo', Aside[p], Take[p]) /\ Before(todo', Take[p], "start")
        BY <2>2, <3>1
      <4>2. Has(todo', Aside[p]) => Has(todo', Take[p])
        BY <2>2, <3>1
      <4>3. Aside[p] # Take[p]
        BY <1>1, PartWords
      <4>4. Has(todo', Take[p]) \/ part'[p] = "new"
        BY <1>1, <2>1, <2>2, <3>1, <4>3, ExchangePart
      <4>5. Has(todo', Aside[p]) \/ p \in kept' \cup deleted'
        <5>1. part[p] = "old" \/ p \in kept \/ p \in deleted
          BY DEF OldProgramKept
        <5> QED
          BY <1>1, <2>1, <2>2, <3>1, <5>1, ExchangePart
      <4> QED
        BY <4>1, <4>2, <4>4, <4>5
    <3>3. Has(todo', "start") \/ slot'.proc # "none"
      BY <1>1, <2>1, <2>2, <3>1, DoneProc
    <3>4. /\ Before(todo', "stop", "start") /\ (Has(todo', "stop") => Has(todo', "start"))
          /\ Before(todo', "unpack", "rmtmp")
      BY <2>2, <3>1
    <3>5. unpacks' => Has(todo', "rmtmp") \/ (~tmpdir' /\ ~Has(todo', "unpack"))
      BY <2>1, <2>2, <3>1
    <3> QED
      BY <2>1, <2>3, <2>5, <3>2, <3>3, <3>4, <3>5
  <2> QED
    BY <2>1, <2>4, <2>5 DEF Upgrading
<1>4. ~UpgradeFails /\ ~Finish /\ ~Kill
  BY DEF UpgradeFails, Finish, Kill, Return
<1>5. ~RefuseUpgrade /\ ~UpReboot
  BY DEF RefuseUpgrade, UpReboot, Refuse, Return, Idle
<1> QED
  BY <1>1, <1>2, <1>3, <1>4, <1>5 DEF UpNext

-------------------------------------------------------------------------------
(* What was there before. *)
LEMMA CheckedDir ==
  ASSUME NEW p, p \notin Monitoring, NEW s, CheckOK(p, s)
  PROVE  s.dir \subseteq {"dir"}
<1>1. "dir" \in Checks(p)
  BY DEF Checks, PgAutoCheck, SlaveCheck, PgpoolCheck, DatabaseCheck, Monitoring
<1> QED
  BY <1>1 DEF CheckOK

(* The directory under a command of the operation that runs. *)
LEMMA DirKept ==
  ASSUME NodeTypeOK, FormInv, SlotInv, InstallInv, UninstallInv, BootInv, UpgradeInv, PriorKept,
         op # "idle", todo # <<>>, "prior" \in before.dir,
         ~(product \in PgAutoFailover /\ last = "uninstall")
  PROVE  "prior" \in Done(Com, slot).dir \/ "dir" \in Done(Com, slot).saved
<1> DEFINE d == Done(Com, slot)
<1>1. slot \in SlotState
  BY DEF NodeTypeOK, TypeOK
<1>2. slot.saved \subseteq d.saved
  BY <1>1, DoneSaved
<1>3. "prior" \in slot.dir \/ "dir" \in slot.saved
  BY DEF PriorKept
<1>4. CASE Com \notin {"drop", "rmdir", "mvdir"}
  BY <1>1, <1>2, <1>3, <1>4, DoneDir
<1>5. op # "rollback"
  BY CheckedDir DEF FormInv
<1>6. CASE op = "install"
  <2>1. Com \notin Removing
    BY <1>6, HeadFacts DEF InstallInv
  <2> QED
    BY <1>4, <2>1 DEF Removing
<1>7. CASE op = "uninstall"
  <2>1. Com # "drop"
    <3>1. ~Has(todo, "drop")
      BY <1>7 DEF UninstallInv, FormInv
    <3> QED
      BY <3>1, HeadFacts
  <2>2. Com # "rmdir"
    BY <1>7, HeadFacts DEF UninstallInv
  <2>3. CASE Com = "mvdir"
    <3>1. "prior" \in slot.dir => {"dir", "prior"} \subseteq slot.dir
      BY DEF SlotInv
    <3> QED
      BY <1>1, <1>2, <1>3, <2>3, <3>1, DoneSaved
  <2> QED
    BY <1>4, <2>1, <2>2, <2>3
<1>8. CASE op \in {"bootstrap", "unwind", "upgrade", "upconfig"}
  <2>1. Com \notin Changing
    BY <1>8, HeadFacts DEF BootInv, UpgradeInv
  <2> QED
    BY <1>4, <2>1 DEF Changing
<1> QED
  BY <1>5, <1>6, <1>7, <1>8 DEF NodeTypeOK, TypeOK

(* And the unit. *)
LEMMA UnitKept ==
  ASSUME NodeTypeOK, FormInv, UninstallInv, BootInv, UpgradeInv, PriorKept,
         op # "idle", todo # <<>>, before.unit = "prior", "unit" \in Checks(product)
  PROVE  Done(Com, slot).unit = "prior" \/ "unit" \in Done(Com, slot).saved
<1> DEFINE d == Done(Com, slot)
<1>1. slot \in SlotState
  BY DEF NodeTypeOK, TypeOK
<1>2. slot.saved \subseteq d.saved
  BY <1>1, DoneSaved
<1>3. slot.unit = "prior" \/ "unit" \in slot.saved
  BY DEF PriorKept
<1>4. CASE Com \notin {"unit", "rmunit", "mvunit"}
  BY <1>1, <1>2, <1>3, <1>4, DoneUnit
<1>5. op \notin {"install", "rollback"}
  BY DEF FormInv, CheckOK
<1>6. CASE op = "uninstall"
  <2>1. Com # "rmunit" /\ Com # "unit"
    BY <1>6, HeadFacts DEF UninstallInv, Building
  <2>2. CASE Com = "mvunit"
    BY <1>1, <1>2, <1>3, <2>2, DoneSaved
  <2> QED
    BY <1>4, <2>1, <2>2
<1>7. CASE op \in {"bootstrap", "unwind", "upgrade", "upconfig"}
  <2>1. Com \notin Changing
    BY <1>7, HeadFacts DEF BootInv, UpgradeInv
  <2> QED
    BY <1>4, <2>1 DEF Changing
<1> QED
  BY <1>5, <1>6, <1>7 DEF NodeTypeOK, TypeOK

LEMMA KeptOrBegun ==
  ASSUME Kinds
  PROVE  \/ before' = before /\ last' = last
         \/ before' = slot' /\ slot' = Older(slot)
<1>1. CASE Begins \/ Refuses
  BY <1>1 DEF Begins, Refuses
<1>2. CASE Runs \/ Finishes \/ Aborts \/ RollsBack \/ Unwinds \/ Restarts
  BY <1>2 DEF Runs, Finishes, Aborts, RollsBack, Unwinds, Restarts, Kept
<1> QED
  BY <1>1, <1>2 DEF Kinds

LEMMA PriorStep ==
  ASSUME NodeTypeOK, FormInv, SlotInv, InstallInv, UninstallInv, BootInv, UpgradeInv, PriorKept,
         Kinds, product' = product
  PROVE  PriorKept'
<1> SUFFICES /\ "prior" \in before'.dir => \/ "prior" \in slot'.dir \/ "dir" \in slot'.saved
                                           \/ product \in PgAutoFailover /\ last' = "uninstall"
             /\ before'.unit = "prior" /\ "unit" \in Checks(product)
                  => slot'.unit = "prior" \/ "unit" \in slot'.saved
  BY DEF PriorKept, Checks
<1>1. CASE before' = slot'
  BY <1>1
<1>2. CASE before' = before /\ last' = last
  <2>1. slot \in SlotState
    BY DEF NodeTypeOK, TypeOK
  <2>2. CASE slot' = slot
    BY <1>2, <2>2 DEF PriorKept
  <2>3. CASE slot' = Done(Com, slot) /\ op # "idle" /\ todo # <<>>
    BY <1>2, <2>3, DirKept, UnitKept
  <2>4. CASE \E b \in Booted(slot) : slot' \in {b, [b EXCEPT !.proc = "none"]}
    <3>1. PICK b \in Booted(slot) : slot' \in {b, [b EXCEPT !.proc = "none"]}
      BY <2>4
    <3>2. b \in SlotState /\ b.dir = slot.dir /\ b.unit = slot.unit /\ b.saved = slot.saved
      BY <2>1, BootedFacts
    <3>3. slot'.dir = slot.dir /\ slot'.unit = slot.unit /\ slot'.saved = slot.saved
      BY <3>1, <3>2 DEF SlotState
    <3> QED
      BY <1>2, <3>3 DEF PriorKept
  <2>5. CASE slot' = Older(slot) /\ op = "idle"
    <3>1. Begins \/ Refuses \/ slot' = slot \/ \E b \in Booted(slot) :
            slot' \in {b, [b EXCEPT !.proc = "none"]}
      BY <2>5 DEF Kinds, Runs, Finishes, Aborts, RollsBack, Unwinds, Restarts
    <3>2. CASE Begins \/ Refuses
      BY <1>1, <3>2 DEF Begins, Refuses
    <3> QED
      BY <2>2, <2>4, <3>1, <3>2
  <2> QED
    BY <2>2, <2>3, <2>4, <2>5, SlotSources
<1> QED
  BY <1>1, <1>2, KeptOrBegun

-------------------------------------------------------------------------------
(* The invariant, all together. *)
NodeInv == /\ NodeTypeOK /\ FormInv /\ SlotInv
           /\ InstallInv /\ InstalledInv /\ RollbackInv /\ AutoInv /\ UninstallInv
           /\ BootInv /\ SeedInv /\ UpgradeInv
           /\ RollbackFrees /\ PriorKept /\ NoSecondBootstrap /\ OldProgramKept

LEMMA InitialType ==
  ASSUME NEW p, NEW s, \/ s \in InitialSlots(p)
                       \/ s = Instance(p, {"dir", "prior"}, TRUE)
  PROVE  /\ s \in SlotState /\ s.seed = {} /\ (s.dir # {} => "dir" \in s.dir)
         /\ p \notin PgAutoFailover => ~s.auto
<1>1. Bare \in SlotState /\ Bare.seed = {} /\ Bare.dir = {} /\ ~Bare.auto
  BY DEF Bare, SlotState, Age, Content
<1>2. CASE s \in {Bare, [Bare EXCEPT !.dir = {"dir"}], [Bare EXCEPT !.dir = {"dir", "prior"}],
                  [Bare EXCEPT !.proc = "prior"]}
  <2>1. CASE s = Bare
    BY <1>1, <2>1
  <2>2. CASE s = [Bare EXCEPT !.dir = {"dir"}]
    BY <2>2 DEF Bare, SlotState, Age, Content
  <2>3. CASE s = [Bare EXCEPT !.dir = {"dir", "prior"}]
    BY <2>3 DEF Bare, SlotState, Age, Content
  <2>4. CASE s = [Bare EXCEPT !.proc = "prior"]
    BY <2>4 DEF Bare, SlotState, Age, Content
  <2> QED
    BY <1>2, <2>1, <2>2, <2>3, <2>4
<1>3. ASSUME NEW d \in {{}, {"dir", "prior"}}, NEW r \in BOOLEAN, s = Instance(p, d, r)
      PROVE  /\ s \in SlotState /\ s.seed = {} /\ (s.dir # {} => "dir" \in s.dir)
             /\ p \notin PgAutoFailover => ~s.auto
  <2>1. s = [dir |-> d, unit |-> "prior", loaded |-> "prior", enabled |-> (p \notin PgAutoFailover),
             proc |-> IF r THEN "prior" ELSE "none", auto |-> (p \in PgAutoFailover),
             seed |-> {}, saved |-> {}]
    BY <1>3 DEF Instance, Bare
  <2>2. s \in SlotState
    BY <2>1 DEF SlotState, Age, Content
  <2>3. s.seed = {} /\ s.dir = d /\ s.auto = (p \in PgAutoFailover)
    BY <2>1
  <2> QED
    BY <2>2, <2>3
<1>4. CASE s = [Bare EXCEPT !.auto = TRUE] /\ p \in PgAutoFailover
  BY <1>1, <1>4 DEF Bare, SlotState, Age, Content
<1>5. CASE s = Instance(p, {"dir", "prior"}, TRUE)
  BY <1>3, <1>5
<1>6. CASE s \in InitialSlots(p)
  <2>1. \/ s \in {Bare, [Bare EXCEPT !.dir = {"dir"}], [Bare EXCEPT !.dir = {"dir", "prior"}],
                  [Bare EXCEPT !.proc = "prior"]}
        \/ s \in {Instance(p, d, r) : d \in {{}, {"dir", "prior"}}, r \in BOOLEAN}
        \/ s = [Bare EXCEPT !.auto = TRUE] /\ p \in PgAutoFailover
    <3> DEFINE A == {Bare, [Bare EXCEPT !.dir = {"dir"}], [Bare EXCEPT !.dir = {"dir", "prior"}],
                     [Bare EXCEPT !.proc = "prior"]}
               B == {Instance(p, d, r) : d \in {{}, {"dir", "prior"}}, r \in BOOLEAN}
               u == [Bare EXCEPT !.auto = TRUE]
    <3>1. s \in A \cup B \cup (IF p \in PgAutoFailover THEN {u} ELSE {})
      BY <1>6 DEF InitialSlots
    <3> HIDE DEF A, B, u
    <3>2. s \in A \/ s \in B \/ (s = u /\ p \in PgAutoFailover)
      BY <3>1
    <3> QED
      BY <3>2 DEF A, B, u
  <2> QED
    BY <1>2, <1>3, <1>4, <2>1
<1> QED
  BY <1>5, <1>6

LEMMA InitialInv == NodeInit => NodeInv
<1> SUFFICES ASSUME NodeInit PROVE NodeInv
  OBVIOUS
<1>1. /\ op = "idle" /\ todo = <<>> /\ norollback \in BOOLEAN /\ last = "none"
      /\ result = "none" /\ clean = TRUE /\ before = slot
      /\ mode \in {"install", "upgrade"} /\ product \in Products
      /\ mode = "upgrade" => product \in {"redis", "pgsql", "mariadb"}
      /\ part = [p \in Part(product) |-> "old"] /\ kept = {} /\ deleted = {}
      /\ fresh = {} /\ tmpdir = FALSE /\ nobak = FALSE /\ unpacks = FALSE
  BY UpgradableAssumption DEF NodeInit, Init, UpInit
<1>2. /\ slot \in SlotState /\ slot.seed = {} /\ (slot.dir # {} => "dir" \in slot.dir)
      /\ product \notin PgAutoFailover => ~slot.auto
  BY InitialType DEF NodeInit, Init, UpInit
<1>3. mode = "upgrade" => /\ slot.unit = "prior" /\ slot.loaded = "prior"
                          /\ slot.dir = {"dir", "prior"}
  BY DEF NodeInit, UpInit, Instance, Bare
<1>4. NodeTypeOK
  BY <1>1, <1>2, EmptySeq DEF NodeTypeOK, TypeOK
<1>5. FormInv /\ SlotInv
  BY <1>1, <1>2, <1>3 DEF FormInv, SlotInv
<1>6. /\ InstallInv /\ InstalledInv /\ RollbackInv /\ AutoInv /\ UninstallInv
      /\ BootInv /\ SeedInv /\ UpgradeInv
  BY <1>1, <1>2 DEF InstallInv, InstalledInv, RollbackInv, AutoInv, UninstallInv, BootInv,
                    SeedInv, UpgradeInv, Returned
<1>7. RollbackFrees /\ PriorKept /\ NoSecondBootstrap /\ OldProgramKept
  BY <1>1 DEF RollbackFrees, PriorKept, NoSecondBootstrap, OldProgramKept, Returned
<1> QED
  BY <1>4, <1>5, <1>6, <1>7 DEF NodeInv

LEMMA InvStep ==
  ASSUME NodeInv, NodeNext
  PROVE  NodeInv'
<1> USE DEF NodeInv
<1>1. Kinds /\ product' = product /\ mode' = mode /\ SeedFree
  BY StepKind, NoSeed
<1>2. NodeTypeOK' /\ FormInv' /\ SlotInv'
  BY <1>1, TypeStep, FormStep, SlotStep
<1>3. InstallInv' /\ InstalledInv' /\ RollbackInv' /\ AutoInv' /\ UninstallInv'
  BY <1>1, InstallStep, InstalledStep, RollbackStep, AutoStep, UninstallStep
<1>4. BootInv' /\ SeedInv' /\ UpgradeInv'
  BY <1>1, BootStep, SeedStep, UpgradeStep
<1>5. RollbackFrees' /\ PriorKept' /\ NoSecondBootstrap' /\ OldProgramKept'
  BY <1>1, FreesStep, PriorStep, NoSeedStep, OldProgramStep
<1> QED
  BY <1>2, <1>3, <1>4, <1>5

LEMMA InvStutter ==
  ASSUME NodeInv, UNCHANGED allvars
  PROVE  NodeInv'
<1>1. /\ UNCHANGED <<product, slot, op, todo, norollback, last, result, clean, before, mode>>
      /\ UNCHANGED <<part, kept, deleted, fresh, tmpdir, nobak, unpacks>>
  BY DEF allvars, vars, upvars
<1>2. NodeTypeOK' /\ FormInv' /\ SlotInv'
  <2>1. TypeOK'
    BY <1>1 DEF NodeInv, NodeTypeOK, TypeOK
  <2>2. NodeTypeOK'
    BY <1>1, <2>1 DEF NodeInv, NodeTypeOK, Part
  <2>3. FormInv'
    BY <1>1 DEF NodeInv, FormInv, CheckOK
  <2>4. SlotInv'
    BY <1>1 DEF NodeInv, SlotInv
  <2> QED
    BY <2>2, <2>3, <2>4
<1>3. InstallInv' /\ InstalledInv' /\ RollbackInv' /\ AutoInv'
  <2>1. InstallInv' /\ InstalledInv'
    BY <1>1 DEF NodeInv, InstallInv, InstalledInv, Has, Free, Before, HasProgram, Returned, Idle
  <2>2. RollbackInv'
    BY <1>1, ZenonT(40) DEF NodeInv, RollbackInv, Has, Free, Before
  <2>3. AutoInv'
    BY <1>1 DEF NodeInv, AutoInv, Has
  <2> QED
    BY <2>1, <2>2, <2>3
<1>4. UninstallInv'
  BY <1>1 DEF NodeInv, UninstallInv, Has, Free, Before, Inst
<1>5. BootInv' /\ SeedInv'
  BY <1>1 DEF NodeInv, BootInv, SeedInv, Has, Free, Before, EndsInReload
<1>6. UpgradeInv'
  BY <1>1 DEF NodeInv, UpgradeInv, Has, Free, Before, Part
<1>7. RollbackFrees' /\ PriorKept' /\ NoSecondBootstrap' /\ OldProgramKept'
  BY <1>1 DEF NodeInv, RollbackFrees, PriorKept, NoSecondBootstrap, OldProgramKept, Returned,
              Idle, Part, Checks
<1> QED
  BY <1>2, <1>3, <1>4, <1>5, <1>6, <1>7 DEF NodeInv

-------------------------------------------------------------------------------
(* Whatever is installed, removed, bootstrapped or upgraded, and however it    *)
(* ends, the invariant holds.                                                  *)
THEOREM NodeInvariance == NodeSpec => []NodeInv
<1>1. NodeInit => NodeInv
  BY InitialInv
<1>2. NodeInv /\ [NodeNext]_allvars => NodeInv'
  BY InvStep, InvStutter
<1> QED
  BY <1>1, <1>2, PTL DEF NodeSpec

(* Every variable of the node keeps its type, nothing is run after a return,   *)
(* and what an upgrade unpacked is only in its temporary directory.            *)
THEOREM NodeTypeCorrect == NodeSpec => []NodeTypeOK
<1>1. NodeInv => NodeTypeOK
  BY DEF NodeInv
<1> QED
  BY <1>1, NodeInvariance, PTL

(* An announced instance runs, and every restart of the machine starts it     *)
(* again: the list of every product writes the unit, enables it, unpacks the   *)
(* program and starts it, and the unit is there before the start.              *)
THEOREM InstalledKeepsRunning == NodeSpec => []InstalledRuns
<1>1. NodeInv => InstalledRuns
  BY InstalledFacts DEF NodeInv
<1> QED
  BY <1>1, NodeInvariance, PTL

(* A rollback all of whose commands worked leaves what the next installation   *)
(* looks at: no directory, and, but for the two products RollbackFrees names,  *)
(* no process, which is stopped while its unit is still there, no unit and no  *)
(* state file of pg_autoctl.                                                   *)
THEOREM RollbackLeavesFree == NodeSpec => []RollbackFrees
<1>1. NodeInv => RollbackFrees
  BY DEF NodeInv
<1> QED
  BY <1>1, NodeInvariance, PTL

(* Data and units of before are in place or moved aside, whatever failed.      *)
THEOREM PriorStaysKept == NodeSpec => []PriorKept
<1>1. NodeInv => PriorKept
  BY DEF NodeInv
<1> QED
  BY <1>1, NodeInvariance, PTL

(* An announced galera node does not found a second cluster.                   *)
THEOREM BootstrapsOnce == NodeSpec => []NoSecondBootstrap
<1>1. NodeInv => NoSecondBootstrap
  BY DEF NodeInv
<1> QED
  BY <1>1, NodeInvariance, PTL

(* No number of failed upgrades loses a directory of the old program.          *)
THEOREM OldProgramStaysKept == NodeSpec => []OldProgramKept
<1>1. NodeInv => OldProgramKept
  BY DEF NodeInv
<1> QED
  BY <1>1, NodeInvariance, PTL

-------------------------------------------------------------------------------
(* What an operation reports to a deployment. *)
LEMMA InstTyped ==
  ASSUME NEW s
  PROVE  Inst(s) \in InstState
  BY DEF Inst, InstState

LEMMA CheckedFree ==
  ASSUME NEW p, p \notin Monitoring \cup PgAutoFailover, NEW s, CheckOK(p, s)
  PROVE  Inst(s) = "free"
<1>1. {"dir", "port", "unit"} \subseteq Checks(p)
  BY DEF Checks, SlaveCheck, PgpoolCheck, DatabaseCheck, Monitoring
<1> QED
  BY <1>1 DEF CheckOK, Inst

(* A removal reports one of the results of UNInstallResults. *)
LEMMA UninstallReports ==
  ASSUME NodeTypeOK, UninstallInv, op = "uninstall",
         slot' = slot \/ (todo # <<>> /\ slot' = Done(Com, slot)),
         NEW ok \in BOOLEAN, ok => todo = <<>> /\ slot' = slot
  PROVE  [inst |-> Inst(slot'), ok |-> ok] \in UNInstallResults(Inst(before))
<1>1. /\ IF Inst(before) = "orphan"
           THEN slot'.proc # "none" /\ slot'.unit = "none"
           ELSE slot'.unit = "none" => slot'.proc = "none"
      /\ before.proc = "none" => slot'.proc = "none"
      /\ Inst(before) = "free" => slot'.unit = "none" /\ slot'.dir \subseteq {"dir"}
  BY RemovedSlot
<1>2. CASE Inst(before) = "orphan"
  <2>1. Inst(slot') = "orphan"
    BY <1>1, <1>2 DEF Inst
  <2> QED
    BY <1>2, <2>1 DEF UNInstallResults
<1>3. CASE Inst(before) = "free"
  <2>1. Inst(slot') = "free"
    BY <1>1, <1>3 DEF Inst
  <2> QED
    BY <1>3, <2>1 DEF UNInstallResults
<1>4. CASE Inst(before) \in {"up", "files"}
  <2>1. Inst(slot') \in {"free", "files", Inst(before)}
    <3>1. CASE slot'.proc = "none"
      BY <3>1 DEF Inst
    <3>2. CASE slot'.proc # "none"
      <4>1. before.proc # "none" /\ slot'.unit # "none"
        BY <1>1, <1>4, <3>2
      <4>2. Inst(before) = "up"
        BY <1>4, <4>1 DEF Inst
      <4> QED
        BY <3>2, <4>1, <4>2 DEF Inst
    <3> QED
      BY <3>1, <3>2
  <2>2. ASSUME ok PROVE Inst(slot') = "free"
    <3>1. slot'.unit = "none" /\ slot'.dir = {}
      BY <2>2, EmptyList DEF UninstallInv
    <3>2. slot'.proc = "none"
      BY <1>1, <1>4, <3>1
    <3> QED
      BY <3>1, <3>2 DEF Inst
  <2> QED
    BY <1>4, <2>1, <2>2 DEF UNInstallResults
<1> QED
  BY <1>2, <1>3, <1>4, InstTyped DEF InstState

LEMMA InstallReports ==
  ASSUME NodeTypeOK, FormInv, op \in {"install", "rollback"},
         product \notin Monitoring \cup PgAutoFailover, NEW ok \in BOOLEAN,
         ok => Inst(slot') = "up"
  PROVE  [inst |-> Inst(slot'), ok |-> ok] \in InstallResults(Inst(before))
<1>1. Inst(before) = "free"
  BY CheckedFree DEF FormInv
<1>2. Inst(slot') \in InstState
  BY InstTyped
<1>3. CASE ok
  BY <1>1, <1>3 DEF InstallResults, CheckEnvOK
<1>4. CASE ~ok
  BY <1>1, <1>2, <1>4 DEF InstallResults, CheckEnvOK
<1> QED
  BY <1>3, <1>4

LEMMA ReportsStep ==
  ASSUME NodeInv, NodeNext, product \notin Monitoring \cup PgAutoFailover, op' = "idle",
         result' \in {"ok", "refused", "failed", "undone"}, op # "idle" \/ before' # before
  PROVE  LET r == [inst |-> Inst(slot'), ok |-> result' = "ok"]
         IN  /\ last' = "install"   => r \in InstallResults(Inst(before'))
             /\ last' = "uninstall" => r \in UNInstallResults(Inst(before'))
<1> USE DEF NodeInv
<1>1. Kinds /\ mode \in {"install", "upgrade"}
  BY StepKind DEF NodeTypeOK
<1>2. CASE Refuses
  <2>1. slot' = before' /\ result' = "refused" /\ last' # "uninstall"
    BY <1>2 DEF Refuses
  <2>2. Inst(before') \in InstState /\ Inst(slot') = Inst(before')
    BY <2>1, InstTyped
  <2>3. [inst |-> Inst(slot'), ok |-> FALSE] \in InstallResults(Inst(before'))
    BY <2>2 DEF InstallResults, CheckEnvOK
  <2>4. (result' = "ok") = FALSE
    BY <2>1
  <2> QED
    BY <2>1, <2>3, <2>4
<1>3. CASE Finishes \/ Aborts
  <2>1. op # "idle" /\ last' = last /\ before' = before
    BY <1>3 DEF Finishes, Aborts, Kept
  <2>2. \/ slot' = slot
        \/ todo # <<>> /\ slot' = Done(Com, slot)
    BY <1>3 DEF Finishes, Aborts
  <2>3. result' = "ok" => /\ Finishes /\ todo = <<>> /\ slot' = slot
                          /\ op \notin {"rollback", "unwind"}
    BY <1>3 DEF Finishes, Aborts
  <2>4. (result' = "ok") \in BOOLEAN
    OBVIOUS
  <2>5. ASSUME last = "install"
        PROVE  [inst |-> Inst(slot'), ok |-> result' = "ok"] \in InstallResults(Inst(before))
    <3>1. op \in {"install", "rollback"}
      BY <1>1, <2>1, <2>5 DEF FormInv, NodeTypeOK, TypeOK
    <3>2. ASSUME result' = "ok" PROVE Inst(slot') = "up"
      <4>1. op = "install" /\ todo = <<>> /\ slot' = slot
        BY <2>3, <3>1, <3>2
      <4>2. slot.unit = "ours" /\ slot.proc # "none"
        BY <4>1, EmptyList DEF InstallInv
      <4> QED
        BY <4>1, <4>2 DEF Inst
    <3> QED
      BY <2>4, <3>1, <3>2, InstallReports
  <2>6. ASSUME last = "uninstall"
        PROVE  [inst |-> Inst(slot'), ok |-> result' = "ok"] \in UNInstallResults(Inst(before))
    <3>1. op = "uninstall"
      BY <1>1, <2>1, <2>6 DEF FormInv, NodeTypeOK, TypeOK
    <3> QED
      BY <2>2, <2>3, <2>4, <3>1, UninstallReports
  <2> QED
    BY <2>1, <2>5, <2>6
<1>4. ~Begins
  BY DEF Begins, BeginsInstall, BeginsUninstall, BeginsBootstrap, BeginsUpgrade
<1>5. ~Runs /\ ~RollsBack /\ ~Unwinds
  BY DEF Runs, RollsBack, Unwinds
<1>6. ~Restarts
  BY DEF Restarts, Kept, Idle
<1> QED
  BY <1>1, <1>2, <1>3, <1>4, <1>5, <1>6 DEF Kinds

(* The results that RemoteHost lets an install and an uninstall return to the  *)
(* deployments are the ones the commands on the machine can bring about.       *)
THEOREM ResultsAreJustified == NodeSpec => ResultsJustified
<1> DEFINE Justified ==
       /\ product \notin Monitoring \cup PgAutoFailover
       /\ Idle' /\ result' \in {"ok", "refused", "failed", "undone"} /\ (op # "idle" \/ before' # before)
       => LET r == [inst |-> Inst(slot'), ok |-> result' = "ok"]
          IN  /\ last' = "install"   => r \in InstallResults(Inst(before'))
              /\ last' = "uninstall" => r \in UNInstallResults(Inst(before'))
<1>1. NodeInv /\ NodeNext => Justified
  BY ReportsStep DEF Idle
<1>2. UNCHANGED allvars => UNCHANGED vars
  BY DEF allvars
<1>3. NodeInv /\ [NodeNext]_allvars => [Justified]_vars
  BY <1>1, <1>2
<1>4. NodeSpec => [][Justified]_vars
  BY <1>3, NodeInvariance, PTL DEF NodeSpec
<1> QED
  BY <1>4 DEF ResultsJustified

-------------------------------------------------------------------------------
(* "start" comes after every directory was replaced. *)
THEOREM NeverMixed == NodeSpec => NoMixedStart
<1> DEFINE Unmixed == op = "upgrade" /\ op' = "upgrade" /\ slot.proc = "none" /\ slot'.proc # "none"
                        => \A p \in Part(product) : part[p] = "new"
<1>1. ASSUME NodeInv, NodeNext, op = "upgrade", op' = "upgrade",
             slot.proc = "none", slot'.proc # "none", NEW p \in Part(product)
      PROVE  part[p] = "new"
  <2>1. Kinds /\ slot \in SlotState
    BY <1>1, StepKind DEF NodeInv, NodeTypeOK, TypeOK
  <2>2. Runs
    BY <1>1, <2>1 DEF Kinds, Begins, Refuses, Finishes, Aborts, RollsBack, Unwinds, Restarts, Idle
  <2>3. todo # <<>> /\ slot' = Done(Com, slot)
    BY <1>1, <2>2 DEF Runs
  <2>4. Com = "start"
    BY <1>1, <2>1, <2>3, DoneProc
  <2>5. /\ Before(todo, Take[p], "start")
        /\ Has(todo, Take[p]) \/ part[p] = "new"
    BY <1>1 DEF NodeInv, UpgradeInv
  <2>6. ~Has(todo, Take[p])
    BY <1>1, <2>3, <2>4, <2>5, HeadFacts DEF NodeInv
  <2> QED
    BY <2>5, <2>6
<1>2. NodeInv /\ [NodeNext]_allvars => [Unmixed]_allvars
  BY <1>1
<1>3. NodeSpec => [][Unmixed]_allvars
  BY <1>2, NodeInvariance, PTL DEF NodeSpec
<1> QED
  BY <1>3 DEF NoMixedStart

(* The list of an announced upgrade was run to its end: everything is          *)
(* exchanged, the instance started and the temporary directory removed.        *)
THEOREM UpgradeComplete == NodeSpec => UpgradedRuns
<1> DEFINE Upgraded == op = "upgrade" /\ op' = "idle" /\ result' = "ok"
                         => /\ slot'.proc # "none" /\ slot'.loaded # "none"
                            /\ \A p \in Part(product) : part'[p] = "new"
                            /\ unpacks' => ~tmpdir'
<1>1. ASSUME NodeInv, NodeNext, op = "upgrade", op' = "idle", result' = "ok"
      PROVE  /\ slot'.proc # "none" /\ slot'.loaded # "none"
             /\ \A p \in Part(product) : part'[p] = "new"
             /\ unpacks' => ~tmpdir'
  <2>1. UpNext /\ mode = "upgrade"
    BY <1>1, UpgradingMode DEF NodeInv
  <2>2. ~BeginUpgrade /\ ~RefuseUpgrade /\ ~UpStep
    BY <1>1 DEF BeginUpgrade, RefuseUpgrade, Begin, Refuse, Idle, UpStep
  <2>3. ~UpgradeFails /\ ~UpReboot /\ ~Kill
    BY <1>1 DEF UpgradeFails, UpReboot, Kill, Return, Idle
  <2>4. Finish /\ UNCHANGED upvars
    BY <2>1, <2>2, <2>3 DEF UpNext
  <2>5. todo = <<>> /\ slot' = slot /\ part' = part /\ unpacks' = unpacks /\ tmpdir' = tmpdir
    BY <2>4 DEF Finish, upvars
  <2>6. slot.loaded = "prior"
    BY <1>1, <2>1 DEF NodeInv, SlotInv
  <2>7. /\ \A p \in Part(product) : Has(todo, Take[p]) \/ part[p] = "new"
        /\ Has(todo, "start") \/ slot.proc # "none"
        /\ unpacks => Has(todo, "rmtmp") \/ ~tmpdir
    BY <1>1 DEF NodeInv, UpgradeInv
  <2> QED
    BY <2>5, <2>6, <2>7, EmptyList
<1>2. NodeInv /\ [NodeNext]_allvars => [Upgraded]_allvars
  BY <1>1
<1>3. NodeSpec => [][Upgraded]_allvars
  BY <1>2, NodeInvariance, PTL DEF NodeSpec
<1> QED
  BY <1>3 DEF UpgradedRuns
===============================================================================
