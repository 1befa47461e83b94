---------------------------- MODULE ConfigTextProofs ---------------------------
(***************************************************************************)
(* RecordsKept for every number of commands, every set of names and every  *)
(* overlap between them.                                                   *)
(***************************************************************************)
EXTENDS ConfigText, TLAPS

(* Commands between reading and truncating; between truncating and writing;   *)
(* and those whose name has been written but not yet reported.                *)
Reading == {"save", "trustsave", "savetasks"}
Cutting == {"flush", "trustflush", "flushtasks"}
Announced == {"trustread", "trustsave", "trustflush", "reload"}

(* What the file has to hold, and what p is about to take out of it. *)
Must == {l \in Line : \/ l \in granted \cup Kept
                      \/ \E q \in Process : at[q] \in Announced /\ name[q] = l}
Drops(p) == IF at[p] \in {"savetasks", "flushtasks"} THEN Matches[name[p]] ELSE {}
Alone(p) == \A q \in Process : at[q] \in Cutting => q = p

(* Each step belongs to the commands of one file. *)
AtPlace ==
  \A p \in Process :
    /\ at[p] \in {"load", "reload"} => place \in {"hba", "hba of a monitored node"}
    /\ at[p] \in {"save", "flush"} => place = "hba"
    /\ at[p] \in {"check", "append", "trustread", "trustsave", "trustflush"} =>
         place = "hba of a monitored node"
    /\ at[p] \in {"checktask", "addtask", "readtasks", "savetasks", "flushtasks"} =>
         place = "crontab"
    /\ at[p] \in {"register", "deregister", "registered", "removed"} => place = "targets"

(* The file has what it must have while nobody has it truncated; so has the   *)
(* copy of every command that read it last and would write it next.           *)
InFile == ~clobbered /\ ~Truncated => Must \subseteq text

InMemory ==
  ~clobbered =>
    \A p \in Process :
      at[p] \in Reading \cup Cutting /\ ~changed[p] /\ Alone(p) => Must \ Drops(p) \subseteq read[p]

(* Nothing has cut a line where nobody had one that was too long. *)
Uncut ==
  /\ Foreign \in theirs
  /\ (place = "hba" => Long \notin theirs)
       => /\ {Long, Cut} \cap text = {}
          /\ \A p \in Process : {Long, Cut} \cap read[p] = {}

OwnName == \A p \in Process : at[p] \in {"save", "flush"} => name[p] \in read[p]

(* The server works with what was reported, and asks no target that is gone. *)
InServer == ~clobbered /\ place # "crontab" /\ (place = "hba" => Long \notin theirs)
              => granted \cup {Foreign} \subseteq active
NoneLeft == ~clobbered /\ place = "targets" /\ ~Removing => active \subseteq text

(* Trust is gone from the copy, from the file, and from the server, unless    *)
(* that was not asked in time.                                                *)
TrustEnded ==
  /\ \A p \in Process : at[p] \in {"trustsave", "trustflush"} => Trust \notin read[p]
  /\ place = "hba of a monitored node" =>
       /\ \A p \in Process : at[p] = "reload" => Trust \notin text
       /\ granted # {} => Trust \notin text /\ (clobbered \/ Trust \notin active)

IInv == /\ TextTypeOK /\ AtPlace /\ InFile /\ InMemory /\ Uncut /\ OwnName
        /\ InServer /\ NoneLeft /\ TrustEnded

-------------------------------------------------------------------------------
LEMMA Successor == \A n \in Nat : n + 1 \in Nat
  OBVIOUS

(* Nobody has to write trust back. *)
LEMMA MustNames == TextTypeOK
  => /\ Must \subseteq Name \cup Others /\ Trust \notin Must /\ Md5 \notin Must
     /\ place = "hba" => Comment \notin Must /\ Long \notin Must
  BY LinesAssumption
     DEF TextTypeOK, Must, Kept, Others, Foreign, Comment, Long, Short, Cut, Trust, Md5

(* The names the commands are started for are no line of anybody else. *)
LEMMA OwnLines ==
  ASSUME TextTypeOK, NEW p \in Process
  PROVE  name[p] \in Name /\ name[p] \in Line /\ name[p] \notin Others \cup {Trust, Md5}
<1>1. name[p] \in Name
  BY DEF TextTypeOK
<1> QED
  BY <1>1, LinesAssumption DEF Line

LEMMA MustHas == TextTypeOK /\ Uncut => granted \cup Kept \cup {Foreign} \subseteq Must
<1> SUFFICES ASSUME TextTypeOK, Uncut
             PROVE  granted \cup Kept \cup {Foreign} \subseteq Must
  OBVIOUS
<1>1. Foreign \in Kept /\ Kept \subseteq Others
  BY DEF TextTypeOK, Uncut, Kept, Foreign, Comment, Long
<1>2. granted \cup Kept \subseteq Line
  BY <1>1 DEF TextTypeOK, Line
<1> QED
  BY <1>1, <1>2 DEF Must

(* A step of p that takes nothing into its memory and truncates no file. *)
LEMMA MemoryKept ==
  ASSUME IInv, NEW p \in Process,
         \A q \in Process : q # p => at'[q] = at[q],
         at[p] \notin Cutting, at'[p] \notin Reading \cup Cutting,
         UNCHANGED <<name, read>>, clobbered => clobbered',
         \A q \in Process : changed[q] => changed'[q],
         Must' \subseteq Must
  PROVE  InMemory'
<1> SUFFICES ASSUME ~clobbered', NEW q \in Process, at'[q] \in Reading \cup Cutting,
                    ~changed'[q], Alone(q)'
             PROVE  (Must \ Drops(q))' \subseteq read'[q]
  BY DEF InMemory
<1>1. q # p /\ at[q] = at'[q] /\ ~changed[q] /\ ~clobbered
  OBVIOUS
<1>2. Alone(q)
  BY <1>1 DEF Alone
<1>3. Must \ Drops(q) \subseteq read[q]
  BY <1>1, <1>2 DEF IInv, InMemory
<1>4. Drops(q)' = Drops(q)
  BY <1>1 DEF Drops
<1> QED
  BY <1>3, <1>4

LEMMA StartKeeps ==
  ASSUME IInv, NEW p \in Process, NEW n \in Name,
         NEW w \in {"load", "check", "checktask", "readtasks", "register", "deregister"},
         Start(p, n, w),
         w = "load" => place \in {"hba", "hba of a monitored node"},
         w = "check" => place = "hba of a monitored node",
         w \in {"checktask", "readtasks"} => place = "crontab",
         w \in {"register", "deregister"} => place = "targets"
  PROVE  IInv'
<1> USE LinesAssumption, MatchesAssumption DEF IInv, Start, GoOn
<1>0. Kept' = Kept
  BY DEF Kept
<1> USE <1>0
<1>1. TextTypeOK'
  <2>1. /\ place' \in {"hba", "hba of a monitored node", "crontab", "targets"}
        /\ theirs' \in SUBSET Others
    BY DEF TextTypeOK
  <2>2. edits' \in Nat
    <3>1. edits \in Nat
      BY DEF TextTypeOK
    <3>2. edits' = edits + 1
      OBVIOUS
    <3> QED
      BY <3>1, <3>2, Successor, Zenon
  <2>3. text' \in SUBSET Line /\ active' \in SUBSET Line
    <3>1. name[p] \in Name
      BY DEF TextTypeOK
    <3>2. name[p] \in Line
      BY <3>1 DEF Line
    <3> QED
      BY <3>2 DEF TextTypeOK
  <2>4. granted' \in SUBSET Name
    BY DEF TextTypeOK
  <2>5. clobbered' \in BOOLEAN
    BY DEF TextTypeOK
  <2>6. at' \in [Process -> Call]
    BY DEF TextTypeOK, Call
  <2>7. /\ name' \in [Process -> Name] /\ read' \in [Process -> SUBSET Line]
        /\ changed' \in [Process -> BOOLEAN]
    BY DEF TextTypeOK, Line
  <2> QED
    BY <2>1, <2>2, <2>3, <2>4, <2>5, <2>6, <2>7 DEF TextTypeOK
<1>2. AtPlace'
  BY DEF AtPlace, TextTypeOK
<1>3. InFile'
  <2>1. Must' \subseteq Must
    BY ZenonT(40) DEF TextTypeOK, Must, Announced
  <2>2. Truncated => Truncated'
    BY DEF TextTypeOK, Truncated
  <2> QED
    BY <2>1, <2>2 DEF InFile
<1>4. InMemory'
  <2> SUFFICES ASSUME ~clobbered', NEW q \in Process, at'[q] \in Reading \cup Cutting,
                      ~changed'[q], Alone(q)'
               PROVE  (Must \ Drops(q))' \subseteq read'[q]
    BY DEF InMemory
  <2>1. ~clobbered
    BY DEF TextTypeOK
  <2>2. at[q] \in Reading \cup Cutting /\ ~changed[q]
    BY DEF TextTypeOK, Reading, Cutting
  <2>3. Alone(q)
    BY DEF TextTypeOK, Alone, Cutting
  <2>4. q # p => at'[q] = at[q]
    BY DEF TextTypeOK
  <2>5. Must' \subseteq Must
    BY ZenonT(40) DEF TextTypeOK, Must, Announced
  <2>6. Drops(q)' = Drops(q) /\ read'[q] = read[q]
    BY <2>4 DEF TextTypeOK, Drops, Reading, Cutting
  <2> QED
    BY <2>1, <2>2, <2>3, <2>5, <2>6 DEF InMemory
<1>5. OwnName'
  BY ZenonT(40) DEF AtPlace, TextTypeOK, OwnName
<1>6. InServer'
  BY DEF AtPlace, TextTypeOK, InServer, InFile, Must, Announced, Truncated, Line
<1>7. NoneLeft'
  BY DEF AtPlace, TextTypeOK, NoneLeft, Removing
<1>8. TrustEnded'
  BY ZenonT(40) DEF AtPlace, TextTypeOK, TrustEnded, Line
<1>9. Uncut'
  BY DEF TextTypeOK, Uncut, Others
<1> QED
  BY <1>1, <1>2, <1>3, <1>4, <1>5, <1>6, <1>7, <1>8, <1>9

LEMMA RefuseKeeps ==
  ASSUME IInv, NEW p \in Process, NEW s, s # "removed", s \notin Cutting, Refuse(p, s)
  PROVE  IInv'
<1> USE LinesAssumption, MatchesAssumption DEF IInv, Refuse, GoOn, Cutting
<1>0. Kept' = Kept
  BY DEF Kept
<1> USE <1>0
<1>1. TextTypeOK'
  BY DEF TextTypeOK, Line, Call
<1>2. AtPlace'
  BY DEF AtPlace, TextTypeOK
<1>3. InFile'
  BY ZenonT(40) DEF AtPlace, TextTypeOK, InFile, InMemory, Truncated, Cutting, Reading,
     Announced, Must,
         Drops, Alone, Line
<1>4. InMemory'
  <2> SUFFICES ASSUME ~clobbered', NEW q \in Process, at'[q] \in Reading \cup Cutting,
                      ~changed'[q], Alone(q)'
               PROVE  (Must \ Drops(q))' \subseteq read'[q]
    BY DEF InMemory
  <2>1. ~clobbered
    BY DEF TextTypeOK
  <2>2. at[q] \in Reading \cup Cutting /\ ~changed[q]
    BY DEF TextTypeOK, Reading, Cutting
  <2>3. Alone(q)
    BY DEF TextTypeOK, Alone, Cutting
  <2>4. q # p => at'[q] = at[q]
    BY DEF TextTypeOK
  <2>5. Must' \subseteq Must
    BY ZenonT(40) DEF TextTypeOK, Must, Announced
  <2>6. Drops(q)' = Drops(q) /\ read'[q] = read[q]
    BY <2>4 DEF TextTypeOK, Drops, Reading, Cutting
  <2> QED
    BY <2>1, <2>2, <2>3, <2>5, <2>6 DEF InMemory
<1>5. OwnName'
  BY ZenonT(40) DEF AtPlace, TextTypeOK, OwnName
<1>6. InServer'
  BY DEF AtPlace, TextTypeOK, InServer, InFile, Must, Announced, Truncated, Line
<1>7. NoneLeft'
  BY DEF AtPlace, TextTypeOK, NoneLeft, Removing
<1>8. TrustEnded'
  BY ZenonT(40) DEF AtPlace, TextTypeOK, TrustEnded, Line
<1>9. Uncut'
  BY DEF TextTypeOK, Uncut, Others
<1> QED
  BY <1>1, <1>2, <1>3, <1>4, <1>5, <1>6, <1>7, <1>8, <1>9

LEMMA DiesKeeps ==
  ASSUME IInv, NEW p \in Process, Dies(p)
  PROVE  IInv'
<1> USE LinesAssumption, MatchesAssumption DEF IInv, Dies, GoOn
<1>0. Kept' = Kept
  BY DEF Kept
<1> USE <1>0
<1>1. TextTypeOK'
  BY DEF TextTypeOK, Line, Call
<1>2. AtPlace'
  BY DEF AtPlace, TextTypeOK
<1>3. InFile'
  BY DEF AtPlace, TextTypeOK, InFile, InMemory, Truncated, Cutting, Reading, Announced, Must,
         Drops, Alone, Line
<1>4. InMemory'
  BY DEF AtPlace, TextTypeOK, InFile, InMemory, Truncated, Cutting, Reading, Announced, Must,
         Drops, Alone, Line
<1>5. OwnName'
  BY DEF AtPlace, TextTypeOK, OwnName
<1>6. InServer'
  BY DEF AtPlace, TextTypeOK, InServer, InFile, Must, Announced, Truncated, Line
<1>7. NoneLeft'
  BY DEF AtPlace, TextTypeOK, NoneLeft, Removing
<1>8. TrustEnded'
  BY ZenonT(40) DEF AtPlace, TextTypeOK, TrustEnded, Line
<1>9. Uncut'
  BY DEF TextTypeOK, Uncut, Others
<1> QED
  BY <1>1, <1>2, <1>3, <1>4, <1>5, <1>6, <1>7, <1>8, <1>9

LEMMA GrantLoadKeeps ==
  ASSUME IInv, NEW p \in Process, GrantLoad(p)
  PROVE  IInv'
<1> USE LinesAssumption, MatchesAssumption DEF IInv, GrantLoad, GoOn, Read
<1>0. Kept' = Kept
  BY DEF Kept
<1> USE <1>0
<1>1. TextTypeOK'
  <2>1. Loaded(text) \cup {name[p]} \in SUBSET Line
    BY OwnLines DEF TextTypeOK, Loaded, Line, Others
  <2>2. read' \in [Process -> SUBSET Line]
    BY <2>1 DEF TextTypeOK
  <2>3. at' \in [Process -> Call] /\ changed' \in [Process -> BOOLEAN]
    BY DEF TextTypeOK, Call
  <2> QED
    BY <2>2, <2>3 DEF TextTypeOK
<1>2. AtPlace'
  BY DEF AtPlace, TextTypeOK
<1>3. InFile'
  BY DEF AtPlace, TextTypeOK, InFile, InMemory, Truncated, Cutting, Reading, Announced, Must,
         Drops, Alone, Line
<1>4. InMemory'
  <2> SUFFICES ASSUME ~clobbered', NEW q \in Process, at'[q] \in Reading \cup Cutting,
                      ~changed'[q], Alone(q)'
               PROVE  (Must \ Drops(q))' \subseteq read'[q]
    BY DEF InMemory
  <2>1. ~clobbered /\ at[p] \notin Cutting
    BY DEF TextTypeOK, Cutting
  <2>2. Must' \subseteq Must /\ Comment \notin Must /\ Long \notin Must
    <3>1. Must' \subseteq Must
      BY DEF TextTypeOK, Must, Announced
    <3> QED
      BY <3>1, MustNames
  <2>3. CASE q = p
    <3>1. ~Truncated
      BY <2>1, <2>3 DEF TextTypeOK, Alone, Cutting, Truncated
    <3>2. Must \subseteq text
      BY <2>1, <3>1 DEF InFile
    <3>3. Must' \subseteq Loaded(text)
      BY <2>2, <3>2 DEF Loaded
    <3>4. read'[p] = Loaded(text) \cup {name[p]}
      BY DEF TextTypeOK
    <3> QED
      BY <2>3, <3>3, <3>4
  <2>4. CASE q # p
    <3>1. at[q] = at'[q] /\ changed[q] = changed'[q] /\ read'[q] = read[q] /\ name'[q] = name[q]
      BY <2>4 DEF TextTypeOK
    <3>2. Alone(q)
      BY <2>1, <2>4 DEF TextTypeOK, Alone, Cutting
    <3>3. Drops(q)' = Drops(q)
      BY <3>1 DEF Drops
    <3> QED
      BY <2>1, <2>2, <3>1, <3>2, <3>3 DEF InMemory
  <2> QED
    BY <2>3, <2>4
<1>5. OwnName'
  BY DEF AtPlace, TextTypeOK, OwnName
<1>6. InServer'
  BY DEF AtPlace, TextTypeOK, InServer, InFile, Must, Announced, Truncated, Line
<1>7. NoneLeft'
  BY DEF AtPlace, TextTypeOK, NoneLeft, Removing
<1>8. TrustEnded'
  BY DEF AtPlace, TextTypeOK, TrustEnded, Line
<1>9. Uncut'
  <2> SUFFICES ASSUME Long \notin theirs
               PROVE  /\ {Long, Cut} \cap text = {}
                      /\ \A q \in Process : {Long, Cut} \cap read'[q] = {}
    BY DEF Uncut
  <2>1. {Long, Cut} \cap text = {} /\ \A q \in Process : {Long, Cut} \cap read[q] = {}
    BY DEF Uncut
  <2>2. {Long, Cut} \cap (Loaded(text) \cup {name[p]}) = {}
    BY <2>1, OwnLines DEF Loaded, Others
  <2>3. \A q \in Process : read'[q] = read[q] \/ read'[q] = Loaded(text) \cup {name[p]}
    BY DEF TextTypeOK
  <2> QED
    BY <2>1, <2>2, <2>3
<1> QED
  BY <1>1, <1>2, <1>3, <1>4, <1>5, <1>6, <1>7, <1>8, <1>9

LEMMA TruncateKeeps ==
  ASSUME IInv, NEW p \in Process, NEW s, NEW w, Truncate(p, s, w),
         \/ s = "save" /\ w = "flush"
         \/ s = "trustsave" /\ w = "trustflush"
         \/ s = "savetasks" /\ w = "flushtasks"
  PROVE  IInv'
<1> USE LinesAssumption, MatchesAssumption DEF IInv, Truncate, GoOn, Clobber, Written
<1>0. Kept' = Kept
  BY DEF Kept
<1> USE <1>0
<1>1. TextTypeOK'
  BY DEF TextTypeOK, Line, Call
<1>2. AtPlace'
  BY DEF AtPlace, TextTypeOK
<1>3. InFile'
  BY DEF AtPlace, TextTypeOK, InFile, InMemory, Truncated, Cutting, Reading, Announced, Must,
         Drops, Alone, Line
<1>4. InMemory'
  <2> SUFFICES ASSUME ~clobbered', NEW q \in Process, at'[q] \in Reading \cup Cutting,
                      ~changed'[q], Alone(q)'
               PROVE  (Must \ Drops(q))' \subseteq read'[q]
    BY DEF InMemory
  <2>1. ~clobbered
    BY DEF TextTypeOK
  <2>2. at[q] \in Reading \cup Cutting /\ ~changed[q]
    BY DEF TextTypeOK, Reading, Cutting
  <2>3. Alone(q)
    BY DEF TextTypeOK, Alone, Cutting
  <2>4. q # p => at'[q] = at[q]
    BY DEF TextTypeOK
  <2>5. Must' \subseteq Must
    BY DEF TextTypeOK, Must, Announced
  <2>6. Drops(q)' = Drops(q) /\ read'[q] = read[q]
    BY <2>4 DEF TextTypeOK, Drops, Reading, Cutting
  <2> QED
    BY <2>1, <2>2, <2>3, <2>5, <2>6 DEF InMemory
<1>5. OwnName'
  BY ZenonT(40) DEF AtPlace, TextTypeOK, OwnName
<1>6. InServer'
  BY DEF AtPlace, TextTypeOK, InServer, InFile, Must, Announced, Truncated, Line
<1>7. NoneLeft'
  BY DEF AtPlace, TextTypeOK, NoneLeft, Removing
<1>8. TrustEnded'
  BY ZenonT(40) DEF AtPlace, TextTypeOK, TrustEnded, Line
<1>9. Uncut'
  BY DEF TextTypeOK, Uncut, Others
<1> QED
  BY <1>1, <1>2, <1>3, <1>4, <1>5, <1>6, <1>7, <1>8, <1>9

LEMMA FlushGrantKeeps ==
  ASSUME IInv, NEW p \in Process, Flush(p, "flush", "reload"), UNCHANGED granted
  PROVE  IInv'
<1> USE LinesAssumption, MatchesAssumption DEF IInv, Flush, GoOn, Clobber, Written
<1>0. Kept' = Kept
  BY DEF Kept
<1> USE <1>0
<1>1. TextTypeOK'
  BY DEF TextTypeOK, Line, Call
<1>2. AtPlace'
  BY DEF AtPlace, TextTypeOK
<1>3. InFile'
  <2> SUFFICES ASSUME ~clobbered', ~Truncated'
               PROVE  Must' \subseteq text'
    BY DEF InFile
  <2>1. ~clobbered /\ ~changed[p] /\ text' = read[p]
    BY DEF TextTypeOK
  <2>2. Alone(p)
    BY DEF TextTypeOK, Alone, Truncated, Cutting
  <2>3. Must \subseteq read[p]
    BY <2>1, <2>2 DEF InMemory, Cutting, Drops
  <2>4. Must' \subseteq Must \cup {name[p]}
    BY ZenonT(40) DEF TextTypeOK, Must, Announced
  <2> QED
    BY <2>1, <2>3, <2>4 DEF OwnName
<1>4. InMemory'
  <2>1. \A q \in Process : q # p => changed'[q]
    BY DEF TextTypeOK
  <2>2. at'[p] \notin Reading \cup Cutting
    BY DEF TextTypeOK, Reading, Cutting
  <2> QED
    BY <2>1, <2>2 DEF InMemory
<1>5. OwnName'
  BY ZenonT(40) DEF AtPlace, TextTypeOK, OwnName
<1>6. InServer'
  BY DEF AtPlace, TextTypeOK, InServer, InFile, Must, Announced, Truncated, Line
<1>7. NoneLeft'
  BY DEF AtPlace, TextTypeOK, NoneLeft, Removing
<1>8. TrustEnded'
  BY DEF AtPlace, TextTypeOK, TrustEnded, Line
<1>9. Uncut'
  BY DEF TextTypeOK, Uncut, Others
<1> QED
  BY <1>1, <1>2, <1>3, <1>4, <1>5, <1>6, <1>7, <1>8, <1>9

LEMMA FlushTrustKeeps ==
  ASSUME IInv, NEW p \in Process, Flush(p, "trustflush", "reload"), UNCHANGED granted
  PROVE  IInv'
<1> USE LinesAssumption, MatchesAssumption DEF IInv, Flush, GoOn, Clobber, Written
<1>0. Kept' = Kept
  BY DEF Kept
<1> USE <1>0
<1>1. TextTypeOK'
  BY DEF TextTypeOK, Line, Call
<1>2. AtPlace'
  BY DEF AtPlace, TextTypeOK
<1>3. InFile'
  BY ZenonT(40) DEF AtPlace, TextTypeOK, InFile, InMemory, Truncated, Cutting, Reading,
     Announced, Must,
         Drops, Alone, Line
<1>4. InMemory'
  <2>1. \A q \in Process : q # p => changed'[q]
    BY DEF TextTypeOK
  <2>2. at'[p] \notin Reading \cup Cutting
    BY DEF TextTypeOK, Reading, Cutting
  <2> QED
    BY <2>1, <2>2 DEF InMemory
<1>5. OwnName'
  BY DEF AtPlace, TextTypeOK, OwnName
<1>6. InServer'
  BY DEF AtPlace, TextTypeOK, InServer, InFile, Must, Announced, Truncated, Line
<1>7. NoneLeft'
  BY DEF AtPlace, TextTypeOK, NoneLeft, Removing
<1>8. TrustEnded'
  BY DEF AtPlace, TextTypeOK, TrustEnded, Line
<1>9. Uncut'
  BY DEF TextTypeOK, Uncut, Others
<1> QED
  BY <1>1, <1>2, <1>3, <1>4, <1>5, <1>6, <1>7, <1>8, <1>9

LEMMA FlushTasksKeeps ==
  ASSUME IInv, NEW p \in Process, Flush(p, "flushtasks", "idle"),
         granted' = granted \ Matches[name[p]]
  PROVE  IInv'
<1> USE LinesAssumption, MatchesAssumption DEF IInv, Flush, GoOn, Clobber, Written
<1>0. Kept' = Kept
  BY DEF Kept
<1> USE <1>0
<1>1. TextTypeOK'
  BY DEF TextTypeOK, Line, Call
<1>2. AtPlace'
  BY DEF AtPlace, TextTypeOK
<1>3. InFile'
  <2> SUFFICES ASSUME ~clobbered', ~Truncated'
               PROVE  Must' \subseteq text'
    BY DEF InFile
  <2>1. ~clobbered /\ ~changed[p] /\ text' = read[p]
    BY DEF TextTypeOK
  <2>2. Alone(p)
    BY DEF TextTypeOK, Alone, Truncated, Cutting
  <2>3. Must \ Matches[name[p]] \subseteq read[p]
    BY <2>1, <2>2 DEF InMemory, Cutting, Drops
  <2>4. Must' \subseteq Must \ Matches[name[p]]
    <3>1. \A q \in Process : at'[q] \notin Announced
      BY <1>2 DEF TextTypeOK, AtPlace, Announced
    <3>2. Matches[name[p]] \subseteq Name /\ Kept \cap Name = {}
      BY OwnLines DEF TextTypeOK, Kept
    <3> QED
      BY <3>1, <3>2 DEF Must
  <2> QED
    BY <2>1, <2>3, <2>4
<1>4. InMemory'
  <2>1. \A q \in Process : q # p => changed'[q]
    BY DEF TextTypeOK
  <2>2. at'[p] \notin Reading \cup Cutting
    BY DEF TextTypeOK, Reading, Cutting
  <2> QED
    BY <2>1, <2>2 DEF InMemory
<1>5. OwnName'
  BY ZenonT(40) DEF AtPlace, TextTypeOK, OwnName
<1>6. InServer'
  BY DEF AtPlace, TextTypeOK, InServer, InFile, Must, Announced, Truncated, Line
<1>7. NoneLeft'
  BY DEF AtPlace, TextTypeOK, NoneLeft, Removing
<1>8. TrustEnded'
  BY DEF AtPlace, TextTypeOK, TrustEnded, Line
<1>9. Uncut'
  BY DEF TextTypeOK, Uncut, Others
<1> QED
  BY <1>1, <1>2, <1>3, <1>4, <1>5, <1>6, <1>7, <1>8, <1>9

LEMMA ReloadConfigKeeps ==
  ASSUME IInv, NEW p \in Process, ReloadConfig(p)
  PROVE  IInv'
<1> USE LinesAssumption, MatchesAssumption DEF IInv, ReloadConfig, GoOn
<1>0. Kept' = Kept
  BY DEF Kept
<1> USE <1>0
<1>1. TextTypeOK'
  <2>1. /\ place' \in {"hba", "hba of a monitored node", "crontab", "targets"}
        /\ theirs' \in SUBSET Others
    BY DEF TextTypeOK
  <2>2. edits' \in Nat
    BY DEF TextTypeOK
  <2>3. text' \in SUBSET Line /\ active' \in SUBSET Line
    <3>1. name[p] \in Name
      BY DEF TextTypeOK
    <3>2. name[p] \in Line
      BY <3>1 DEF Line
    <3> QED
      BY <3>2 DEF TextTypeOK
  <2>4. granted' \in SUBSET Name
    BY DEF TextTypeOK
  <2>5. clobbered' \in BOOLEAN
    BY DEF TextTypeOK
  <2>6. at' \in [Process -> Call]
    BY DEF TextTypeOK, Call
  <2>7. /\ name' \in [Process -> Name] /\ read' \in [Process -> SUBSET Line]
        /\ changed' \in [Process -> BOOLEAN]
    BY DEF TextTypeOK, Line
  <2> QED
    BY <2>1, <2>2, <2>3, <2>4, <2>5, <2>6, <2>7 DEF TextTypeOK
<1>2. AtPlace'
  BY DEF AtPlace, TextTypeOK
<1>3. InFile'
  BY ZenonT(40) DEF AtPlace, TextTypeOK, InFile, InMemory, Truncated, Cutting, Reading,
     Announced, Must,
         Drops, Alone, Line
<1>4. InMemory'
  <2>1. /\ \A q \in Process : q # p => at'[q] = at[q]
        /\ at[p] \notin Cutting /\ at'[p] \notin Reading \cup Cutting
    BY DEF TextTypeOK, Cutting, Reading
  <2>2. Must' \subseteq Must
    BY DEF TextTypeOK, Must, Announced
  <2> QED
    BY <2>1, <2>2, MemoryKept
<1>5. OwnName'
  BY ZenonT(40) DEF AtPlace, TextTypeOK, OwnName
<1>a. ~clobbered' /\ (place = "hba" => Long \notin theirs)
        => active' = text /\ granted \cup {Foreign, name[p]} \subseteq text
  <2> SUFFICES ASSUME ~clobbered', place = "hba" => Long \notin theirs
               PROVE  active' = text /\ granted \cup {Foreign, name[p]} \subseteq text
    OBVIOUS
  <2>1. ~clobbered /\ ~Truncated
    BY DEF TextTypeOK, AtPlace, Truncated
  <2>2. name[p] \in Must
    BY OwnLines DEF Must, Announced
  <2>3. granted \cup {Foreign, name[p]} \subseteq text
    BY <2>1, <2>2, MustHas DEF InFile
  <2>4. Cut \notin text /\ ~(text \subseteq {Comment})
    BY <2>3 DEF Uncut, Foreign, Comment
  <2> QED
    BY <2>3, <2>4
<1>6. InServer'
  BY <1>a DEF InServer
<1>7. NoneLeft'
  BY DEF AtPlace, TextTypeOK, NoneLeft, Removing
<1>8. TrustEnded'
  <2>1. \A q \in Process : at'[q] = at[q] \/ at'[q] = "idle"
    BY DEF TextTypeOK
  <2>2. place = "hba of a monitored node" => Trust \notin text
    BY DEF TrustEnded
  <2>3. place = "hba of a monitored node" => clobbered' \/ Trust \notin active'
    BY <1>a, <2>2
  <2> QED
    BY <2>1, <2>2, <2>3 DEF TrustEnded
<1>9. Uncut'
  BY DEF TextTypeOK, Uncut, Others
<1> QED
  BY <1>1, <1>2, <1>3, <1>4, <1>5, <1>6, <1>7, <1>8, <1>9

LEMMA CheckDuplicateKeeps ==
  ASSUME IInv, NEW p \in Process, CheckDuplicate(p)
  PROVE  IInv'
<1> USE LinesAssumption, MatchesAssumption DEF IInv, CheckDuplicate, GoOn
<1>0. Kept' = Kept
  BY DEF Kept
<1> USE <1>0
<1>1. TextTypeOK'
  BY DEF TextTypeOK, Line, Call
<1>2. AtPlace'
  BY DEF AtPlace, TextTypeOK
<1>3. InFile'
  BY ZenonT(40) DEF AtPlace, TextTypeOK, InFile, InMemory, Truncated, Cutting, Reading,
     Announced, Must,
         Drops, Alone, Line
<1>4. InMemory'
  <2>1. /\ \A q \in Process : q # p => at'[q] = at[q]
        /\ at[p] \notin Cutting /\ at'[p] \notin Reading \cup Cutting
    BY DEF TextTypeOK, Cutting, Reading
  <2>2. Must' \subseteq Must
    BY DEF TextTypeOK, Must, Announced
  <2> QED
    BY <2>1, <2>2, MemoryKept
<1>5. OwnName'
  BY ZenonT(40) DEF AtPlace, TextTypeOK, OwnName
<1>6. InServer'
  BY DEF AtPlace, TextTypeOK, InServer, InFile, Must, Announced, Truncated, Line
<1>7. NoneLeft'
  BY DEF AtPlace, TextTypeOK, NoneLeft, Removing
<1>8. TrustEnded'
  BY ZenonT(40) DEF AtPlace, TextTypeOK, TrustEnded, Line
<1>9. Uncut'
  BY DEF TextTypeOK, Uncut, Others
<1> QED
  BY <1>1, <1>2, <1>3, <1>4, <1>5, <1>6, <1>7, <1>8, <1>9

LEMMA AppendGrantKeeps ==
  ASSUME IInv, NEW p \in Process, AppendGrant(p)
  PROVE  IInv'
<1> USE LinesAssumption, MatchesAssumption DEF IInv, AppendGrant, GoOn, Written
<1>0. Kept' = Kept
  BY DEF Kept
<1> USE <1>0
<1>1. TextTypeOK'
  <2>1. /\ place' \in {"hba", "hba of a monitored node", "crontab", "targets"}
        /\ theirs' \in SUBSET Others
    BY DEF TextTypeOK
  <2>2. edits' \in Nat
    BY DEF TextTypeOK
  <2>3. text' \in SUBSET Line /\ active' \in SUBSET Line
    <3>1. name[p] \in Name
      BY DEF TextTypeOK
    <3>2. name[p] \in Line
      BY <3>1 DEF Line
    <3> QED
      BY <3>2 DEF TextTypeOK
  <2>4. granted' \in SUBSET Name
    BY DEF TextTypeOK
  <2>5. clobbered' \in BOOLEAN
    BY DEF TextTypeOK
  <2>6. at' \in [Process -> Call]
    BY DEF TextTypeOK, Call
  <2>7. /\ name' \in [Process -> Name] /\ read' \in [Process -> SUBSET Line]
        /\ changed' \in [Process -> BOOLEAN]
    BY DEF TextTypeOK, Line
  <2> QED
    BY <2>1, <2>2, <2>3, <2>4, <2>5, <2>6, <2>7 DEF TextTypeOK
<1>2. AtPlace'
  BY DEF AtPlace, TextTypeOK
<1>3. InFile'
  <2>1. Must' \subseteq Must \cup {name[p]}
    BY ZenonT(40) DEF TextTypeOK, Must, Announced
  <2>2. Truncated => Truncated'
    BY DEF TextTypeOK, Truncated
  <2> QED
    BY <2>1, <2>2 DEF InFile
<1>4. InMemory'
  <2>1. \A q \in Process : q # p => changed'[q]
    BY DEF TextTypeOK
  <2>2. at'[p] \notin Reading \cup Cutting
    BY DEF TextTypeOK, Reading, Cutting
  <2> QED
    BY <2>1, <2>2 DEF InMemory
<1>5. OwnName'
  BY ZenonT(40) DEF AtPlace, TextTypeOK, OwnName
<1>6. InServer'
  BY DEF AtPlace, TextTypeOK, InServer, InFile, Must, Announced, Truncated, Line
<1>7. NoneLeft'
  BY DEF AtPlace, TextTypeOK, NoneLeft, Removing
<1>8. TrustEnded'
  BY ZenonT(40) DEF AtPlace, TextTypeOK, TrustEnded, Line
<1>9. Uncut'
  BY OwnLines DEF Uncut, Others
<1> QED
  BY <1>1, <1>2, <1>3, <1>4, <1>5, <1>6, <1>7, <1>8, <1>9

LEMMA ReadTrustKeeps ==
  ASSUME IInv, NEW p \in Process, ReadTrust(p)
  PROVE  IInv'
<1> USE LinesAssumption, MatchesAssumption DEF IInv, ReadTrust, Read, GoOn
<1>0. Kept' = Kept
  BY DEF Kept
<1> USE <1>0
<1>1. TextTypeOK'
  <2>1. /\ place' \in {"hba", "hba of a monitored node", "crontab", "targets"}
        /\ theirs' \in SUBSET Others
    BY DEF TextTypeOK
  <2>2. edits' \in Nat
    BY DEF TextTypeOK
  <2>3. text' \in SUBSET Line /\ active' \in SUBSET Line
    <3>1. name[p] \in Name
      BY DEF TextTypeOK
    <3>2. name[p] \in Line
      BY <3>1 DEF Line
    <3> QED
      BY <3>2 DEF TextTypeOK
  <2>4. granted' \in SUBSET Name
    BY DEF TextTypeOK
  <2>5. clobbered' \in BOOLEAN
    BY DEF TextTypeOK
  <2>6. at' \in [Process -> Call]
    BY DEF TextTypeOK, Call
  <2>7. {IF l = Trust THEN Md5 ELSE l : l \in text} \in SUBSET Line
    <3>1. \A l \in text : (IF l = Trust THEN Md5 ELSE l) \in Line
      BY DEF TextTypeOK, Line
    <3> QED
      BY <3>1, Zenon
  <2>8. /\ name' \in [Process -> Name] /\ read' \in [Process -> SUBSET Line]
        /\ changed' \in [Process -> BOOLEAN]
    BY <2>7 DEF TextTypeOK
  <2> QED
    BY <2>1, <2>2, <2>3, <2>4, <2>5, <2>6, <2>8 DEF TextTypeOK
<1>2. AtPlace'
  BY DEF AtPlace, TextTypeOK
<1>3. InFile'
  BY ZenonT(40) DEF AtPlace, TextTypeOK, InFile, InMemory, Truncated, Cutting, Reading,
     Announced, Must,
         Drops, Alone, Line
<1>4. InMemory'
  <2> SUFFICES ASSUME ~clobbered', NEW q \in Process, at'[q] \in Reading \cup Cutting,
                      ~changed'[q], Alone(q)'
               PROVE  (Must \ Drops(q))' \subseteq read'[q]
    BY DEF InMemory
  <2>1. ~clobbered /\ at[p] \notin Cutting
    BY DEF TextTypeOK, Cutting
  <2>2. Must' \subseteq Must /\ Trust \notin Must /\ Md5 \notin Must
    <3>1. Must' \subseteq Must
      BY DEF TextTypeOK, Must, Announced
    <3> QED
      BY <3>1, MustNames
  <2>3. CASE q = p
    <3>1. ~Truncated
      BY <2>1, <2>3 DEF TextTypeOK, Alone, Cutting, Truncated
    <3>2. Must \subseteq text
      BY <2>1, <3>1 DEF InFile
    <3>3. read'[p] = {IF l = Trust THEN Md5 ELSE l : l \in text}
      BY DEF TextTypeOK
    <3>4. Must' \subseteq read'[p]
      BY <2>2, <3>2, <3>3
    <3> QED
      BY <2>3, <3>4
  <2>4. CASE q # p
    <3>1. at[q] = at'[q] /\ changed[q] = changed'[q] /\ read'[q] = read[q] /\ name'[q] = name[q]
      BY <2>4 DEF TextTypeOK
    <3>2. Alone(q)
      BY <2>1, <2>4 DEF TextTypeOK, Alone, Cutting
    <3>3. Drops(q)' = Drops(q)
      BY <3>1 DEF Drops
    <3> QED
      BY <2>1, <2>2, <3>1, <3>2, <3>3 DEF InMemory
  <2> QED
    BY <2>3, <2>4
<1>5. OwnName'
  BY ZenonT(40) DEF AtPlace, TextTypeOK, OwnName
<1>6. InServer'
  BY DEF AtPlace, TextTypeOK, InServer, InFile, Must, Announced, Truncated, Line
<1>7. NoneLeft'
  BY DEF AtPlace, TextTypeOK, NoneLeft, Removing
<1>8. TrustEnded'
  <2>1. Trust \notin {IF l = Trust THEN Md5 ELSE l : l \in text}
    BY DEF Trust, Md5
  <2>2. \A q \in Process : q # p => at'[q] = at[q] /\ read'[q] = read[q]
    BY DEF TextTypeOK
  <2>3. at'[p] = "trustsave" /\ read'[p] = {IF l = Trust THEN Md5 ELSE l : l \in text}
    BY DEF TextTypeOK
  <2> QED
    BY <2>1, <2>2, <2>3 DEF TrustEnded
<1>9. Uncut'
  <2> SUFFICES ASSUME {Long, Cut} \cap text = {},
                      \A q \in Process : {Long, Cut} \cap read[q] = {}
               PROVE  \A q \in Process : {Long, Cut} \cap read'[q] = {}
    BY DEF Uncut
  <2>1. {Long, Cut} \cap {IF l = Trust THEN Md5 ELSE l : l \in text} = {}
    BY DEF Long, Cut, Md5
  <2> QED
    BY <2>1 DEF TextTypeOK
<1> QED
  BY <1>1, <1>2, <1>3, <1>4, <1>5, <1>6, <1>7, <1>8, <1>9

LEMMA CheckTaskKeeps ==
  ASSUME IInv, NEW p \in Process, CheckTask(p)
  PROVE  IInv'
<1> USE LinesAssumption, MatchesAssumption DEF IInv, CheckTask, GoOn
<1>0. Kept' = Kept
  BY DEF Kept
<1> USE <1>0
<1>1. TextTypeOK'
  BY DEF TextTypeOK, Line, Call
<1>2. AtPlace'
  BY DEF AtPlace, TextTypeOK
<1>3. InFile'
  <2>1. at[p] = "checktask" /\ place = "crontab"
    BY DEF AtPlace
  <2>2. \A q \in Process : q # p => at'[q] = at[q]
    BY DEF TextTypeOK
  <2>3. at'[p] = "addtask"
    BY DEF TextTypeOK
  <2>4. Must' \subseteq Must
    BY <2>1, <2>2, <2>3 DEF Must, Announced
  <2>5. Truncated' = Truncated
    BY <2>1, <2>2, <2>3 DEF Truncated, Cutting
  <2> QED
    BY <2>4, <2>5 DEF InFile
<1>4. InMemory'
  <2> SUFFICES ASSUME ~clobbered', NEW q \in Process, at'[q] \in Reading \cup Cutting,
                      ~changed'[q], Alone(q)'
               PROVE  (Must \ Drops(q))' \subseteq read'[q]
    BY DEF InMemory
  <2>1. ~clobbered
    BY DEF TextTypeOK
  <2>2. at[q] \in Reading \cup Cutting /\ ~changed[q]
    BY DEF TextTypeOK, Reading, Cutting
  <2>3. Alone(q)
    BY DEF TextTypeOK, Alone, Cutting
  <2>4. q # p => at'[q] = at[q]
    BY DEF TextTypeOK
  <2>5. Must' \subseteq Must
    BY DEF TextTypeOK, Must, Announced
  <2>6. Drops(q)' = Drops(q) /\ read'[q] = read[q]
    BY <2>4 DEF TextTypeOK, Drops, Reading, Cutting
  <2> QED
    BY <2>1, <2>2, <2>3, <2>5, <2>6 DEF InMemory
<1>5. OwnName'
  BY ZenonT(40) DEF AtPlace, TextTypeOK, OwnName
<1>6. InServer'
  BY DEF AtPlace, TextTypeOK, InServer, InFile, Must, Announced, Truncated, Line
<1>7. NoneLeft'
  BY DEF AtPlace, TextTypeOK, NoneLeft, Removing
<1>8. TrustEnded'
  BY DEF AtPlace, TextTypeOK, TrustEnded, Line
<1>9. Uncut'
  BY DEF TextTypeOK, Uncut, Others
<1> QED
  BY <1>1, <1>2, <1>3, <1>4, <1>5, <1>6, <1>7, <1>8, <1>9

LEMMA AppendTaskKeeps ==
  ASSUME IInv, NEW p \in Process, AppendTask(p)
  PROVE  IInv'
<1> USE LinesAssumption, MatchesAssumption DEF IInv, AppendTask, GoOn, Written
<1>0. Kept' = Kept
  BY DEF Kept
<1> USE <1>0
<1>1. TextTypeOK'
  <2>1. /\ place' \in {"hba", "hba of a monitored node", "crontab", "targets"}
        /\ theirs' \in SUBSET Others
    BY DEF TextTypeOK
  <2>2. edits' \in Nat
    BY DEF TextTypeOK
  <2>3. text' \in SUBSET Line /\ active' \in SUBSET Line
    <3>1. name[p] \in Name
      BY DEF TextTypeOK
    <3>2. name[p] \in Line
      BY <3>1 DEF Line
    <3> QED
      BY <3>2 DEF TextTypeOK
  <2>4. granted' \in SUBSET Name
    BY DEF TextTypeOK
  <2>5. clobbered' \in BOOLEAN
    BY DEF TextTypeOK
  <2>6. at' \in [Process -> Call]
    BY DEF TextTypeOK, Call
  <2>7. /\ name' \in [Process -> Name] /\ read' \in [Process -> SUBSET Line]
        /\ changed' \in [Process -> BOOLEAN]
    BY DEF TextTypeOK, Line
  <2> QED
    BY <2>1, <2>2, <2>3, <2>4, <2>5, <2>6, <2>7 DEF TextTypeOK
<1>2. AtPlace'
  BY DEF AtPlace, TextTypeOK
<1>3. InFile'
  <2>1. Must' \subseteq Must \cup {name[p]}
    BY ZenonT(40) DEF TextTypeOK, Must, Announced
  <2>2. Truncated => Truncated'
    BY DEF TextTypeOK, Truncated
  <2> QED
    BY <2>1, <2>2 DEF InFile
<1>4. InMemory'
  <2>1. \A q \in Process : q # p => changed'[q]
    BY DEF TextTypeOK
  <2>2. at'[p] \notin Reading \cup Cutting
    BY DEF TextTypeOK, Reading, Cutting
  <2> QED
    BY <2>1, <2>2 DEF InMemory
<1>5. OwnName'
  BY ZenonT(40) DEF AtPlace, TextTypeOK, OwnName
<1>6. InServer'
  BY DEF AtPlace, TextTypeOK, InServer, InFile, Must, Announced, Truncated, Line
<1>7. NoneLeft'
  BY DEF AtPlace, TextTypeOK, NoneLeft, Removing
<1>8. TrustEnded'
  BY DEF AtPlace, TextTypeOK, TrustEnded, Line
<1>9. Uncut'
  BY OwnLines DEF Uncut, Others
<1> QED
  BY <1>1, <1>2, <1>3, <1>4, <1>5, <1>6, <1>7, <1>8, <1>9

LEMMA ReadTasksKeeps ==
  ASSUME IInv, NEW p \in Process, ReadTasks(p)
  PROVE  IInv'
<1> USE LinesAssumption, MatchesAssumption DEF IInv, ReadTasks, Read, GoOn
<1>0. Kept' = Kept
  BY DEF Kept
<1> USE <1>0
<1>1. TextTypeOK'
  BY DEF TextTypeOK, Line, Call
<1>2. AtPlace'
  BY DEF AtPlace, TextTypeOK
<1>3. InFile'
  BY ZenonT(40) DEF AtPlace, TextTypeOK, InFile, InMemory, Truncated, Cutting, Reading,
     Announced, Must,
         Drops, Alone, Line
<1>4. InMemory'
  <2> SUFFICES ASSUME ~clobbered', NEW q \in Process, at'[q] \in Reading \cup Cutting,
                      ~changed'[q], Alone(q)'
               PROVE  (Must \ Drops(q))' \subseteq read'[q]
    BY DEF InMemory
  <2>1. ~clobbered /\ at[p] \notin Cutting
    BY DEF TextTypeOK, Cutting
  <2>2. Must' \subseteq Must
    <3>1. Must' \subseteq Must
      BY DEF TextTypeOK, Must, Announced
    <3> QED
      BY <3>1, MustNames
  <2>3. CASE q = p
    <3>1. ~Truncated
      BY <2>1, <2>3 DEF TextTypeOK, Alone, Cutting, Truncated
    <3>2. Must \subseteq text
      BY <2>1, <3>1 DEF InFile
    <3>3. Must' \ Drops(p)' \subseteq read'[p]
      BY <2>2, <3>2, MatchesAssumption DEF TextTypeOK, Drops, AtPlace
    <3> QED
      BY <2>3, <3>3
  <2>4. CASE q # p
    <3>1. at[q] = at'[q] /\ changed[q] = changed'[q] /\ read'[q] = read[q] /\ name'[q] = name[q]
      BY <2>4 DEF TextTypeOK
    <3>2. Alone(q)
      BY <2>1, <2>4 DEF TextTypeOK, Alone, Cutting
    <3>3. Drops(q)' = Drops(q)
      BY <3>1 DEF Drops
    <3> QED
      BY <2>1, <2>2, <3>1, <3>2, <3>3 DEF InMemory
  <2> QED
    BY <2>3, <2>4
<1>5. OwnName'
  BY DEF AtPlace, TextTypeOK, OwnName
<1>6. InServer'
  BY DEF AtPlace, TextTypeOK, InServer, InFile, Must, Announced, Truncated, Line
<1>7. NoneLeft'
  BY DEF AtPlace, TextTypeOK, NoneLeft, Removing
<1>8. TrustEnded'
  BY DEF AtPlace, TextTypeOK, TrustEnded, Line
<1>9. Uncut'
  BY DEF TextTypeOK, Uncut, Others
<1> QED
  BY <1>1, <1>2, <1>3, <1>4, <1>5, <1>6, <1>7, <1>8, <1>9

LEMMA RunKeeps ==
  ASSUME IInv, NEW p \in Process, Run(p)
  PROVE  IInv'
<1> USE LinesAssumption, MatchesAssumption DEF IInv, Run, GoOn, Written
<1>0. Kept' = Kept
  BY DEF Kept
<1> USE <1>0
<1>1. TextTypeOK'
  <2>1. /\ place' \in {"hba", "hba of a monitored node", "crontab", "targets"}
        /\ theirs' \in SUBSET Others
    BY DEF TextTypeOK
  <2>2. edits' \in Nat
    BY DEF TextTypeOK
  <2>3. text' \in SUBSET Line /\ active' \in SUBSET Line
    <3>1. name[p] \in Name
      BY DEF TextTypeOK
    <3>2. name[p] \in Line
      BY <3>1 DEF Line
    <3> QED
      BY <3>2 DEF TextTypeOK
  <2>4. granted' \in SUBSET Name
    BY DEF TextTypeOK
  <2>5. clobbered' \in BOOLEAN
    BY DEF TextTypeOK
  <2>6. at' \in [Process -> Call]
    BY DEF TextTypeOK, Call
  <2>7. /\ name' \in [Process -> Name] /\ read' \in [Process -> SUBSET Line]
        /\ changed' \in [Process -> BOOLEAN]
    BY DEF TextTypeOK, Line
  <2> QED
    BY <2>1, <2>2, <2>3, <2>4, <2>5, <2>6, <2>7 DEF TextTypeOK
<1>2. AtPlace'
  BY DEF AtPlace, TextTypeOK
<1>3. InFile'
  <2>1. Must' \subseteq Must \cup {name[p]}
    BY ZenonT(40) DEF TextTypeOK, Must, Announced
  <2>2. Truncated => Truncated'
    BY DEF TextTypeOK, Truncated
  <2> QED
    BY <2>1, <2>2 DEF InFile
<1>4. InMemory'
  <2>1. \A q \in Process : q # p => changed'[q]
    BY DEF TextTypeOK
  <2>2. at'[p] \notin Reading \cup Cutting
    BY DEF TextTypeOK, Reading, Cutting
  <2> QED
    BY <2>1, <2>2 DEF InMemory
<1>5. OwnName'
  BY ZenonT(40) DEF AtPlace, TextTypeOK, OwnName
<1>6. InServer'
  BY DEF AtPlace, TextTypeOK, InServer, InFile, Must, Announced, Truncated, Line
<1>7. NoneLeft'
  BY DEF AtPlace, TextTypeOK, NoneLeft, Removing
<1>8. TrustEnded'
  BY DEF AtPlace, TextTypeOK, TrustEnded, Line
<1>9. Uncut'
  BY OwnLines DEF Uncut, Others
<1> QED
  BY <1>1, <1>2, <1>3, <1>4, <1>5, <1>6, <1>7, <1>8, <1>9

LEMMA RunDeregisterKeeps ==
  ASSUME IInv, NEW p \in Process, RunDeregister(p)
  PROVE  IInv'
<1> USE LinesAssumption, MatchesAssumption DEF IInv
<1>0. Kept' = Kept
  BY DEF Kept, RunDeregister
<1>a. place = "targets" /\ at[p] = "deregister"
  BY DEF AtPlace, RunDeregister
<1>b. /\ at' \in {[at EXCEPT ![p] = "removed"], [at EXCEPT ![p] = "idle"]}
      /\ text' \in {text, text \ {name[p]}}
      /\ changed' \in {changed, [q \in Process |-> q # p]}
  BY DEF RunDeregister, GoOn, Written
<1>c. /\ granted' = granted \ {name[p]}
      /\ UNCHANGED <<place, theirs, active, name, read, clobbered, edits>>
  BY DEF RunDeregister
<1>d. /\ at'[p] = "idle" => name[p] \notin text'
      /\ text' # text => at'[p] = "removed"
  BY DEF RunDeregister, GoOn, TextTypeOK
<1>e. /\ \A q \in Process : q # p => at'[q] = at[q]
      /\ at'[p] \in {"removed", "idle"}
  BY <1>b DEF TextTypeOK
<1>1. TextTypeOK'
  <2>1. at' \in [Process -> Call]
    BY <1>b DEF TextTypeOK, Call
  <2>2. text' \in SUBSET Line /\ changed' \in [Process -> BOOLEAN]
    BY <1>b DEF TextTypeOK
  <2> QED
    BY <2>1, <2>2, <1>c DEF TextTypeOK
<1>2. AtPlace'
  <2> SUFFICES ASSUME NEW q \in Process
               PROVE  /\ at'[q] \in Call
                      /\ at'[q] = "idle" \/ at'[q] \in {"register", "deregister", "registered",
                                                       "removed"}
    BY <1>a, <1>c DEF AtPlace
  <2>1. at[q] \in {"idle", "register", "deregister", "registered", "removed"}
    BY <1>a DEF AtPlace, TextTypeOK, Call
  <2> QED
    BY <1>1, <1>e, <2>1 DEF TextTypeOK
<1>f. /\ \A q \in Process : at[q] \notin Announced \cup Reading \cup Cutting
      /\ \A q \in Process : at'[q] \notin Announced \cup Reading \cup Cutting
  BY <1>a, <1>c, <1>2 DEF AtPlace, Announced, Reading, Cutting
<1>3. InFile'
  <2> SUFFICES ASSUME ~clobbered'
               PROVE  Must' \subseteq text'
    BY DEF InFile
  <2>1. ~clobbered /\ ~Truncated
    BY <1>c, <1>f DEF Truncated, Cutting
  <2>2. Must' = {l \in Line : l \in (granted \ {name[p]}) \cup Kept}
    BY <1>0, <1>c, <1>f DEF Must
  <2>3. granted \cup Kept \subseteq text
    BY <2>1, MustHas DEF InFile
  <2>4. name[p] \notin Kept
    BY OwnLines DEF Kept, TextTypeOK
  <2> QED
    BY <1>b, <2>2, <2>3, <2>4
<1>4. InMemory'
  BY <1>f DEF InMemory
<1>5. OwnName'
  BY <1>f DEF OwnName, Reading, Cutting
<1>6. InServer'
  BY <1>c DEF InServer
<1>7. NoneLeft'
  <2>1. CASE text' = text
    BY <1>c, <1>e, <2>1 DEF NoneLeft, Removing, RunDeregister
  <2>2. CASE text' # text
    BY <1>d, <2>2 DEF NoneLeft, Removing
  <2> QED
    BY <2>1, <2>2
<1>8. TrustEnded'
  BY <1>a, <1>c, <1>f DEF TrustEnded, Reading, Cutting
<1>9. Uncut'
  BY <1>b, <1>c DEF Uncut
<1> QED
  BY <1>1, <1>2, <1>3, <1>4, <1>5, <1>6, <1>7, <1>8, <1>9

LEMMA PostKeeps ==
  ASSUME IInv, NEW p \in Process, Post(p)
  PROVE  IInv'
<1> USE LinesAssumption, MatchesAssumption DEF IInv, Post, GoOn
<1>0. Kept' = Kept
  BY DEF Kept
<1> USE <1>0
<1>1. TextTypeOK'
  <2>1. /\ place' \in {"hba", "hba of a monitored node", "crontab", "targets"}
        /\ theirs' \in SUBSET Others
    BY DEF TextTypeOK
  <2>2. edits' \in Nat
    BY DEF TextTypeOK
  <2>3. text' \in SUBSET Line /\ active' \in SUBSET Line
    <3>1. name[p] \in Name
      BY DEF TextTypeOK
    <3>2. name[p] \in Line
      BY <3>1 DEF Line
    <3> QED
      BY <3>2 DEF TextTypeOK
  <2>4. granted' \in SUBSET Name
    BY DEF TextTypeOK
  <2>5. clobbered' \in BOOLEAN
    BY DEF TextTypeOK
  <2>6. at' \in [Process -> Call]
    BY DEF TextTypeOK, Call
  <2>7. /\ name' \in [Process -> Name] /\ read' \in [Process -> SUBSET Line]
        /\ changed' \in [Process -> BOOLEAN]
    BY DEF TextTypeOK, Line
  <2> QED
    BY <2>1, <2>2, <2>3, <2>4, <2>5, <2>6, <2>7 DEF TextTypeOK
<1>2. AtPlace'
  BY DEF AtPlace, TextTypeOK
<1>a. /\ at[p] \in {"registered", "removed"} /\ place = "targets"
      /\ \A q \in Process : at[q] \notin Announced \cup Cutting
      /\ \A q \in Process : at'[q] \notin Announced \cup Cutting
  BY <1>2 DEF AtPlace, Announced, Cutting
<1>b. ~clobbered' => ~clobbered /\ active' = text /\ granted' \cup Kept \subseteq text
  <2> SUFFICES ASSUME ~clobbered'
               PROVE  ~clobbered /\ active' = text /\ granted' \cup Kept \subseteq text
    OBVIOUS
  <2>1. /\ ~clobbered /\ active' = text
        /\ at[p] = "registered" => name[p] \in text
    OBVIOUS
  <2>2. ~Truncated
    BY <1>a DEF Truncated, Cutting
  <2>3. granted \cup Kept \subseteq text
    BY <2>1, <2>2, MustHas DEF InFile
  <2> QED
    BY <2>1, <2>3
<1>3. InFile'
  <2>1. Must' = {l \in Line : l \in granted' \cup Kept}
    BY <1>0, <1>a DEF Must
  <2> QED
    BY <1>b, <2>1 DEF InFile
<1>4. InMemory'
  <2>1. \A q \in Process : at'[q] \notin Reading \cup Cutting
    BY DEF TextTypeOK, AtPlace, Reading, Cutting
  <2> QED
    BY <2>1 DEF InMemory
<1>5. OwnName'
  BY ZenonT(40) DEF AtPlace, TextTypeOK, OwnName
<1>6. InServer'
  BY <1>b DEF InServer, Uncut, Kept, Foreign, Comment, Long
<1>7. NoneLeft'
  BY DEF AtPlace, TextTypeOK, NoneLeft, Removing
<1>8. TrustEnded'
  BY DEF AtPlace, TextTypeOK, TrustEnded, Line
<1>9. Uncut'
  BY DEF TextTypeOK, Uncut, Others
<1> QED
  BY <1>1, <1>2, <1>3, <1>4, <1>5, <1>6, <1>7, <1>8, <1>9

LEMMA PostFailsKeeps ==
  ASSUME IInv, NEW p \in Process, PostFails(p)
  PROVE  IInv'
<1> USE LinesAssumption, MatchesAssumption DEF IInv, PostFails, GoOn
<1>0. Kept' = Kept
  BY DEF Kept
<1> USE <1>0
<1>1. TextTypeOK'
  BY DEF TextTypeOK, Line, Call
<1>2. AtPlace'
  BY DEF AtPlace, TextTypeOK
<1>3. InFile'
  BY DEF AtPlace, TextTypeOK, InFile, InMemory, Truncated, Cutting, Reading, Announced, Must,
         Drops, Alone, Line
<1>4. InMemory'
  <2> SUFFICES ASSUME ~clobbered', NEW q \in Process, at'[q] \in Reading \cup Cutting,
                      ~changed'[q], Alone(q)'
               PROVE  (Must \ Drops(q))' \subseteq read'[q]
    BY DEF InMemory
  <2>1. ~clobbered
    BY DEF TextTypeOK
  <2>2. at[q] \in Reading \cup Cutting /\ ~changed[q]
    BY DEF TextTypeOK, Reading, Cutting
  <2>3. Alone(q)
    BY DEF TextTypeOK, Alone, Cutting
  <2>4. q # p => at'[q] = at[q]
    BY DEF TextTypeOK
  <2>5. Must' \subseteq Must
    BY DEF TextTypeOK, Must, Announced
  <2>6. Drops(q)' = Drops(q) /\ read'[q] = read[q]
    BY <2>4 DEF TextTypeOK, Drops, Reading, Cutting
  <2> QED
    BY <2>1, <2>2, <2>3, <2>5, <2>6 DEF InMemory
<1>5. OwnName'
  BY DEF AtPlace, TextTypeOK, OwnName
<1>6. InServer'
  BY DEF AtPlace, TextTypeOK, InServer, InFile, Must, Announced, Truncated, Line
<1>7. NoneLeft'
  BY DEF AtPlace, TextTypeOK, NoneLeft, Removing
<1>8. TrustEnded'
  BY DEF AtPlace, TextTypeOK, TrustEnded, Line
<1>9. Uncut'
  BY DEF TextTypeOK, Uncut, Others
<1> QED
  BY <1>1, <1>2, <1>3, <1>4, <1>5, <1>6, <1>7, <1>8, <1>9

-------------------------------------------------------------------------------
LEMMA BeginKeeps ==
  ASSUME IInv, NEW p \in Process, Begin(p)
  PROVE  IInv'
<1>1. PICK n \in Name :
        \/ place \in {"hba", "hba of a monitored node"} /\ Start(p, n, "load")
        \/ place = "hba of a monitored node" /\ Start(p, n, "check")
        \/ place = "crontab" /\ (Start(p, n, "checktask") \/ Start(p, n, "readtasks"))
        \/ place = "targets" /\ (Start(p, n, "register") \/ Start(p, n, "deregister"))
  BY DEF Begin
<1>2. CASE place \in {"hba", "hba of a monitored node"} /\ Start(p, n, "load")
  BY <1>2, StartKeeps
<1>3. CASE place = "hba of a monitored node" /\ Start(p, n, "check")
  BY <1>3, StartKeeps
<1>4. CASE place = "crontab" /\ Start(p, n, "checktask")
  BY <1>4, StartKeeps
<1>5. CASE place = "crontab" /\ Start(p, n, "readtasks")
  BY <1>5, StartKeeps
<1>6. CASE place = "targets" /\ Start(p, n, "register")
  BY <1>6, StartKeeps
<1>7. CASE place = "targets" /\ Start(p, n, "deregister")
  BY <1>7, StartKeeps
<1> QED
  BY <1>1, <1>2, <1>3, <1>4, <1>5, <1>6, <1>7

LEMMA FailsKeeps ==
  ASSUME IInv, NEW p \in Process, Fails(p)
  PROVE  IInv'
<1>1. PICK s \in {"load", "save", "reload", "check", "append", "trustread", "trustsave",
                  "checktask", "addtask", "readtasks", "savetasks", "register",
                  "deregister"} : Refuse(p, s)
  BY DEF Fails
<1>2. s # "removed" /\ s \notin Cutting
  BY DEF Cutting
<1> QED
  BY <1>1, <1>2, RefuseKeeps

LEMMA TextInitially == TextInit => IInv
<1> SUFFICES ASSUME TextInit
             PROVE  IInv
  OBVIOUS
<1>1. /\ place \in {"hba", "hba of a monitored node", "crontab", "targets"}
      /\ text = IF place = "hba of a monitored node" THEN theirs \cup {Trust} ELSE theirs
      /\ active = text /\ granted = {} /\ clobbered = FALSE /\ edits = 0
  BY DEF TextInit
<1>2. Foreign \in theirs /\ theirs \subseteq {Foreign} \cup OthersIn(place)
  BY DEF TextInit
<1>3. OthersIn(place) \subseteq {Comment, Long, Short} /\ (place # "hba" => Long \notin OthersIn(place))
  BY <1>1 DEF OthersIn, Comment, Long, Short
<1>4. /\ theirs \subseteq Others /\ Cut \notin theirs
      /\ place # "hba" => Long \notin theirs
  BY <1>2, <1>3 DEF Others, Foreign, Comment, Long, Short, Cut
<1>5. \A p \in Process : at[p] = "idle" /\ read[p] = {}
  BY DEF TextInit
<1>6. TextTypeOK
  <2>1. text \in SUBSET Line /\ active \in SUBSET Line
    BY <1>1, <1>4 DEF Line
  <2>2. at \in [Process -> Call] /\ read \in [Process -> SUBSET Line]
    BY DEF TextInit, Call
  <2>3. changed \in [Process -> BOOLEAN] /\ name \in [Process -> Name]
    <3>1. (CHOOSE n \in Name : TRUE) \in Name
      BY LinesAssumption
    <3> QED
      BY <3>1 DEF TextInit
  <2> QED
    BY <1>1, <1>4, <2>1, <2>2, <2>3 DEF TextTypeOK
<1>7. Uncut
  BY <1>1, <1>2, <1>4, <1>5 DEF Uncut, Trust, Long, Cut
<1>8. Must \subseteq text /\ Foreign \in text
  <2>1. Must \subseteq Kept
    BY <1>1, <1>5 DEF Must, Announced
  <2>2. Kept \subseteq theirs
    BY DEF Kept
  <2> QED
    BY <1>1, <1>2, <2>1, <2>2
<1> QED
  BY <1>1, <1>5, <1>6, <1>7, <1>8 DEF IInv, AtPlace, InFile, InMemory, OwnName, InServer,
     NoneLeft, TrustEnded, Reading, Cutting

LEMMA TextStepKeeps == IInv /\ [TextNext]_textVars => IInv'
<1> SUFFICES ASSUME IInv, [TextNext]_textVars
             PROVE  IInv'
  OBVIOUS
<1>1. CASE UNCHANGED textVars
  <2> USE <1>1 DEF textVars, IInv
  <2>1. TextTypeOK' /\ AtPlace' /\ OwnName' /\ TrustEnded' /\ Uncut'
    BY DEF TextTypeOK, AtPlace, OwnName, TrustEnded, Uncut
  <2>2. Must' = Must /\ Truncated' = Truncated /\ Removing' = Removing
    BY DEF Must, Kept, Truncated, Removing
  <2>3. \A p \in Process : Drops(p)' = Drops(p) /\ Alone(p)' = Alone(p)
    BY DEF Drops, Alone
  <2>4. InFile' /\ InServer' /\ NoneLeft'
    BY <2>2 DEF InFile, InServer, NoneLeft
  <2>5. InMemory'
    BY <2>2, <2>3 DEF InMemory
  <2> QED
    BY <2>1, <2>4, <2>5
<1>2. ASSUME NEW p \in Process, Begin(p) \/ Fails(p) \/ Dies(p)
      PROVE  IInv'
  BY <1>2, BeginKeeps, FailsKeeps, DiesKeeps
<1>3. ASSUME NEW p \in Process, GrantLoad(p) \/ SaveTo(p) \/ ReloadConfig(p)
      PROVE  IInv'
  <2>1. CASE Truncate(p, "save", "flush")
    BY <2>1, TruncateKeeps
  <2>2. CASE Flush(p, "flush", "reload") /\ UNCHANGED granted
    BY <2>2, FlushGrantKeeps
  <2> QED
    BY <1>3, <2>1, <2>2, GrantLoadKeeps, ReloadConfigKeeps DEF SaveTo
<1>4. ASSUME NEW p \in Process, CheckDuplicate(p) \/ AppendGrant(p) \/ Changetrust(p)
      PROVE  IInv'
  <2>1. CASE Truncate(p, "trustsave", "trustflush")
    BY <2>1, TruncateKeeps
  <2>2. CASE Flush(p, "trustflush", "reload") /\ UNCHANGED granted
    BY <2>2, FlushTrustKeeps
  <2> QED
    BY <1>4, <2>1, <2>2, CheckDuplicateKeeps, AppendGrantKeeps, ReadTrustKeeps DEF Changetrust
<1>5. ASSUME NEW p \in Process, LinuxAdd(p) \/ LinuxDel(p)
      PROVE  IInv'
  <2>1. CASE Truncate(p, "savetasks", "flushtasks")
    BY <2>1, TruncateKeeps
  <2>2. CASE Flush(p, "flushtasks", "idle") /\ granted' = granted \ Matches[name[p]]
    BY <2>2, FlushTasksKeeps
  <2> QED
    BY <1>5, <2>1, <2>2, CheckTaskKeeps, AppendTaskKeeps, ReadTasksKeeps DEF LinuxAdd, LinuxDel
<1>6. ASSUME NEW p \in Process, Run(p) \/ RunDeregister(p) \/ Post(p) \/ PostFails(p)
      PROVE  IInv'
  BY <1>6, RunKeeps, RunDeregisterKeeps, PostKeeps, PostFailsKeeps
<1> QED
  BY <1>1, <1>2, <1>3, <1>4, <1>5, <1>6 DEF TextNext

(* The inductive invariant, for any number of commands at once. *)
THEOREM TextInvariance == TextSpec => []IInv
  BY TextInitially, TextStepKeeps, PTL DEF TextSpec

LEMMA KeptByInvariant == IInv => RecordsKept
  BY MustHas DEF IInv, InFile, InServer, NoneLeft, TrustEnded, RecordsKept
================================================================================
