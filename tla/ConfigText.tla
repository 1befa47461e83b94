------------------------------- MODULE ConfigText ------------------------------
(***************************************************************************)
(* Commands that edit a text file other programs own: pg_hba.conf ("dbup   *)
(* pgsql user grant", and its pg_auto_failover form), root's crontab        *)
(* ("backup-task add" and "del") and the directory of prometheus' targets   *)
(* ("prometheus register" and "deregister"), whose files stand here for its *)
(* lines.  Each reads the file, truncates it and writes it again, or        *)
(* appends to it; nobody takes a lock.  Several of them may run at once and *)
(* each may be killed between any two system calls.                         *)
(***************************************************************************)
EXTENDS Naturals, FiniteSets

CONSTANTS
  Process,    \* commands running at the same time
  Name,       \* users and databases to be granted, or backup tasks
  Matches,    \* Matches[n]: the names whose line contains n's (n begins them)
  MaxEdits    \* bound: commands started

(* The lines of others: one that every command below can read and that names *)
(* none of what they add, a comment, an entry of more than five columns (a    *)
(* mask, options of the method) or of fewer, as where blanks separate them;  *)
(* and what a grant makes of the long one.                                   *)
Foreign == "a line of somebody else"
Comment == "a comment"
Long    == "an entry of more than five columns"
Short   == "an entry of fewer than five columns"
Cut     == "the first five columns of the long entry"
Trust   == "local trust"     \* the line of pg_auto_failover's installation
Md5     == "local md5"       \* what Changetrust makes of it
Others  == {Foreign, Comment, Long, Short, Cut}
Line    == Name \cup Others \cup {Trust, Md5}

ASSUME MatchesAssumption == /\ Matches \in [Name -> SUBSET Name]
                            /\ \A n \in Name : n \in Matches[n]
ASSUME EditsAssumption == MaxEdits \in Nat
ASSUME LinesAssumption == Name # {} /\ Name \cap (Others \cup {Trust, Md5}) = {}

VARIABLES
  place,      \* which file: "hba", "hba of a monitored node", "crontab", "targets"
  theirs,     \* the lines of others in it before the first command
  text,       \* its lines
  active,     \* the lines the server works with (pg_hba.conf, the targets)
  at,         \* the next system call of each process
  name,       \* what it was started for
  read,       \* the lines it has in memory
  changed,    \* history: somebody wrote to the file since it read it
  granted,    \* history: names whose command reported success, until deleted
  clobbered,  \* history: an edit was lost in one of the ways below
  edits       \* history: commands started

textVars == <<place, theirs, text, active, at, name, read, changed, granted, clobbered, edits>>

GoOn(p, s) == at' = [at EXCEPT ![p] = s]

(* p writes: the others' copies are old now. *)
Written(p) == changed' = [q \in Process |-> q # p]
Read(p, ls) == /\ read' = [read EXCEPT ![p] = ls]
               /\ changed' = [changed EXCEPT ![p] = FALSE]

(* A process that writes over what others wrote since it read or since it    *)
(* truncated the file.                                                       *)
Clobber(p) == clobbered' = (clobbered \/ changed[p])

Start(p, n, w) ==
  /\ at[p] = "idle" /\ edits < MaxEdits
  /\ name' = [name EXCEPT ![p] = n]
  /\ edits' = edits + 1
  /\ GoOn(p, w)
  /\ UNCHANGED <<place, theirs, text, active, read, changed, granted, clobbered>>

Refuse(p, from) ==
  /\ at[p] = from /\ GoOn(p, "idle")
  /\ UNCHANGED <<place, theirs, text, active, name, read, changed, granted, clobbered, edits>>

(* os.Create, then the flush of everything in memory. *)
Truncate(p, from, next) ==
  /\ at[p] = from /\ GoOn(p, next)
  /\ text' = {} /\ Clobber(p) /\ Written(p)
  /\ UNCHANGED <<place, theirs, active, name, read, granted, edits>>

Flush(p, from, next) ==
  /\ at[p] = from /\ GoOn(p, next)
  /\ text' = read[p] /\ Clobber(p) /\ Written(p)
  /\ UNCHANGED <<place, theirs, active, name, read, edits>>

-------------------------------------------------------------------------------
(* UserGrant. *)

(* What Load makes of the lines: comments are skipped, of an entry the first  *)
(* five columns are taken.                                                    *)
Loaded(ls) == (ls \ {Comment, Long}) \cup (IF Long \in ls THEN {Cut} ELSE {})

(* Mutant: a grant that is there already is taken for done. *)
GrantLoadOnce(p) ==
  /\ at[p] = "load" /\ place = "hba" /\ Short \notin text
  /\ Read(p, Loaded(text) \cup {name[p]})
  /\ IF name[p] \in text
       THEN GoOn(p, "idle") /\ granted' = granted \cup {name[p]}
       ELSE GoOn(p, "save") /\ UNCHANGED granted
  /\ UNCHANGED <<place, theirs, text, active, name, clobbered, edits>>

(* Load and AddR; a monitored node refuses, and an entry of fewer columns     *)
(* makes Load panic, with nothing written (see Fails).                        *)
GrantLoad(p) ==
  /\ at[p] = "load" /\ place = "hba" /\ Short \notin text
  /\ Read(p, Loaded(text) \cup {name[p]})
  /\ GoOn(p, "save")
  /\ UNCHANGED <<place, theirs, text, active, name, granted, clobbered, edits>>

SaveTo(p) == /\ \/ Truncate(p, "save", "flush")
                \/ Flush(p, "flush", "reload") /\ UNCHANGED granted

(* The server goes on with the lines it has where the file has no entry, as   *)
(* while another command has it truncated, or an entry it cannot read, which  *)
(* the cut one may be; ReloadConfig does not learn of it.                     *)
ReloadConfig(p) ==
  /\ at[p] = "reload" /\ GoOn(p, "idle")
  /\ active' \in IF text \subseteq {Comment} THEN {active}
                 ELSE IF Cut \in text THEN {active, text} ELSE {text}
  /\ granted' = granted \cup {name[p]}
  /\ clobbered' = (clobbered \/ \E q \in Process \ {p} : at[q] \in {"flush", "trustflush"})
  /\ UNCHANGED <<place, theirs, text, name, read, changed, edits>>

-------------------------------------------------------------------------------
(* AutofailoverGrantuser. *)

CheckDuplicate(p) ==
  /\ at[p] = "check" /\ name[p] \notin text
  /\ GoOn(p, "append")
  /\ UNCHANGED <<place, theirs, text, active, name, read, changed, granted, clobbered, edits>>

AppendGrant(p) ==
  /\ at[p] = "append" /\ GoOn(p, "trustread")
  /\ text' = text \cup {name[p]} /\ Written(p)
  /\ UNCHANGED <<place, theirs, active, name, read, granted, clobbered, edits>>

(* Changetrust: every "trust" in the file becomes "md5". *)
ReadTrust(p) ==
  /\ at[p] = "trustread" /\ GoOn(p, "trustsave")
  /\ Read(p, {IF l = Trust THEN Md5 ELSE l : l \in text})
  /\ UNCHANGED <<place, theirs, text, active, name, granted, clobbered, edits>>

Changetrust(p) == \/ ReadTrust(p)
                  \/ Truncate(p, "trustsave", "trustflush")
                  \/ Flush(p, "trustflush", "reload") /\ UNCHANGED granted

-------------------------------------------------------------------------------
(* The crontab. *)

(* A line that contains the new one's name refuses it.  The copy that is kept *)
(* fails where there is no crontab at all.                                    *)
CheckTask(p) ==
  /\ at[p] = "checktask" /\ Matches[name[p]] \cap text = {}
  /\ GoOn(p, "addtask")
  /\ UNCHANGED <<place, theirs, text, active, name, read, changed, granted, clobbered, edits>>

(* Mutant: the file is opened without O_APPEND. *)
AppendTaskFromStart(p) ==
  /\ at[p] = "addtask" /\ GoOn(p, "idle")
  /\ text' = {name[p]} /\ Written(p)
  /\ granted' = granted \cup {name[p]}
  /\ UNCHANGED <<place, theirs, active, name, read, clobbered, edits>>

AppendTask(p) ==
  /\ at[p] = "addtask" /\ GoOn(p, "idle")
  /\ text' = text \cup {name[p]} /\ Written(p)
  /\ granted' = granted \cup {name[p]}
  /\ UNCHANGED <<place, theirs, active, name, read, clobbered, edits>>

(* Every line that contains the name goes, those of longer names as well. *)
ReadTasks(p) ==
  /\ at[p] = "readtasks" /\ GoOn(p, "savetasks")
  /\ Read(p, text \ Matches[name[p]])
  /\ UNCHANGED <<place, theirs, text, active, name, granted, clobbered, edits>>

LinuxAdd(p) == CheckTask(p) \/ AppendTask(p)

LinuxDel(p) ==
  \/ ReadTasks(p)
  \/ Truncate(p, "savetasks", "flushtasks")
  \/ Flush(p, "flushtasks", "idle") /\ granted' = granted \ Matches[name[p]]

-------------------------------------------------------------------------------
(* The targets of prometheus: one file each, so that nobody writes over the   *)
(* others'.                                                                   *)

Run(p) ==
  /\ at[p] = "register" /\ GoOn(p, "registered")
  /\ text' = text \cup {name[p]} /\ Written(p)
  /\ UNCHANGED <<place, theirs, active, name, read, granted, clobbered, edits>>

(* A target whose file is missing has nothing to be removed, it is said, also *)
(* when it was an earlier command that removed it and prometheus never heard. *)
RunDeregister(p) ==
  /\ at[p] = "deregister"
  /\ IF name[p] \in text
       THEN GoOn(p, "removed") /\ text' = text \ {name[p]} /\ Written(p)
       ELSE GoOn(p, "idle") /\ UNCHANGED <<text, changed>>
  /\ granted' = granted \ {name[p]}
  /\ UNCHANGED <<place, theirs, active, name, read, clobbered, edits>>

(* The request to reload.  An answer that says prometheus could not do it is  *)
(* taken for a success; so is a target that was removed in the meantime.      *)
Post(p) ==
  /\ at[p] \in {"registered", "removed"} /\ GoOn(p, "idle")
  /\ \/ /\ active' = text
        /\ clobbered' = (clobbered \/ (at[p] = "registered" /\ name[p] \notin text))
     \/ active' = active /\ clobbered' = TRUE
  /\ granted' = IF at[p] = "registered" THEN granted \cup {name[p]} ELSE granted
  /\ UNCHANGED <<place, theirs, text, name, read, changed, edits>>

(* No answer at all: the file stays as it is.                                 *)
PostFails(p) ==
  /\ at[p] \in {"registered", "removed"} /\ GoOn(p, "idle")
  /\ clobbered' = (clobbered \/ at[p] = "removed")
  /\ UNCHANGED <<place, theirs, text, active, name, read, changed, granted, edits>>

-------------------------------------------------------------------------------
(* What AutofailoverGrantuser writes is separated by blanks, which Load cannot *)
(* read: the two are not used on the same file.                               *)
Begin(p) ==
  \E n \in Name :
    \/ place \in {"hba", "hba of a monitored node"} /\ Start(p, n, "load")
    \/ place = "hba of a monitored node" /\ Start(p, n, "check")
    \/ place = "crontab" /\ (Start(p, n, "checktask") \/ Start(p, n, "readtasks"))
    \/ place = "targets" /\ (Start(p, n, "register") \/ Start(p, n, "deregister"))

(* An error of a system call, or a panic of Load: the commands end with it and *)
(* repair nothing.                                                            *)
Fails(p) ==
  \E s \in {"load", "save", "reload", "check", "append", "trustread", "trustsave",
            "checktask", "addtask", "readtasks", "savetasks", "register", "deregister"} :
    Refuse(p, s)

(* Killed, or out of space in the middle of a write. *)
Dies(p) ==
  /\ at[p] \in {"flush", "trustflush", "flushtasks"}
  /\ GoOn(p, "idle") /\ clobbered' = TRUE
  /\ UNCHANGED <<place, theirs, text, active, name, read, changed, granted, edits>>

(* The lines of others that tell the commands on a file apart. *)
OthersIn(pl) == CASE pl = "hba" -> {Comment, Long, Short}
                  [] pl \in {"hba of a monitored node", "crontab"} -> {Comment}
                  [] pl = "targets" -> {}

TextInit ==
  /\ place \in {"hba", "hba of a monitored node", "crontab", "targets"}
  /\ \E more \in SUBSET OthersIn(place) : theirs = {Foreign} \cup more
  /\ text = IF place = "hba of a monitored node" THEN theirs \cup {Trust} ELSE theirs
  /\ active = text
  /\ at = [p \in Process |-> "idle"]
  /\ name \in [Process -> {CHOOSE n \in Name : TRUE}]
  /\ read = [p \in Process |-> {}]
  /\ changed = [p \in Process |-> FALSE]
  /\ granted = {} /\ clobbered = FALSE /\ edits = 0

TextNext ==
  \E p \in Process :
    \/ Begin(p) \/ Fails(p) \/ Dies(p)
    \/ GrantLoad(p) \/ SaveTo(p) \/ ReloadConfig(p)
    \/ CheckDuplicate(p) \/ AppendGrant(p) \/ Changetrust(p)
    \/ LinuxAdd(p) \/ LinuxDel(p)
    \/ Run(p) \/ RunDeregister(p) \/ Post(p) \/ PostFails(p)

TextSpec == TextInit /\ [][TextNext]_textVars

-------------------------------------------------------------------------------
Call == {"idle", "load", "save", "flush", "reload", "check", "append", "trustread",
         "trustsave", "trustflush", "checktask", "addtask", "readtasks", "savetasks",
         "flushtasks", "register", "deregister", "registered", "removed"}

TextTypeOK ==
  /\ place \in {"hba", "hba of a monitored node", "crontab", "targets"}
  /\ theirs \in SUBSET Others
  /\ text \in SUBSET Line /\ active \in SUBSET Line
  /\ at \in [Process -> Call]
  /\ name \in [Process -> Name] /\ read \in [Process -> SUBSET Line]
  /\ changed \in [Process -> BOOLEAN]
  /\ granted \in SUBSET Name /\ clobbered \in BOOLEAN /\ edits \in Nat

Removing  == \E p \in Process : at[p] = "removed"
Truncated == \E p \in Process : at[p] \in {"flush", "trustflush", "flushtasks"}

(* A grant on a node without pg_auto_failover reads and writes the whole file *)
(* and keeps of it neither the comments nor the longer entries as they were;  *)
(* the other commands keep every line of others.                              *)
Kept == IF place = "hba" THEN theirs \ {Comment, Long} ELSE theirs

(* Whatever grants or tasks were added and deleted, killed and repeated: what *)
(* a command has reported as done stays in the file, and so do the lines of   *)
(* others that the commands are able to keep; a grant that was reported is    *)
(* one the server works with, unless an entry was cut that it cannot read     *)
(* then; on a node of pg_auto_failover it has ended trust; a target that was  *)
(* removed is one prometheus no longer asks.  Excepted are the behaviours in  *)
(* which one process wrote over what another wrote since it read the file, or *)
(* died between truncating and writing, or another command's reload came in   *)
(* between, or prometheus' reload failed: those that "clobbered" remembers.   *)
RecordsKept ==
  ~clobbered /\ ~Truncated =>
    /\ granted \cup Kept \subseteq text
    /\ place # "crontab" /\ (place = "hba" => Long \notin theirs)
         => granted \cup {Foreign} \subseteq active
    /\ place = "hba of a monitored node" /\ granted # {} => Trust \notin active
    /\ place = "targets" /\ ~Removing => active \subseteq text
===============================================================================
