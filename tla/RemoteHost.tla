------------------------------ MODULE RemoteHost ------------------------------
(***************************************************************************)
(* What one remote command of a deployment does to the machine it runs on. *)
(* A deployment only touches a machine in two places: the temporary        *)
(* directory it copies itself into, and the slot (a port with its data     *)
(* directory and its systemd unit) it installs an instance in.  Every      *)
(* command may fail half way, so each operator below is the SET of results *)
(* the command can have: the new state of the place and whether the caller *)
(* was told that it succeeded.                                             *)
(***************************************************************************)

(* The temporary directory: "ours" holds files this program copied, "foreign" *)
(* holds somebody's files, "file" is a plain file of that name.               *)
TmpState == {"absent", "empty", "ours", "foreign", "file"}

(* A slot: "free" has no unit, no process and an empty or missing directory;  *)
(* "files" has a unit or a directory but no process; "orphan" has a process   *)
(* that no unit controls; "up" has the unit, the directory and the process.   *)
InstState == {"free", "files", "orphan", "up"}

(* CheckTmpDir accepts a missing or an empty directory only. *)
CheckTmpDirOK(t) == t \in {"absent", "empty"}

(* Scp makes three directories and copies four files; it stops at the first   *)
(* error, before or after the directory came into being.                      *)
ScpResults(t) ==
  LET copied == IF t = "foreign" THEN "foreign" ELSE "ours"
  IN  IF t = "file"
        THEN {[tmp |-> "file", ok |-> FALSE]}
        ELSE {[tmp |-> copied, ok |-> TRUE],
              [tmp |-> copied, ok |-> FALSE],
              [tmp |-> t,      ok |-> FALSE]}

(* DropTmpDir runs "cd <tmp>; rm -rf *": where cd fails, rm runs in the ssh   *)
(* user's home directory.                                                     *)
CdFails(t) == t \in {"absent", "file"}
(* Mutant: the directory is removed with its contents. *)
AfterRemoveTmpDir(t) == IF CdFails(t) THEN t ELSE "absent"
AfterDropTmpDir(t) == IF CdFails(t) THEN t ELSE "empty"

(* "install --only-check": port, unit file, directory. *)
CheckEnvOK(i) == i = "free"

(* Mutant: the installation trusts the earlier CheckEnv. *)
InstallResultsUnchecked(i) ==
  {[inst |-> "up", ok |-> TRUE]} \cup {[inst |-> j, ok |-> FALSE] : j \in InstState}

(* "install": the checks again, then the installation.  A failed one rolls    *)
(* itself back; the rollback may leave files, or lose the unit of a process   *)
(* it could not stop, and an error after the start leaves the instance up.    *)
InstallResults(i) ==
  IF ~CheckEnvOK(i)
    THEN {[inst |-> i, ok |-> FALSE]}
    ELSE {[inst |-> "up", ok |-> TRUE]}
           \cup {[inst |-> j, ok |-> FALSE] : j \in InstState}

(* "uninstall": stop and move the unit away if there is one, then move the    *)
(* directory away; it stops at the first error.  A process without a unit is  *)
(* not looked for.                                                            *)
UNInstallResults(i) ==
  IF i \in {"free", "orphan"}
    THEN {[inst |-> i, ok |-> TRUE], [inst |-> i, ok |-> FALSE]}
    ELSE {[inst |-> "free",  ok |-> TRUE],
          [inst |-> "free",  ok |-> FALSE],
          [inst |-> "files", ok |-> FALSE],
          [inst |-> i,       ok |-> FALSE]}
===============================================================================
