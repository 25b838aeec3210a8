----------------------------- MODULE StatusFile -----------------------------
(***************************************************************************)
(* The status file (monitor/status) that the runs of several profiles      *)
(* share.  After each command a run loads the file into what it remembers, *)
(* sets its own entry, and writes the whole file again.  Opening it to     *)
(* write empties it, so that there is a moment between in which a run may  *)
(* be killed.  Only one Write of the file is made, which is one step.      *)
(*                                                                         *)
(* Definitions whose comment begins with "If" are deviations: what a       *)
(* plausible slip would make of the definition they precede.               *)
(***************************************************************************)
EXTENDS Naturals, Sequences

CONSTANTS
  Run,         \* the runs; one that ends is followed by another of its profile
  Profile,     \* the profiles
  ProfileOf,   \* the profile of each run
  Sectionless, \* the profiles without a backup section
  Tolerant,    \* the profiles with no-error-on-warning
  TakeTurns,   \* whether a run loads and saves without another one in between
  Errors,      \* operations on the file that may fail: "load", "open", "write"
  MaxResults   \* bound: commands that end

ASSUME StatusAssumption ==
  /\ ProfileOf \in [Run -> Profile]
  /\ Sectionless \subseteq Profile
  /\ Tolerant \subseteq Profile \ Sectionless
  /\ TakeTurns \in BOOLEAN
  /\ Errors \subseteq {"load", "open", "write"}
  /\ MaxResults \in Nat

Command == {"backup", "check", "forget", "retention"}
Outcome == {"success", "warning", "error"}

\* The sections of a profile's status.
Section == {"backup", "retention", "check"}

VARIABLES
  file,      \* what the file holds; one that is missing or no JSON holds nothing
  memory,    \* Status.Profiles of each run
  pc,        \* where a run is: at its commands, or saving the status of one
  log,       \* the commands whose status was set, with their outcome
  before,    \* what was in the file when it was emptied
  latest     \* the latest status that was set, of each profile and section

vars == <<file, memory, pc, log, before, latest>>

Entry == [time : Nat, success : BOOLEAN]
NoEntry == [time |-> 0, success |-> FALSE]
Blank == [s \in Section |-> NoEntry]
Boards == [Profile -> [Section -> Entry]]
Empty == [p \in Profile |-> Blank]

Init ==
  /\ file = Empty
  /\ memory = [r \in Run |-> Empty]
  /\ pc = [r \in Run |-> "command"]
  /\ log = <<>>
  /\ before = Empty
  /\ latest = Empty

Saving(r) == pc[r] \in {"open", "write"}

-----------------------------------------------------------------------------
\* If each command had a section of its own, but for one mistake.
SlotShared(c) == IF c \in {"forget", "check"} THEN "check" ELSE c

\* forget is shown as retention.
Slot(c) == IF c = "forget" THEN "retention" ELSE c

\* A warning of backup counts as a success for a profile that wants it so.
Succeeds(p, c, o) ==
  o = "success" \/ (o = "warning" /\ c = "backup" /\ p \in Tolerant)

\* Summary looks at the backup section of the profile, which may not be there: a
\* panic ends the run, as Restart does.
Panics(p, c, o) == c = "backup" /\ o = "warning" /\ p \in Sectionless

\* If what a run remembers came before what the file says.
LoadedMemory(mine, content) ==
  [p \in Profile |-> IF mine[p] # Blank THEN mine[p] ELSE content[p]]

\* Decode replaces the profiles that are in the file and keeps the others.
Loaded(mine, content) ==
  [p \in Profile |-> IF content[p] # Blank THEN content[p] ELSE mine[p]]

\* BackupSuccess, BackupError and so on.
SetEntry(board, p, s, entry) == [board EXCEPT ![p][s] = entry]

\* A command ends: Summary gets the status from the file, and sets an entry with
\* the time of now.  A file that cannot be opened, or holds no JSON, is not minded.
Load(r) ==
  /\ pc[r] = "command"
  /\ Len(log) < MaxResults
  /\ TakeTurns => \A q \in Run : ~Saving(q)
  /\ \E c \in Command, o \in Outcome,
        content \in {file} \cup (IF "load" \in Errors THEN {Empty} ELSE {}) :
       LET p == ProfileOf[r]
           entry == [time |-> Len(log) + 1, success |-> Succeeds(p, c, o)]
       IN /\ ~Panics(p, c, o)
          /\ memory' = [memory EXCEPT ![r] = SetEntry(Loaded(@, content), p, Slot(c), entry)]
          /\ latest' = SetEntry(latest, p, Slot(c), entry)
          /\ log' = Append(log, [profile |-> p, command |-> c, outcome |-> o])
  /\ pc' = [pc EXCEPT ![r] = "open"]
  /\ UNCHANGED <<file, before>>

\* Save empties the file.
Open(r) ==
  /\ pc[r] = "open"
  /\ pc' = [pc EXCEPT ![r] = "write"]
  /\ before' = file
  /\ file' = Empty
  /\ UNCHANGED <<memory, log, latest>>

\* Save writes what the run remembers.  Of two that write at once, the second
\* writes over the first, and Decode does not mind what may be left behind it.
Write(r) ==
  /\ pc[r] = "write"
  /\ file' = memory[r]
  /\ pc' = [pc EXCEPT ![r] = "command"]
  /\ UNCHANGED <<memory, log, before, latest>>

\* An error of Save is logged.
SaveFails(r) ==
  /\ pc[r] \in Errors \cap {"open", "write"}
  /\ pc' = [pc EXCEPT ![r] = "command"]
  /\ UNCHANGED <<file, memory, log, before, latest>>

\* A run ends, at the end of its commands or killed anywhere, and a new run of
\* the same profile begins.
Restart(r) ==
  /\ pc' = [pc EXCEPT ![r] = "command"]
  /\ memory' = [memory EXCEPT ![r] = Empty]
  /\ UNCHANGED <<file, log, before, latest>>

Next ==
  \E r \in Run : Load(r) \/ Open(r) \/ Write(r) \/ SaveFails(r) \/ Restart(r)

Spec == Init /\ [][Next]_vars

-----------------------------------------------------------------------------
TypeOK ==
  /\ file \in Boards
  /\ memory \in [Run -> Boards]
  /\ pc \in [Run -> {"command", "open", "write"}]
  /\ log \in Seq([profile : Profile, command : Command, outcome : Outcome])
  /\ before \in Boards
  /\ latest \in Boards

\* The entry e is that of a command of this profile and section, and shows a
\* success only when it succeeded.
Genuine(p, s, e) ==
  e # NoEntry =>
    /\ e.time \in 1 .. Len(log)
    /\ log[e.time].profile = p
    /\ s = (IF log[e.time].command = "forget" THEN "retention" ELSE log[e.time].command)
    /\ e.success => \/ log[e.time].outcome = "success"
                    \/ log[e.time].outcome = "warning" /\ s = "backup" /\ p \in Tolerant

Backed(board) == \A p \in Profile, s \in Section : Genuine(p, s, board[p][s])

\* A success that is shown is that of a command of this profile and section that
\* succeeded, at that time; so a reader is never told that a backup is fine that
\* was not, whatever runs load, save, fail and die at the same time.
Truthful == Backed(file)

\* What a reader is shown, but for the moment in which the file is empty.
Shown == IF \E r \in Run : pc[r] = "write" THEN before ELSE file

Promise == INSTANCE StatusBoard WITH board <- Shown, last <- latest

\* "TestAddToExistingProfile", "TestAddProfile", "TestAddSuccessAfterError"
\* (monitor/status/status_test.go:137), in every order, with commands whose
\* status is not saved and runs killed while they save it: when runs take turns,
\* a command changes its own entry and no other; entries are lost all together
\* or not at all.
KeepsPromise == Promise!Spec
=============================================================================
