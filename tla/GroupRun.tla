------------------------------ MODULE GroupRun ------------------------------
(***************************************************************************)
(* The main goroutine of resticprofile (main.go) over the profiles of a    *)
(* group: the profile is opened, which may change the working directory    *)
(* and load it again; it is run; the directory is restored; an error is    *)
(* logged, and ends the group or does not; and at the end, or after a      *)
(* panic, the deferred functions are called.  The log goes to a file, by   *)
(* LogWriter, to which the goroutine of a stdin-command also writes, which *)
(* may outlive the run of its profile.                                     *)
(*                                                                         *)
(* A directory is a root and how far below it: a relative base-dir leads   *)
(* one further down each time it is applied.                               *)
(*                                                                         *)
(* Definitions whose comment begins with "If" are deviations: what a       *)
(* plausible slip would make of the definition they precede.               *)
(***************************************************************************)
EXTENDS Naturals, Sequences

CONSTANTS
  Groups,       \* the groups: sequences of the kinds of base-dir of their profiles
  Nesting,      \* how deep directories are nested
  MayPanic,     \* whether a profile may panic
  MaxLines,     \* bound: lines of the stdin-command of a profile
  Capacity, DrainMax, KeepOpen, Errors   \* of LogWriter

Kind == {"none", "absolute", "relative", "gone"}

ASSUME GroupAssumption ==
  /\ Groups \subseteq Seq(Kind)
  /\ Nesting \in Nat /\ MaxLines \in Nat
  /\ MayPanic \in BOOLEAN

ASSUME LogAssumption ==
  /\ Capacity \in Nat \ {0} /\ DrainMax \in Nat
  /\ KeepOpen \in BOOLEAN
  /\ Errors \subseteq {"open", "write"}

VARIABLES
  data, buffer, file, handle, lastError, closed, crashed,   \* of LogWriter
  group,      \* the profiles to run
  single,     \* whether it is a profile that is run, not a group
  always,     \* global.group-continue-on-error
  own,        \* continue-on-error of the group: "auto", "true" or "false"
  place,      \* of the main goroutine
  index,      \* of the profile at hand
  attempts,   \* attempts left to open it
  cwd,        \* the working directory
  loadedIn,   \* the working directory in which the profile was loaded
  cleanup,    \* where the cleanup of the profile goes back to
  outcome,    \* of the profile: "ok", "error" or "panic"
  exitCode,
  sleepless,  \* whether the system is kept from sleeping
  notified,   \* what systemd was told: "", "ready" or "stopping"
  helper,     \* the goroutine of a stdin-command: the lines it may yet write
  tried,      \* the profiles that were begun
  failed,     \* those of them that failed
  logged      \* all lines written, in their order

Log == INSTANCE LogWriter

logVars == <<data, buffer, file, handle, lastError, closed, crashed>>
options == <<group, single, always, own>>
opening == <<attempts, cwd, loadedIn, cleanup>>
ending == <<exitCode, sleepless, notified>>
past == <<tried, failed>>
vars == <<logVars, options, place, index, opening, outcome, ending, helper, past, logged>>

Home == <<"home", 0>>
None == <<"none", 0>>

\* base-dir of a profile as it is loaded in dir.
BaseDir(kind, dir) ==
  CASE kind = "none" -> dir
    [] kind = "absolute" -> <<"base", 0>>
    [] kind = "relative" -> <<dir[1], dir[2] + 1>>
    [] kind = "gone" -> <<"gone", 0>>

Exists(dir) == dir[1] # "gone" /\ dir[2] <= Nesting

Init ==
  /\ Log!Init
  /\ group \in Groups
  /\ single \in {b \in BOOLEAN : b => Len(group) = 1}
  /\ always \in BOOLEAN /\ own \in {"auto", "true", "false"}
  /\ place = "start"
  /\ index = 0 /\ attempts = 0
  /\ cwd = Home /\ loadedIn = None /\ cleanup = None
  /\ outcome = "ok"
  /\ exitCode = 0 /\ sleepless = FALSE /\ notified = ""
  /\ helper = 0
  /\ tried = {} /\ failed = {}
  /\ logged = <<>>

\* The lines: the error of a profile, that of a deferred function, and those of a
\* stdin-command.
ErrorOf(i) == <<"error", i>>
Late == <<"late">>
Line == <<"line", Len(logged)>>

HelperWaits == \E line \in Log!Waiting : line[1] = "line"
MainWaits == \E line \in Log!Waiting : line[1] # "line"

Says(line) == Log!Write(line) /\ logged' = Append(logged, line)
Silent == UNCHANGED <<logVars, logged>>

-----------------------------------------------------------------------------
(* main                                                                    *)

\* The configuration is not found or not loaded, restic is not found, or there
\* is no such profile.
StartFails ==
  /\ place = "start"
  /\ exitCode' = 1
  /\ place' = "stop"
  /\ sleepless' \in BOOLEAN
  /\ Silent
  /\ UNCHANGED <<options, index, opening, outcome, notified, helper, past>>

Start ==
  /\ place = "start"
  /\ sleepless' \in BOOLEAN   \* Start may fail
  /\ notified' = IF single \/ Len(group) > 0 THEN "ready" ELSE ""
  /\ place' = "next"
  /\ Silent
  /\ UNCHANGED <<options, index, opening, outcome, exitCode, helper, past>>

Attempts == 3

NextProfile ==
  /\ place = "next"
  /\ index < Len(group)
  /\ index' = index + 1
  /\ tried' = tried \cup {index'}
  /\ attempts' = Attempts
  /\ cleanup' = None
  /\ place' = "open"
  /\ Silent
  /\ UNCHANGED <<options, cwd, loadedIn, outcome, ending, helper, failed>>

AllDone ==
  /\ place = "next"
  /\ index = Len(group)
  /\ place' = "stop"
  /\ Silent
  /\ UNCHANGED <<options, index, opening, outcome, ending, helper, past>>

-----------------------------------------------------------------------------
(* openProfile, of whose loop each turn is a step                          *)

Fails == outcome' = "error" /\ place' = "cleanup"

\* The profile cannot be loaded.
LoadFails ==
  /\ place = "open" /\ attempts > 0
  /\ Fails
  /\ Silent
  /\ UNCHANGED <<options, index, opening, ending, helper, past>>

\* The first directory that is left is the one to go back to.
LeftFirst == IF cleanup = None THEN cwd ELSE cleanup

Load ==
  /\ place = "open" /\ attempts > 0
  /\ loadedIn' = cwd
  /\ attempts' = attempts - 1
  /\ LET dir == BaseDir(group[index], cwd) IN
       \/ /\ dir = cwd
          /\ place' = "run"
          /\ UNCHANGED <<cwd, cleanup, outcome>>
       \/ /\ dir # cwd /\ Exists(dir)
          /\ cleanup' = LeftFirst
          /\ cwd' = dir
          /\ UNCHANGED <<place, outcome>>
       \/ /\ dir # cwd /\ ~Exists(dir)
          /\ cleanup' = LeftFirst
          /\ Fails
          /\ UNCHANGED cwd
  /\ Silent
  /\ UNCHANGED <<options, index, ending, helper, past>>

\* The directory changed at each attempt: the profile is run as it is.
NoMoreAttempts ==
  /\ place = "open" /\ attempts = 0
  /\ place' = "run"
  /\ Silent
  /\ UNCHANGED <<options, index, opening, outcome, ending, helper, past>>

-----------------------------------------------------------------------------
(* runProfile                                                              *)

\* A backup with a stdin-command has a goroutine that may log.
StartHelper ==
  /\ place = "run"
  /\ helper = 0
  /\ helper' = MaxLines
  /\ place' = "running"
  /\ Silent
  /\ UNCHANGED <<options, index, opening, outcome, ending, past>>

Plain ==
  /\ place = "run"
  /\ place' = "running"
  /\ Silent
  /\ UNCHANGED <<options, index, opening, outcome, ending, helper, past>>

HelperLogs ==
  /\ helper > 0 /\ ~HelperWaits
  /\ Says(Line)
  /\ helper' = helper - 1
  /\ UNCHANGED <<options, place, index, opening, outcome, ending, past>>

\* The stdin-command ends, which nobody waits for.
HelperEnds ==
  /\ helper > 0 /\ ~HelperWaits
  /\ helper' = 0
  /\ Silent
  /\ UNCHANGED <<options, place, index, opening, outcome, ending, past>>

\* term.FlushAllOutput before a hook.
FlushOutput ==
  /\ place = "running"
  /\ Log!ServeFlush
  /\ place' = "ran"
  /\ UNCHANGED <<logged, options, index, opening, outcome, ending, helper, past>>

RunEnds ==
  /\ place \in {"running", "ran"}
  /\ outcome' \in {"ok", "error"} \cup (IF MayPanic THEN {"panic"} ELSE {})
  /\ place' = "cleanup"
  /\ Silent
  /\ UNCHANGED <<options, index, opening, ending, helper, past>>

\* If the cleanup were not deferred.
CleanupUnlessError ==
  /\ place = "cleanup"
  /\ cwd' = IF cleanup = None \/ outcome = "error" THEN cwd ELSE cleanup
  /\ failed' = IF outcome = "ok" THEN failed ELSE failed \cup {index}
  /\ place' = IF outcome = "panic" THEN "stop" ELSE IF outcome = "error" THEN "report" ELSE "next"
  /\ Silent
  /\ UNCHANGED <<options, index, attempts, loadedIn, cleanup, outcome, ending, helper, tried>>

\* The deferred cleanup; a panic goes on to that of main.
Cleanup ==
  /\ place = "cleanup"
  /\ cwd' = IF cleanup = None THEN cwd ELSE cleanup
  /\ failed' = IF outcome = "ok" THEN failed ELSE failed \cup {index}
  /\ place' = CASE outcome = "ok" -> "next"
                [] outcome = "error" -> "report"
                [] outcome = "panic" -> "stop"
  /\ Silent
  /\ UNCHANGED <<options, index, attempts, loadedIn, cleanup, outcome, ending, helper, tried>>

\* The directory cannot be restored, which panics.
CleanupFails ==
  /\ place = "cleanup"
  /\ MayPanic /\ cleanup # None
  /\ failed' = IF outcome = "ok" THEN failed ELSE failed \cup {index}
  /\ outcome' = "panic"
  /\ place' = "stop"
  /\ Silent
  /\ UNCHANGED <<options, index, opening, ending, helper, tried>>

-----------------------------------------------------------------------------
\* If the option of the group did not go before the global one.
ContinuesEither == ~single /\ (always \/ own = "true")

Continues == ~single /\ ((always /\ own \in {"auto", "true"}) \/ own = "true")

Report ==
  /\ place = "report"
  /\ Says(ErrorOf(index))
  /\ place' = "reported"
  /\ UNCHANGED <<options, index, opening, outcome, ending, helper, past>>

Reported ==
  /\ place = "reported" /\ ~MainWaits
  /\ IF Continues THEN place' = "next" /\ UNCHANGED exitCode
     ELSE place' = "stop" /\ exitCode' = 1
  /\ Silent
  /\ UNCHANGED <<options, index, opening, outcome, sleepless, notified, helper, past>>

\* The deferred notifyStop and the end of preventing sleep.
Stop ==
  /\ place = "stop"
  /\ notified' = IF notified = "ready" THEN "stopping" ELSE notified
  /\ sleepless' = FALSE
  /\ place' = "close"
  /\ Silent
  /\ UNCHANGED <<options, index, opening, outcome, exitCode, helper, past>>

\* Close of the log file.
CloseLog ==
  /\ place = "close"
  /\ Log!ServeClose
  /\ place' = "hooks"
  /\ UNCHANGED <<logged, options, index, opening, outcome, ending, helper, past>>

\* The shutdown hook removes the temporary directory, and may log that it cannot.
RunHooks ==
  /\ place = "hooks"
  /\ Silent \/ Says(Late)
  /\ place' = "end"
  /\ UNCHANGED <<options, index, opening, outcome, ending, helper, past>>

Main ==
  \/ StartFails \/ Start \/ NextProfile \/ AllDone
  \/ LoadFails \/ Load \/ NoMoreAttempts
  \/ StartHelper \/ Plain \/ FlushOutput \/ RunEnds \/ Cleanup \/ CleanupFails
  \/ Report \/ Reported \/ Stop \/ CloseLog \/ RunHooks

Helper == HelperLogs \/ HelperEnds

Rest == UNCHANGED <<options, place, index, opening, outcome, ending, helper, past, logged>>
Receive == Log!Receive /\ Rest
Tick == Log!Tick /\ Rest

\* The process is gone at the end and after a crash.
Running == ~crashed /\ place # "end"
Next == Running /\ (Main \/ Helper \/ Receive \/ Tick)

Spec == Init /\ [][Next]_vars

\* The scheduler runs every goroutine that can go on.  The ticks are left out: a
\* file that can never be written makes them change nothing.
FairSpec == Spec /\ WF_vars(Running /\ Main) /\ WF_vars(Running /\ Receive)

-----------------------------------------------------------------------------
\* The types of the variables; those of LogWriter are sequences and Booleans.
TypeOK ==
  /\ group \in Groups /\ {single, always, sleepless, closed, crashed} \subseteq BOOLEAN
  /\ own \in {"auto", "true", "false"}
  /\ place \in {"start", "next", "open", "run", "running", "ran", "cleanup", "report",
               "reported", "stop", "close", "hooks", "end"}
  /\ index \in 0 .. Len(group) /\ attempts \in 0 .. Attempts
  /\ {cwd, loadedIn, cleanup} \subseteq {"home", "base", "none"} \X (0 .. Nesting)
  /\ outcome \in {"ok", "error", "panic"} /\ exitCode \in 0 .. 1
  /\ notified \in {"", "ready", "stopping"} /\ helper \in 0 .. MaxLines
  /\ tried = 1 .. index /\ failed \subseteq tried

\* "Continue with the next profile on a failure, overrides
\* global.group-continue-on-error" (config/group.go:7), "instead of stopping at
\* the first failure" (config/global.go:32).
Wanted == ~single /\ (IF own = "auto" THEN always ELSE own = "true")

\* Unless it panics, resticprofile ends with exit code 0 exactly when all profiles
\* were run, and without a failure or with all failures continued after; else it
\* stopped at the first.
ExitTells ==
  /\ place = "end" /\ outcome # "panic" =>
       IF exitCode = 0 THEN tried = 1 .. Len(group) /\ (failed = {} \/ Wanted)
       ELSE tried = {} \/ (failed = {index} /\ ~Wanted)
  /\ ~Wanted => \A i \in failed, j \in tried : j <= i

\* A profile is opened in the directory resticprofile was started in, whatever
\* became of those before it; and it is run in the directory in which it was
\* loaded, which is its base-dir ("TestGetProfile", main_test.go:15).  For Nesting
\* up to 2: a relative base-dir that exists three times, one in the other, uses up
\* the attempts.
Directories ==
  /\ place = "open" /\ cleanup = None => cwd = Home
  /\ place \in {"run", "running", "ran"} => loadedIn = cwd /\ BaseDir(group[index], cwd) = cwd

\* What is logged stays in order, and is in the file, the buffer or the channel,
\* for any number of errors and partial writes.
Conserved == ~crashed => file \o buffer \o data = logged

\* When the log is closed, and its last write did not fail, the error of each
\* profile that failed is in the file, though the group went on after it.
FailuresLogged ==
  place \in {"hooks", "end"} /\ ~crashed /\ buffer = <<>> =>
    \A i \in failed : \/ outcome = "panic" /\ i = index
                      \/ \E n \in 1 .. Len(file) : file[n] = ErrorOf(i)

\* Nothing is lost on the way to the log file, the errors of profiles least of all.
LogKept == Conserved /\ FailuresLogged

\* The process ends, whatever fails, also when the log cannot be written for ever;
\* and then it lets the system sleep and has told systemd.
ProcessEnds == <>(crashed \/ (place = "end" /\ ~sleepless /\ notified # "ready"))

\* No goroutine sends on the closed channel of the log.
NoCrash == ~crashed
=============================================================================
