----------------------------- MODULE ProfileRun -----------------------------
(***************************************************************************)
(* One run of a profile (runProfile, wrapper.go): under the lockfile, the  *)
(* shell hooks of the profile and of the command's section, the HTTP       *)
(* hooks, the initialization and the restic commands, in their order; on   *)
(* an error the run-after-fail hooks; and in every case the run-finally    *)
(* hooks.                                                                  *)
(*                                                                         *)
(* A stage is a list of actions configured together; size gives how many   *)
(* it holds, 0 when it is not configured.  Whether a restic command is     *)
(* tried again after a lock failure is ResticRetry's concern, who else     *)
(* wants the lockfile is LockFile's.                                       *)
(*                                                                         *)
(* Definitions whose comment begins with "If" are deviations: what a       *)
(* plausible slip would make of the definition they precede.               *)
(***************************************************************************)
EXTENDS Naturals

CONSTANTS
  MaxHooks,   \* actions in one list, at most
  Panics,     \* whether a step may panic
  Sizes       \* the configurations: functions from stages to list sizes

\* Stages whose error ends the main sequence, and stages whose error is logged.
Strict == {"profileBefore", "sectionBefore", "checkBefore", "retentionBefore",
           "command", "retentionAfter", "checkAfter", "sectionAfter", "profileAfter"}
Lenient == {"initialize", "sendBefore", "initializeCopy", "sendAfter"}
OnFailure == {"sendAfterFail", "sectionFail", "profileFail"}
Finally == {"sectionFinally", "profileFinally", "sendFinally"}
Stages == Strict \cup Lenient \cup OnFailure \cup Finally

Places == Stages \cup {"lock", "unlock", "end"}

\* The stage that follows one that ended without an error it minds.
After ==
  [profileBefore   |-> "initialize",      initialize      |-> "sendBefore",
   sendBefore      |-> "sectionBefore",   sectionBefore   |-> "initializeCopy",
   initializeCopy  |-> "checkBefore",     checkBefore     |-> "retentionBefore",
   retentionBefore |-> "command",         command         |-> "retentionAfter",
   retentionAfter  |-> "checkAfter",      checkAfter      |-> "sectionAfter",
   sectionAfter    |-> "sendAfter",       sendAfter       |-> "profileAfter",
   profileAfter    |-> "sectionFinally",  sendAfterFail   |-> "sectionFail",
   sectionFail     |-> "profileFail",     profileFail     |-> "sectionFinally",
   sectionFinally  |-> "profileFinally",  profileFinally  |-> "sendFinally",
   sendFinally     |-> "unlock"]

NoError == "none"

ASSUME SizesAssumption ==
  /\ MaxHooks \in Nat
  /\ Panics \in BOOLEAN
  /\ Sizes \subseteq [Stages -> 0 .. MaxHooks]

VARIABLES
  size,      \* the configuration
  locking,   \* whether the profile has a lockfile to take
  held,      \* whether the run holds it
  place,     \* the stage being run, or before and after all of them
  done,      \* actions started, per stage
  err,       \* the stage whose error failed the run, or NoError
  told,      \* the errors the actions of a stage were given to report
  failed,    \* the stages where an action returned an error
  panicked   \* the stage that panicked, or NoError

vars == <<size, locking, held, place, done, err, told, failed, panicked>>
config == <<size, locking>>

Init ==
  /\ size \in Sizes
  /\ locking \in BOOLEAN
  /\ held = FALSE
  /\ place = "lock"
  /\ done = [s \in Stages |-> 0]
  /\ err = NoError
  /\ told = [s \in Stages |-> {}]
  /\ failed = {}
  /\ panicked = NoError

\* lockRun: with no lockfile (none configured, --no-lock, dry-run) run directly.
Lock ==
  /\ place = "lock"
  /\ held' = locking
  /\ place' = "profileBefore"
  /\ UNCHANGED <<config, done, err, told, failed, panicked>>

\* The lock cannot be obtained: no hook of any kind runs.
LockRefused ==
  /\ place = "lock"
  /\ locking
  /\ err' = "lock"
  /\ place' = "end"
  /\ UNCHANGED <<config, held, done, told, failed, panicked>>

Pending(s) == place = s /\ done[s] < size[s]

\* If sendMonitoring assigned the error of a hook to its own parameter.
StartLeaking(s) ==
  /\ Pending(s)
  /\ done' = [done EXCEPT ![s] = @ + 1]
  /\ told' = [told EXCEPT ![s] = @ \cup {IF s \in failed THEN s ELSE err}]
  /\ UNCHANGED <<config, held>>

\* The next action of the list starts; hooks are told of the error so far.
Start(s) ==
  /\ Pending(s)
  /\ done' = [done EXCEPT ![s] = @ + 1]
  /\ told' = [told EXCEPT ![s] = @ \cup {err}]
  /\ UNCHANGED <<config, held>>

Succeed(s) ==
  /\ Start(s)
  /\ UNCHANGED <<place, err, failed, panicked>>

\* If an error of the initialization failed the run.
FailStrictly(s) ==
  /\ s \in Strict \cup {"initialize"}
  /\ Start(s)
  /\ failed' = failed \cup {s}
  /\ err' = s
  /\ place' = "sendAfterFail"
  /\ UNCHANGED panicked

\* An error in the main sequence: runOnFailure turns to onFailure.
Fail(s) ==
  /\ s \in Strict
  /\ Start(s)
  /\ failed' = failed \cup {s}
  /\ err' = s
  /\ place' = "sendAfterFail"
  /\ UNCHANGED panicked

\* If onFailure went on to the profile's hooks whatever became of the section's.
FailInFailureHookOn(s) ==
  /\ s \in {"sectionFail", "profileFail"}
  /\ Start(s)
  /\ failed' = failed \cup {s}
  /\ place' = After[s]
  /\ UNCHANGED <<err, panicked>>

\* An error of a run-after-fail command ends onFailure; the run's error stays.
FailInFailureHook(s) ==
  /\ s \in {"sectionFail", "profileFail"}
  /\ Start(s)
  /\ failed' = failed \cup {s}
  /\ place' = "sectionFinally"
  /\ UNCHANGED <<err, panicked>>

\* Errors of the initialization, of HTTP hooks and of run-finally commands are
\* logged: the list goes on.
Tolerate(s) ==
  /\ s \in Lenient \cup Finally \cup {"sendAfterFail"}
  /\ Start(s)
  /\ failed' = failed \cup {s}
  /\ UNCHANGED <<place, err, panicked>>

\* A panic runs the deferred functions: finally, and every run-finally command.
\* Out of a run-finally command it does not reach sendFinally.
Panic(s) ==
  /\ Panics
  /\ panicked = NoError
  /\ Start(s)
  /\ panicked' = s
  /\ place' = IF s \in Strict \cup Lenient \cup OnFailure THEN "sectionFinally"
              ELSE IF s = "sendFinally" THEN "unlock"
              ELSE place
  /\ UNCHANGED <<err, failed>>

\* If the failing path returned before the deferred functions were set up.
AdvanceShort(s) ==
  /\ place = s
  /\ done[s] = size[s]
  /\ place' = IF s = "profileFail" THEN "unlock" ELSE After[s]
  /\ UNCHANGED <<config, held, done, err, told, failed, panicked>>

\* The list is exhausted.
Advance(s) ==
  /\ place = s
  /\ done[s] = size[s]
  /\ place' = IF s = "profileFinally" /\ panicked \in {"sectionFinally", "profileFinally"}
              THEN "unlock" ELSE After[s]
  /\ UNCHANGED <<config, held, done, err, told, failed, panicked>>

\* If the lock were released before the deferred functions of the profile.
UnlockEarly ==
  /\ place \in {"unlock"} \cup Finally
  /\ held
  /\ held' = FALSE
  /\ place' = IF place = "unlock" THEN "end" ELSE place
  /\ UNCHANGED <<config, done, err, told, failed, panicked>>

\* If Release were called after the run rather than deferred, on success.
UnlockOnSuccess ==
  /\ place = "unlock"
  /\ held' = (held /\ err # NoError)
  /\ place' = "end"
  /\ UNCHANGED <<config, done, err, told, failed, panicked>>

\* lockRun's deferred Release.
Unlock ==
  /\ place = "unlock"
  /\ held' = FALSE
  /\ place' = "end"
  /\ UNCHANGED <<config, done, err, told, failed, panicked>>

Step(s) ==
  \/ Succeed(s) \/ Fail(s) \/ FailInFailureHook(s) \/ Tolerate(s)
  \/ Panic(s) \/ Advance(s)

Next == Lock \/ LockRefused \/ Unlock \/ \E s \in Stages : Step(s)

\* One thread of control: the run goes on while it can.
Spec == Init /\ [][Next]_vars /\ WF_vars(Next)

-----------------------------------------------------------------------------
TypeOK ==
  /\ size \in Sizes
  /\ locking \in BOOLEAN
  /\ held \in BOOLEAN
  /\ place \in Places
  /\ done \in [Stages -> 0 .. MaxHooks]
  /\ err \in Strict \cup {NoError, "lock"}
  /\ told \in [Stages -> SUBSET (Strict \cup {NoError})]
  /\ failed \subseteq Stages
  /\ panicked \in Stages \cup {NoError}

Ended == place = "end" /\ err # "lock"

AllDone(s) == done[s] = size[s]

\* The run-finally commands are the place for "custom cleanup tasks that must
\* always run" (docs, run_hooks): once the run has the lock, all of them run,
\* whatever failed, one of them included, and after a panic.
FinallyRuns ==
  Ended => AllDone("sectionFinally") /\ AllDone("profileFinally")

\* The commands around everything the profile does.
ProfileHooks == {"profileBefore", "profileAfter"}

\* The failure hooks: when nothing failed, none of them; when the run failed,
\* every send-after-fail is sent, then the section's run-after-fail runs, and
\* the profile's unless the section's failed.  Of an error of the profile's
\* own run-before or run-after it only says that it gets to the profile's: what
\* the section's have to do with it is ProfileErrorsPassSection.
FailureHooks ==
  Ended /\ panicked = NoError =>
    /\ err = NoError => \A s \in OnFailure : done[s] = 0
    /\ err # NoError =>
         /\ AllDone("sendAfterFail")
         /\ "sectionFail" \notin failed =>
              AllDone("profileFail") \/ "profileFail" \in failed
    /\ err \notin ProfileHooks \cup {NoError} =>
         /\ AllDone("sectionFail") \/ "sectionFail" \in failed
         /\ "sectionFail" \in failed => done["profileFail"] = 0

\* "PRB -->|Error| PFAIL" and "PRA -->|Error| PFAIL" (docs, run_hooks): an
\* error of the profile's run-before or run-after goes to the profile's
\* run-after-fail, and past the section's.
ProfileErrorsPassSection ==
  Ended /\ panicked = NoError /\ err \in ProfileHooks => done["sectionFail"] = 0

\* The run reports an error exactly when a command it minds failed: not for
\* the initialization, an HTTP hook, or a command of the failure and finally
\* hooks.
ErrorReported ==
  place \in Finally \cup {"unlock", "end"} /\ err # "lock" =>
    (err = NoError <=> failed \cap Strict = {})

\* Hooks that report a failure are told the run's error, "the environment of
\* run-after-fail" (docs, run_hooks and http_hooks), never that of another
\* hook; all others are told none.
ToldTheFailure ==
  \A s \in Stages :
    told[s] \subseteq IF s \in OnFailure \cup Finally THEN {err} ELSE {NoError}

\* "The local resticprofile lock is surrounding the whole process" (docs,
\* run_hooks): nothing starts without it, the run-finally commands included.
LockSpansRun == [][done' # done /\ locking => held /\ held']_vars

\* The run ends, and does not keep the lock.
RunEnds == <>[](place = "end" /\ ~held)

\* The hooks for failures and the hooks for every end run when they should.
HooksRun == FinallyRuns /\ FailureHooks

\* The error of the run is what it reports, and what its hooks are told.
ErrorPassedOn == ErrorReported /\ ToldTheFailure

\* The lock is held from before the first hook to after the last, and no longer.
LockedThroughout == LockSpansRun /\ RunEnds
=============================================================================
