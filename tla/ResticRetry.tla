---------------------------- MODULE ResticRetry -----------------------------
(***************************************************************************)
(* Waiting for locks in one run of a profile (wrapper.go): the local wait  *)
(* of lockRun, then for each restic command that fails on a lock of the    *)
(* repository, whether to unlock, to sleep and try again, or to give up;   *)
(* with the time that restic is told to wait by itself (--retry-lock).     *)
(*                                                                         *)
(* Durations are natural numbers of one unit, whatever it is; the clock    *)
(* moves only in the actions that take time, and a sleep ends on time.     *)
(*                                                                         *)
(* Definitions whose comment begins with "If" are deviations: what a       *)
(* plausible slip would make of the definition they precede.               *)
(***************************************************************************)
EXTENDS Integers

CONSTANTS
  LockWait,        \* --lock-wait, 0 when there is none
  RetryAfter,      \* restic-lock-retry-after, 0 disables retrying
  MinDelay,        \* constants.MinResticLockRetryDelay
  MaxDelay,        \* constants.MaxResticLockRetryDelay
  MaxArgument,     \* constants.MaxResticLockRetryTimeArgument
  Minute,          \* what --retry-lock is truncated to
  LocalSleep,      \* the sleep of lockRun's loop, at most
  StaleLockAge,    \* whether restic-stale-lock-age is positive
  ForceLock,       \* force-inactive-lock
  FilterArguments, \* whether --retry-lock may be used (restic 0.16 and later)
  UserRetryLock,   \* the --retry-lock the configuration gives to each of the
                   \* run's commands, 0 for none
  MaxReport,       \* the longest wait restic may say it waited in vain
  MaxCommands,     \* restic commands of the run
  MaxAttempts,     \* the count of failed attempts stops here
  MaxDuration      \* the longest a hook or a restic command works

ASSUME DurationAssumption ==
  /\ LockWait \in Nat
  /\ RetryAfter \in Nat
  /\ MinDelay \in Nat \ {0}
  /\ MaxDelay \in Nat /\ MaxDelay >= MinDelay
  /\ MaxArgument \in Nat
  /\ Minute \in Nat \ {0}
  /\ LocalSleep \in Nat \ {0}
  /\ MaxReport \in Nat
  /\ MaxDuration \in Nat

ASSUME OptionAssumption ==
  /\ StaleLockAge \in BOOLEAN
  /\ ForceLock \in BOOLEAN
  /\ FilterArguments \in BOOLEAN
  /\ MaxCommands \in Nat
  /\ UserRetryLock \in [0 .. MaxCommands -> Nat]
  /\ MaxAttempts \in Nat

VARIABLES
  pc,             \* where the run is
  elapsed,        \* time.Since(startTime)
  executionTime,  \* resticWrapper.executionTime
  doneTryUnlock,  \* resticWrapper.doneTryUnlock
  commands,       \* restic commands that have succeeded
  retryLock,      \* the --retry-lock of the current attempt, 0 for none
  reported,       \* the wait restic reported when the attempt failed on a lock
  slept,          \* time lockRun and the retries have slept
  resticWaited,   \* time restic waited for a lock it then got
  unlocks,        \* restic unlock commands started
  attempts        \* attempts that failed on a lock

retryVars == <<pc, elapsed, executionTime, doneTryUnlock, commands, retryLock,
               reported, slept, resticWaited, unlocks, attempts>>

\* What restic may report: no wait, or one of any length.
Silent == -1
Reports == {Silent} \cup 0 .. MaxReport

Enabled == RetryAfter > 0 /\ LockWait > 0

Larger(a, b) == IF a > b THEN a ELSE b
Smaller(a, b) == IF a < b THEN a ELSE b

\* remainingLockRetryTime: what is left of the lock wait, not counting the
\* time the restic commands took.
Remaining == IF Enabled THEN Larger(0, LockWait - elapsed + executionTime) ELSE 0

\* If restic were left all of the remaining time.
RetryLockAll ==
  IF Enabled /\ FilterArguments THEN Smaller(Remaining, MaxArgument) ELSE 0

\* prepareCommand: the wait left to restic.  It is cut short so that there is
\* time for another try.
RetryLock ==
  LET time == Smaller(Remaining - RetryAfter - MinDelay, MaxArgument)
  IN  IF Enabled /\ FilterArguments /\ time >= Minute
      THEN (time \div Minute) * Minute ELSE 0

\* If the delay were not limited to the remaining time.
RetryDelayUnlimited == Smaller(Larger(RetryAfter, MinDelay), MaxDelay)

\* canRetryAfterRemoteLockFailure: restic-lock-retry-after within its limits,
\* and within the remaining time.
RetryDelay == Smaller(Smaller(Larger(RetryAfter, MinDelay), MaxDelay), Remaining)

-----------------------------------------------------------------------------
RetryInit ==
  /\ pc = "lock"
  /\ elapsed = 0
  /\ executionTime = 0
  /\ doneTryUnlock = FALSE
  /\ commands = 0
  /\ retryLock = 0
  /\ reported = Silent
  /\ slept = 0
  /\ resticWaited = 0
  /\ unlocks = 0
  /\ attempts = 0

\* lockRun's loop: sleeps as long as the elapsed time is less than the wait.
WaitForLockfile ==
  /\ pc = "lock"
  /\ elapsed < LockWait
  /\ elapsed' = elapsed + Smaller(LocalSleep, LockWait)
  /\ slept' = slept + Smaller(LocalSleep, LockWait)
  /\ UNCHANGED <<pc, executionTime, doneTryUnlock, commands, retryLock, reported,
                 resticWaited, unlocks, attempts>>

LockfileTakenOrNot ==
  /\ pc = "lock"
  /\ pc' \in {"idle", "failed"}
  /\ UNCHANGED <<elapsed, executionTime, doneTryUnlock, commands, retryLock,
                 reported, slept, resticWaited, unlocks, attempts>>

\* Hooks, HTTP messages and the initialization take time nobody accounts for.
Hook ==
  /\ pc = "idle"
  /\ commands < MaxCommands
  /\ elapsed' \in elapsed .. elapsed + MaxDuration
  /\ pc' = "ready"
  /\ UNCHANGED <<executionTime, doneTryUnlock, commands, retryLock, reported, slept,
                 resticWaited, unlocks, attempts>>

\* What restic is told to wait: a --retry-lock of the configuration stays.
RetryLockOf(command) ==
  IF UserRetryLock[command] > 0 THEN UserRetryLock[command] ELSE RetryLock

\* prepareCommand, and restic starts.
StartRestic ==
  /\ pc = "ready"
  /\ retryLock' = RetryLockOf(commands)
  /\ reported' = Silent
  /\ pc' = "running"
  /\ UNCHANGED <<elapsed, executionTime, doneTryUnlock, commands, slept,
                 resticWaited, unlocks, attempts>>

\* If canRetryAfterError added the duration once more.
TookTwice(duration) ==
  /\ elapsed' = elapsed + duration
  /\ executionTime' = executionTime + 2 * duration

\* executionTime += summary.Duration, for every outcome.
Took(duration) ==
  /\ elapsed' = elapsed + duration
  /\ executionTime' = executionTime + duration

\* restic gets the lock, at once or after having waited, and does its work.
ResticSucceeds ==
  /\ pc = "running"
  /\ \E work \in 0 .. MaxDuration, wait \in 0 .. retryLock :
       /\ Took(work + wait)
       /\ resticWaited' = resticWaited + wait
  /\ commands' = commands + 1
  /\ pc' = "idle"
  /\ UNCHANGED <<doneTryUnlock, retryLock, reported, slept, unlocks, attempts>>

\* Any other failure ends the run: only lock failures are retried.
FailOtherwise ==
  /\ pc = "running"
  /\ \E work \in 0 .. MaxDuration : Took(work)
  /\ pc' = "failed"
  /\ UNCHANGED <<doneTryUnlock, commands, retryLock, reported, slept, resticWaited,
                 unlocks, attempts>>

\* If the execution time could get below zero.
ExecutionWithoutUnclamped(duration, report) ==
  (executionTime + duration) - (IF report = Silent THEN duration ELSE report)

\* The execution time once the attempt is added to it and the wait restic
\* reported is taken out, or the whole attempt if it reported none.
ExecutionWithout(duration, report) ==
  Larger(0, (executionTime + duration)
              - (IF report = Silent THEN duration ELSE report))

\* restic fails on the lock, and canRetryAfterError does not count the wait as
\* execution time.  The wait is what some line of restic's output says, which
\* nothing ties to the time the attempt took.
FailOnLock ==
  /\ pc = "running"
  /\ \E duration \in 0 .. retryLock + MaxDuration, report \in Reports :
       /\ elapsed' = elapsed + duration
       /\ executionTime' = ExecutionWithout(duration, report)
       /\ reported' = report
  /\ attempts' = Smaller(attempts + 1, MaxAttempts)
  /\ pc' = "decide"
  /\ UNCHANGED <<doneTryUnlock, commands, retryLock, slept, resticWaited, unlocks>>

\* The lock is reported to be old enough to be stale: unlock it once, if the
\* profile allows it; no waiting on a stale lock.
UnlockStale ==
  /\ pc = "decide"
  /\ StaleLockAge
  /\ doneTryUnlock' = TRUE
  /\ pc' = IF ~doneTryUnlock /\ ForceLock THEN "unlock" ELSE "failed"
  /\ UNCHANGED <<elapsed, executionTime, commands, retryLock, reported, slept,
                 resticWaited, unlocks, attempts>>

\* runUnlock: its error ends the retries.
RunUnlock ==
  /\ pc = "unlock"
  /\ unlocks' = unlocks + 1
  /\ \E work \in 0 .. MaxDuration : Took(work)
  /\ pc' \in {"ready", "failed"}
  /\ UNCHANGED <<doneTryUnlock, commands, retryLock, reported, slept, resticWaited, attempts>>

\* If the least delay were not asked for again after limiting the delay.
SleepAndRetryShortly ==
  /\ pc = "decide"
  /\ Remaining > 0
  /\ elapsed' = elapsed + RetryDelay
  /\ slept' = slept + RetryDelay
  /\ pc' = "ready"
  /\ UNCHANGED <<executionTime, doneTryUnlock, commands, retryLock, reported,
                 resticWaited, unlocks, attempts>>

\* The lock is not stale: sleep if enough of the wait is left.
SleepAndRetry ==
  /\ pc = "decide"
  /\ Remaining > 0
  /\ RetryDelay >= MinDelay
  /\ elapsed' = elapsed + RetryDelay
  /\ slept' = slept + RetryDelay
  /\ pc' = "ready"
  /\ UNCHANGED <<executionTime, doneTryUnlock, commands, retryLock, reported,
                 resticWaited, unlocks, attempts>>

\* If a retry without a sleep were granted when no time is left.
GiveUpNever ==
  /\ pc = "decide"
  /\ ~(Remaining > 0 /\ RetryDelay >= MinDelay)
  /\ pc' = "ready"
  /\ UNCHANGED <<elapsed, executionTime, doneTryUnlock, commands, retryLock,
                 reported, slept, resticWaited, unlocks, attempts>>

GiveUp ==
  /\ pc = "decide"
  /\ ~(Remaining > 0 /\ RetryDelay >= MinDelay)
  /\ pc' = "failed"
  /\ UNCHANGED <<elapsed, executionTime, doneTryUnlock, commands, retryLock,
                 reported, slept, resticWaited, unlocks, attempts>>

Finish ==
  /\ pc = "idle"
  /\ pc' = "done"
  /\ UNCHANGED <<elapsed, executionTime, doneTryUnlock, commands, retryLock,
                 reported, slept, resticWaited, unlocks, attempts>>

RetryNext ==
  \/ WaitForLockfile \/ LockfileTakenOrNot \/ Hook \/ StartRestic \/ ResticSucceeds
  \/ FailOtherwise \/ FailOnLock \/ UnlockStale \/ RunUnlock
  \/ SleepAndRetry \/ GiveUp \/ Finish

\* One thread of control.  The local wait ends: lockRun has its own bound.
RetrySpec == RetryInit /\ [][RetryNext]_retryVars /\ WF_retryVars(RetryNext)

-----------------------------------------------------------------------------
RetryTypeOK ==
  /\ pc \in {"lock", "idle", "ready", "running", "decide", "unlock", "done", "failed"}
  /\ elapsed \in Nat
  /\ executionTime \in Nat
  /\ doneTryUnlock \in BOOLEAN
  /\ commands \in 0 .. MaxCommands
  /\ retryLock \in Nat
  /\ reported \in Reports
  /\ slept \in Nat
  /\ resticWaited \in Nat
  /\ unlocks \in Nat
  /\ attempts \in Nat

\* "Do not count lock-wait time as normal execution time" (wrapper.go:756):
\* whatever the sequence of commands, failures, unlocks and retries, and
\* whatever wait restic reports, the execution time and the time slept fit in
\* the time elapsed, and a report that is too long takes no more than the
\* execution time that was counted, and nothing of the lock wait.
TimeAccounted == executionTime \in 0 .. elapsed - slept

\* What resticprofile itself sleeps, for the lockfile and for all commands of
\* the run together, does not exceed --lock-wait by more than the last sleep
\* of lockRun.
SleepBounded == slept <= LockWait + LocalSleep

\* At most one restic unlock in a run ("Loop protection for stale unlock
\* attempts", wrapper.go:799), and only with force-inactive-lock.
UnlockedOnce == unlocks <= 1 /\ (unlocks > 0 => ForceLock /\ doneTryUnlock)

\* "limiting the retry handling in restic, we need to make sure we can retry
\* internally so that unlock is called" (wrapper.go:377): when restic reports
\* that it waited in vain, no longer than resticprofile told it to, there is
\* time for another try.
RoomForRetry ==
  pc = "decide" /\ UserRetryLock[commands] = 0 /\ reported \in 1 .. retryLock =>
    Remaining > 0 /\ RetryDelay >= MinDelay

\* Every attempt that follows a failed one was bought with a sleep of at least
\* MinResticLockRetryDelay or with the unlock.
AttemptsPaid == (attempts - 1 - unlocks) * MinDelay <= slept

\* Neither too much sleep, nor attempts without any.
SleepsMeasured == SleepBounded /\ AttemptsPaid

\* The retries end, and so does the run.
RetriesEnd == <>(pc \in {"done", "failed"})

\* "If various locks in one profile-run require lock wait, the total wait time
\* may not exceed the duration that was specified" (docs, usage/locks): the
\* time slept and the time restic waited, within --lock-wait and the last
\* sleep of lockRun.
TotalWaitBounded == slept + resticWaited <= LockWait + LocalSleep
=============================================================================
