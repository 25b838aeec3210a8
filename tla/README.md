# A formal model of resticprofile

resticprofile runs [restic](https://restic.net) with the profiles of a
configuration file: it builds restic's command line, takes a local lock, runs
hooks before and after, waits for locks of the repository, feeds restic from
another command, records the outcome, and installs schedules that run it later.
This directory models the parts of it that are hard to test: several processes
or goroutines at work, waits and retries, failures between two steps, and long
chains of conversions, from the files of a configuration to a command line and
from the text of a schedule to the minutes a job starts. TLC
checks the models on small instances; TLAPS proves what matters most for every
value of the constants. Paths below are relative to the root of the repository.

## 1. The system and its parts

| Part | State | Operations | Shares state with |
|---|---|---|---|
| Lockfile: `lock/lock.go`, `lockRun` in `wrapper.go` | the file at the lock's path, `Lock.locked`, the PIDs in the file | `TryAcquire`, `ForceAcquire`, `SetPID`, `Release`; the wait loop of `lockRun` | every other run of the profile, through the disk; every child, through its PID |
| Profile run: `runProfile` in `wrapper.go` | which hooks and commands ran, the error, the lock | main sequence, `runOnFailure`, `runFinal`, HTTP hooks | the lockfile, the commands |
| Retries: `canRetryAfterError` and around in `wrapper.go` | `startTime`, `executionTime`, `doneTryUnlock` | `prepareCommand` (`--retry-lock`), `canRetryAfterRemoteLockFailure`, `runUnlock` | the wait of `lockRun` (same clock), restic |
| Shell commands: `shell/command.go`, `shell/analyser.go` | the child, `sigChan`, `done`, scanners of output | `Run`, `propagateSignal`, `ScanStdout`, `AnalyseLines` | the lockfile (PID), `sigChan` of the wrapper |
| Stream source: `wrapper_streamsource.go` | a pipe, `commandSignals`, `readerWrapper` | start of the stdin-commands, `Read`, `Close` | restic's stdin, `sigChan` |
| Crontab: `crond/`, `schedule/handler_crond.go`, `schedule_jobs.go`, `commands.go` | the user's crontab | `schedule`, `unschedule`: read, change, write the whole | other processes and the user, through the crontab |
| Status file: `monitor/status/` | a JSON file | load, change, save after each command | runs of other profiles |
| Groups and start-up: `main.go` | the profiles left to run | group loop with continue-on-error, retries of opening a profile | all of the above, one after the other |
| Calendar: `calendar/` | sets of allowed minutes, hours, days ... | `Parse`, `Match`, `Next`, `GetRanges` | crontab entries, timers |
| Configuration: `config/` | the tree of settings, includes, mixins and their uses; profiles | load, reload for a profile, inheritance, mixins, resolution, v1 and v2 | everything |
| Flags: `config/flag.go`, `shell/args.go`, `restic/commands.go`, `wrapper.go` | the table of commands and options, the arguments of a command | merge of manuals, filter, rename | the profile, restic |
| systemd, launchd, Windows tasks: `schedule/`, `systemd/`, `schtasks/` | units and tasks | create, remove, status | the services of the system |
| Elevation: `remote/`, `commands.go` | an HTTP server, a channel | `/load`, `/term`, `/done` | a second process |
| Log output: `logger.go`, `syslog.go` | a buffer, a file that is opened and closed | write, flush, ticker | all goroutines that log |
| Metrics, downloads, completion, display | none that lasts | | |

How they interact: `main.go` opens the profile and makes a `resticWrapper`,
whose `runProfile` is called under `lockRun`; in it every restic command and
every hook is a `shell.Command`, whose PID goes to the lockfile and who listens
on the one `sigChan` of the run; a backup may read from the stream source,
whose goroutines use the same `sigChan`; after each command the summary goes to
the status file and the metrics. `schedule` writes command lines into the
crontab, or units and tasks of other schedulers, that start all this later, at
the same time as others. Each profile is opened by loading all files of the
configuration again, with its name in their templates; the flags of restic are
what is left of its sections.

### What is hard in it, and what makes each part correct

* **Lockfile.** Processes race to create, read and remove one path, and any of
  them may be killed. Correct: two runs never have the profile together; the
  owner alone takes its file away; a stale lock is recognised and no other;
  waiting ends.
* **Profile run.** Any step may fail or panic. Correct: the documented order;
  cleanup hooks on every path; failure hooks exactly when a command that counts
  failed, told of that failure; the lock from the first to the last step.
* **Retries.** A loop around restic without a counter, paid from a budget of
  time that is corrected by what restic reports. Correct: the budget is kept,
  is never extended by mistake, the loop ends, unlock happens at most once.
* **Stream source.** Up to six goroutines and two small channels per backup.
  Correct: an incomplete input never passes for a backup; signals reach the
  process they are meant for; nothing waits for ever.
* **Crontab.** A file that others write too, changed by text patterns. Correct:
  a job's own entries are replaced, those of others and the user's lines stay.
* **Status file.** The same problem with JSON: nothing is lost, a reader never
  sees half a file.
* **Calendar.** Boundaries of months, weekdays (Sunday is 0 and 7), years; four
  schedulers with four ideas of recurrence. Correct: a job starts when the text
  says, whichever scheduler has it.
* **Jobs of systemd, launchd and Windows.** Several files and calls per job, each
  of which may fail or be the last. Correct: a command that says it went well has
  scheduled, or removed, all it was asked to; what an interrupted one leaves starts
  nothing by mistake and can be repaired.
* **Configuration.** A tree changed in place by includes, parents and mixins, and
  built again for every profile. Correct: a profile is what its files say, whatever
  was loaded before.
* **Flags.** Names that depend on restic's version, settings that sections take
  from each other. Correct: retention selects what backup made, copy has the right
  direction, restic gets no flag it does not know.
* **Groups, elevation, log output.** The error that decides, a process that
  never answers, a file that cannot be opened again.

The full list, each at its line, is under "hazards" in `PROJECT.json`.

## 2. The modules

| Module | Models | Checked by | Proofs |
|---|---|---|---|
| `ExclusiveRun` | what the lockfile promises (abstract) | `LockPlain` | |
| `LockFile` | `lock.go`, `lockRun`, the part of `Command.Run` that touches the lock | `LockPlain`, `LockForce` | `LockFileProofs` |
| `ProfileRun` | `runProfile` and the hooks | `RunHooks` | `ProfileRunProofs` |
| `ResticRetry` | lock waits and retries | `RetryLocks` | `ProfileRunProofs` |
| `StreamSource` | `wrapper_streamsource.go`, `Command.Run` as far as signals and stdin go | `StreamEnds` | `ResticRunProofs` |
| `Crontab` | `schedule` and `unschedule` with crond | `CronTurns` | `CrontabProofs` |
| `CommandRun` | `Command.Run`, the analyser of stderr and the commands of stream-error | `CommandEnds` | `CommandRunProofs` |
| `StatusBoard` | what the status file promises who reads it (abstract) | `StatusSaves` | |
| `StatusFile` | the status file and the runs that share it | `StatusSaves` | `StatusFileProofs` |
| `LogWriter` | the deferred writer of the log file (`logger.go`) | `GroupEnds` | |
| `GroupRun` | `main` over the profiles of a group, composed with `LogWriter` | `GroupEnds` | `GroupRunProofs` |
| `Calendar` | `calendar/`: events, values, ranges, the normal form, the next time (no state) | `ScheduleTimes` | `CrontabProofs` |
| `Triggers` | crontab fields, intervals of launchd, triggers of Windows (no state) | `ScheduleTimes` | `CrontabProofs` |
| `ScheduleTimes` | a text, parsed and given to a scheduler; composes the two | `ScheduleTimes` | `CrontabProofs` |
| `ConfigTree` | the tree of settings, inheritance, mixins, lists that are appended to (no state) | `Configuration` | |
| `ResticOptions` | the table of restic's options and the filter of arguments (no state) | `Configuration` | `ResticRunProofs` |
| `ProfileFlags` | sections of a profile, what they take from each other, flags of the commands (no state) | `Configuration` | `ResticRunProofs` |
| `Configuration` | loading, opening profiles, running restic; composes the three | `Configuration` | `ResticRunProofs` |
| `ScheduledJobs` | selection of profiles, their jobs, command lines, places of units (no state) | `Jobs` | |
| `Jobs` | `schedule`, `unschedule` and `status` with systemd, launchd and Windows, elevation | `Jobs` | `JobsProofs` |

`MC<module>` gives each its instances. Operators whose comment begins with "If"
or "Without" are deviations: a body that a plausible slip in the code would
give to the definition after them. They are no part of any specification; in
"mutants" of `PROJECT.json` each stands for its original, and the named
property then fails.

### LockFile

`pc` is the place of a run in `lockRun`, with one place for every read or
change of the disk in `ForceAcquire` (`read`, `check`, `remove`, `recreate`):
what lies between two of them is what other processes can come between. A run
creates the file at most once, so a file is named by the run that made it;
`lockfile` is the one the path leads to. The Go code keeps the file open and
removes it by path, which is why `lastPID` belongs to the file and `RemoveStale`
and `Release` to the path. `locked` is `Lock.locked`.

`Promise` is the refinement: `phase` is computed from `pc`, `holder` is
`lockfile`. Runs without a lockfile (`--no-lock`, dry-run, a directory that
cannot be made) are outside the promise, but are in the model.

### ProfileRun

`place` is the stage of the run, `After` the order in which `runProfile` nests
them, `done` and `failed` what became of them. A configuration is a size per
stage, so an instance covers many profiles at once. A panic in a stage runs the
deferred functions only, as in Go. Retries of restic are one "command" here.

### ResticRetry

`elapsed` is the time since `startTime`; `executionTime` and `doneTryUnlock` are
the fields of that name. `Remaining`, `RetryLock` and `RetryDelay` are
`remainingLockRetryTime` and the arithmetic of `prepareCommand` and
`canRetryAfterRemoteLockFailure`, with truncation to minutes. Durations are
natural numbers; in the instance they keep the order the constants have in the
program. `LockWait` is shared with `WaitForLockfile`, as in the code. The wait that
is taken out of `executionTime` is read from a line of restic's output
(`GetRemoteLockedMaxWait`), and nothing ties it to how long the attempt took: a
failure takes any time and reports any wait up to `MaxReport`, or none
(`Reports`), and the difference stops at 0 (`ExecutionWithout`). `UserRetryLock` is a
`--retry-lock` the configuration gives to a command, which the computed one does not
replace (`wrapper.go:384`); a report that is too long costs lock wait, and
`RoomForRetry` is about the others.

### StreamSource

One process per command; for each the goroutine `Run` starts for signals
(`watcher`); the goroutine that runs the stdin-commands (`producer`); the one
`os/exec` starts to feed restic (`reader`); the main one. `sigChan` and
`commandSignals` are queues with the capacities of the code, so that a send may
block. Who sent an interrupt is kept, to tell whom it was meant for. `Timely`
says that a goroutine is at its `select` before its command has ended, and that
the 750 ms `Read` sleeps are enough for it to pass a signal on.

### Crontab

The crontab is a sequence of lines. Of an entry, only what the pattern of
`deleteLine` can tell is kept, and the pattern is modelled with its flaws:
`Beginnings` are the pairs of profile names of which one begins the other.
Reading (`LoadCurrent`) and writing (`Write`) are two actions, because they are
two processes the program starts. `installed` is what the commands should have
achieved; it is history and decides nothing. `Kept` filters lines one after the
other, so that it can be reasoned about.

### CommandRun

`main` is the place of the goroutine in `Run`: scanning stdout, then reading
stderr, then waiting, in that order. The pipes hold `PipeSize` lines, the child
waits when one is full. `line` holds the sections the line just read matches and
that are still to be looked at; while the command of one runs (`callback`)
nobody reads. Each process has a goroutine for signals (`watcher`), and the two
share `sigChan`. `Timely` is as in `StreamSource`: without it, a goroutine that
is not scheduled before its command is done may take, and lose, an interrupt
that comes later.

### StatusFile

`file` and the `memory` of each run map profiles and sections to an entry. The
time of an entry is the number of the command that set it, which makes an entry
its own proof of origin (`Truthful`). `Open` empties the file, `Write` fills it
again; a run may be killed between the two. `Promise` shows a reader the file,
but for that moment, in which it is shown as it was before. `log`, `before` and
`latest` are history.

### LogWriter and GroupRun

`LogWriter` has the state of `newDeferredFileWriter`: the channel `data`, the
`buffer`, the file and `lastError`. Goroutines that wait to send are the lines of
`data` behind the first `Capacity`. `Flush` is the set of what a flush may come
to: all written, a part, nothing, or a file that cannot be opened.

`GroupRun` is the main goroutine, with `Log == INSTANCE LogWriter` for what it
writes. `place` goes through `main`, `openProfile` (one step for each turn of its
loop), the run of the profile, the deferred cleanup, the report of an error, and
the deferred functions of `main` in the order Go calls them. What `ProfileRun`
has in detail is one step here, `RunEnds`, with an outcome. A directory is a root
and a depth, because a relative `base-dir` leads one further down each time it is
applied. `helper` is the goroutine of a stdin-command, for which nobody waits, and
which may log at any time. `tried`, `failed` and `logged` are history.

### Calendar, Triggers and ScheduleTimes

The calendar is a parameter, `Dates`, the days one after the other; the theorems are
about any. The instance has years of 12 short months, weeks of three days and days of
eight minutes, so that every minute of four years can be
looked at; days a month or a week does not have, a leap year and the two Sundays
are all there. A text is the parts that the patterns of `event_parse.go` cut out of
it; `Parse` does to them what the functions behind these patterns do, keywords
included. A `Value` is the set of its numbers and whether it was given one only
(`initialValue`). `NextTime` and `GetAllInBetween` search as the code does, with its
two years and its zero time. `Triggers` has one function for each of the schedulers,
and external operators for when they start a job. `ScheduleTimes` is the command:
parse, then create, which for Windows may never end (`HangCreating`). What a text
says (`Says`) is defined from the text alone, by systemd.time.

### ConfigTree, ResticOptions, ProfileFlags and Configuration

A tree maps paths to values; `MergeConfigMap`, `RevolveAppendToListKeys`,
`ApplyMixin`, `InheritFrom` and `Decode` (version 1) do what viper and mapstructure
do for the functions of `config/`. `Configuration` is the process: `LoadMain`,
the includes, then `OpenProfile` for one profile after the other, each of which
loads everything again, applies the uses of mixins file by file in any order of their
keys (`ApplyUses`), climbs to the parents (`InheritFirst`) and comes back
(`JoinParent`), decodes, resolves the sections in any order (`ResolveSection`),
changes the directory and starts again (`ChangeDir`), and runs restic. `AsWritten` is the
reference: the settings of a profile defined from the files alone. `Manuals` are what
restic's manuals have for each version; `Commands` merges them as
`restic/commands.go` does.

### ScheduledJobs and Jobs

`proc` is the process with its place, the profiles and the jobs left to do; each place
is one file written or removed, or one call of the scheduler, and each may fail, be
the last one the process does, or be followed by a reboot. `disk` has unit files and
plists, `enabled` and `active` are what systemd, launchd or the task scheduler make
of them: an active timer is what was read last, not what the file holds.
`config` may be edited between commands; a process keeps the one it has read.
A profile is found in any case of its name (`KeyOf`), a unit of systemd keeps the
case. On Windows a process that is denied becomes `parent` and a second, elevated
one does everything again.

## 3. The runs

| Run | Instance | Shows |
|---|---|---|
| `LockPlain` | 4 runs: plain, two waiting, one without lock; 2 commands each; I/O errors; crashes | exclusion, `locked` agrees with the disk, refinement of `ExclusiveRun` |
| `LockForce` | a plain run, one that waits and one that waits with force-inactive-lock; 2 commands each; crashes; fair | two runs hold the lock only once a command is over, a stale lock is cleared, every run ends |
| `RunHooks` | 51 configurations of hooks, lists of 1 or 2, panics | the failure hooks, the finally hooks, the error, the lock |
| `RetryLocks` | 2 commands, one with a `--retry-lock` of its own, a wait of 13 units, reports of 0 to 8 or none | the accounting of time, the sleeps, room for another try, the end of the retries |
| `StreamEnds` | 2 stdin-commands, 1 hook, 1 interrupt, fair | no incomplete backup passes for a success; restic is interrupted first, and nobody else by `Read`; an unused stdin-command is stopped; the run ends |
| `CronTurns` | 3 jobs of 2 profiles and 2 sections, 2 schedules in one; changes of the configuration; failures; a line of the user, a deleted marker | no entry of another job is lost, none is there twice, what is unscheduled is gone, the user's line stays |
| `CommandEnds` | 2 sections of stream-error, lines too long, 2 interrupts, fair | the error is the right one, sections run as often as they should, no process is left, `Run` returns but for a child that waits to write errors |
| `StatusSaves` | 2 profiles that take turns, 3 commands, kills and errors of saving | what is shown was so; refinement of `StatusBoard` |
| `GroupEnds` | 25 groups of up to 2 profiles, a channel of 1 line, errors of the log file, panics, a lingering stdin-command, fair | the exit code tells which profiles ran and failed; each starts from the first directory and runs where it was loaded; the log keeps all lines in order, and the errors are in it at the end; the process ends |
| `ScheduleTimes` | 9 keywords and every combination of 9 kinds of weekdays, 10 of dates, 12 of times, created at 3 moments | crond, launchd and Windows start a job at the minutes the text says and at no others, with the exceptions each property names; the text shown says the same |
| `Configuration` | 16 sets of files for trees, nearly 700 for flags, 18 for copy; two profiles opened one after the other, the second also after an error; restic in 14 versions | a profile is what the files say, retention selects what backup made, copy goes one way, only known flags are passed |
| `Jobs` | 2 profiles, one with two spellings, and a group; 9 requests, 3 configurations, 3 schedulers; 3 commands, errors of each call, kills, reboots, edits, fair | success means scheduled, or removed; no timer without its service, nothing enabled or active without a file; nothing is touched before all is read; commands end |

Why the bounds are enough. *Locks*: the conflicts of the lockfile are between an
owner, one that clears the lock and one that creates it, so three contenders
show all of them; two commands give a gap between children; one sleep gives a
wait that is over and one that is not. For safety the proofs remove the bounds. *Hooks*: lists of two have a first, a last and a next; the
configurations take one hook of every kind, or two of one kind, of the failure
and of the finally hooks, or none, with the steps of backup, of copy and of
other commands. *Retries*: the wait holds several
retries, an unlock and the cut of `--retry-lock`; proved for all values.
*Stream*: the channels have room for one and two signals, so two interrupts
overfill both. *Crontab*: three jobs make pairs that agree in the profile only,
in the section only, and in neither; one deleted marker gives a section without
its start, one without its end, and after the next command a second section and
markers in the wrong order. *Commands*: a pipe of one line is full as soon as
anything can be in the way of a reader; the sections have `min-matches` none and
two, `max-runs` none and one, and three lines reach a second run of one and the
limit of the other. *Status*: a profile that saves and one whose entries may
suffer from it; three commands give an entry, its replacement, and another
between or after them. *Groups*: two profiles have a first that may stop the
second and leave something behind for it; the kinds of `base-dir` are none, one
that exists, one that does not, and a relative one, in directories nested two deep
(for three, see below); a channel of one line is full as soon as both the
stdin-command and an error are to be logged. *Times*: ranges that are one, two and
more numbers long, forward and backward, at either end; times of a day that are one,
regular, irregular and too many. *Configuration*: three generations of profiles, a
mixin used in two of them and in a section, lists changed at both ends in a parent, a
child and a mixin, an include before and after; two profiles opened are enough for
one to leave something behind for the other. *Jobs*: three commands give a schedule
that is interrupted, another one over it, and an unschedule, with an edit between any
two; a state has at most two jobs of one profile, so one can fail before the other.

Type invariants (`TypeOK` of each module) are proved where there are proofs; TLC
finds them to hold in the instances above, but they are no part of the runs, which
are kept for what could be wrong.

### Where code and documentation disagree

These show in the same models with one change of an instance or of a property.

Locks, commands, logs:

* `HasLockedMatchesDisk` of `LockFile` with one run in `Forcing`: `ForceAcquire`
  removes the lockfile as soon as the last child PID in it is gone
  (`lock/lock.go:53-58`), also when the run that holds it is alive and between two
  commands. "check this instance (and only this one) has locked the file"
  (`lock/lock.go:95`) is then wrong, and two runs have the profile together.
* `RunEnds` of `StreamSource` with two interrupts by the user: one is passed on and
  makes `Read` fail, the other fills `sigChan`, so that `Read` blocks in its own send
  (`wrapper_streamsource.go:128`) and the run never ends; `closePipe` does the same
  (`wrapper_streamsource.go:98`). The comment on the close that starts it is "close
  stdin (if possible) to unblock Wait on cmd.Process" (`shell/command.go:135`).
* `NothingLost` of `Crontab` with a pair of names in `Beginnings`: the pattern of
  `deleteLine` has anything after the value of `--name` (`crond/crontab.go:200`), so
  scheduling `home` deletes the entries of `homelab`. The comment has "with the same
  config file, profile name and command name" (`crond/crontab.go:195`), the
  documentation "schedules are always independent of each other"
  (`docs/content/schedules/commands/index.md:21`).
* `StderrIsRead` of `CommandRun`: `Run` reads stdout to its end before it begins to
  read stderr, both pipes (`shell/command.go:143-160`). A restic that fills the
  pipe of stderr blocks before it closes stdout: `Run` never returns, and the
  commands of `stream-error`, "the command to run when `pattern` is found in
  stderr" (`docs/content/configuration/run_hooks/index.md:277`), are not run.
* `NoCrash` of `GroupRun`: a stdin-command that is still there, or the shutdown
  hook that cannot remove the temporary directory (`util/tempdir.go:84`), logs
  after the log is closed, which is a send on a closed channel and panics
  (`logger.go:165`, `260-263`).
* `Directories` of `GroupRun` with `Nesting = 3`: a relative `base-dir` leads
  further down each time the profile is loaded again; after three attempts the
  profile runs in a directory it was not loaded in (`main.go:316-350`).
* A panic in a profile is shown, and the exit code is 0 (`main.go:117`, `471`).
  The filter of the log set for a quiet profile stays for the ones after it
  (`main.go:395`). A log closed without an error may have lost its end: the
  result of closing the file replaces that of the last write (`logger.go:186`).
* `LockCoversChildren` of `LockFile`: an error of the output scanner (a line of
  more than 64 KB) makes `Run` return without waiting for restic, and the lock is
  released over it (`shell/command.go:146`); the documentation has the lock "for
  the duration of the profile" (`docs/content/usage/locks/index.md:114`).
* `TotalWaitBounded` of `ResticRetry`: the time restic waited for a lock that it
  got in the end counts as execution time, which extends the wait that is left
  (`wrapper.go:522`, `854`); the documentation has "the total wait time may not
  exceed the duration that was specified"
  (`docs/content/usage/locks/index.md:197`).
* `NothingLeft` of `Crontab`: `unschedule` looks for the entry of a schedule that
  is no longer declared with an empty name of the configuration file
  (`config/schedule_config.go:44`), and leaves it; the comment of
  `commands.go:559` is "Add all undeclared schedules as remove-only configs".
* `KeepsPromise` of `StatusFile` with `TakeTurns = FALSE`: both runs load the
  file before either saves it, and one loses its entry
  (`monitor/status/progress.go:63-65`). With `"load"` in `Errors`: a file that
  cannot be opened for once is written as if it had been empty.
* `monitor/status/progress.go:48` dereferences the backup section of the profile
  when a backup ends with a warning; with a status file and no backup section
  that panics (`wrapper.go:735` has the check). `Panics` of `StatusFile` keeps
  such a command out.
* A lock that was just acquired is not safe either, with two runs in `Forcing` and a
  third that crashes: both find the same stale lock, and the slower removes the fresh
  lock of the faster (`lock/lock.go:53-62`). `SharedOnlyWhenStale` is what is left.
* `NothingLost` with two processes and `TakeTurns = FALSE`: both read the crontab
  before either writes it, one loses its entries (`crond/crontab.go:134-153`).
* `NoDuplicates` with `"retention"` in `Section`: its entry ends in `forget`, but
  the one to delete is looked for with `retention`, so that each `schedule` adds
  another (`schedule_jobs.go:142-147`, `schedule/handler_crond.go:63`).
* The pattern of `deleteLine` needs the text `resticprofile` in the line
  (`crond/crontab.go:200`): with a binary of another name nothing is ever deleted.
* `ReadInterruptsRestic` without its condition: one interrupt by the user makes
  `Read` send a second one, for which restic's goroutine is no longer there; the
  next hook gets it (`wrapper_streamsource.go:128`).
* After an error of the profile's `run-before` or `run-after` the code runs the
  section's `run-after-fail` too (`wrapper.go:237-243`), and the profile's only if that
  goes well; the flow diagram of `docs/content/configuration/run_hooks/index.md` leads
  both errors to the profile's (`:179` and `:194`, in words `:140` and `:144`). TLC finds
  `ProfileErrorsPassSection` violated in `RunHooks`; `FailureHooks` claims of these two
  errors only what both agree on.
* `ProfileRun` sends `send-after`, and then `send-after-fail`, when a `run-after`
  of the profile fails (`wrapper.go:231-238`); the diagram of
  `docs/content/configuration/http_hooks/index.md:319` has them as alternatives.

Calendar and schedulers, where the properties of `ScheduleTimes` make an exception
or name a condition:

* Sunday written as 7, as the end of a range is (`calendar/event_parse.go:132-133`),
  is never matched by `Next`, for which Sunday is 0: the next run shown of
  `mon..sun`, and the first one of a Windows task, are never on a Sunday. `fri..mon` is taken
  for `mon..fri` (`calendar/value.go`, `AddRange` swaps), `sun..sun` for every day,
  and `,sun..tue` for a range from Sunday as 7 down to Tuesday.
* crond and launchd have no years: a schedule of one year is installed for all of
  them. A crontab, or an interval of launchd, with a day of the month and one of the
  week starts the job on either (`schedule/tree_darwin.go:23` and
  `schedule/handler_darwin.go:391-407` put both in one interval), systemd on both.
* `minutely` gives launchd no interval: the job is never started
  (`schedule/tree_darwin.go:23`).
* Windows: when `Next` finds nothing it returns the zero time, from which
  `GetAllInBetween` may never come back. A weekly or monthly schedule with several
  times of a day, created between two of them, loses the earlier ones. More than 60
  irregular times of a day give no trigger at all, without an error. A point in time
  whose seconds are open, a range or more than two numbers is not parsed again
  (`calendar/event.go:122`) and gives no trigger either, only a warning; two seconds
  are read as one with a fraction.

Configuration and flags:

* The uses of mixins of the profile `ab` are applied when `a` is prepared, as keys are
  matched by their beginning (`config/config.go:228-233`). When `ab` inherits from `a`
  they come before the inheritance (`config/config.go:586-622`): what a mixin appends,
  or what `ab` itself appends to a list that a mixin sets, then lacks the inherited list,
  which "can be modified (append/prepend) and replaced by a mixin"
  (`docs/content/configuration/inheritance/_index.md:303`). TLC finds
  `MixinsChangeInherited` violated in `Configuration`, by the profiles of `AlikeMixed`;
  `ProfileAsWritten` leaves the settings of such profiles out (`MixedEarly`).
* Two mixins used in keys one below the other are applied in the order of a Go map.
  `ProfileAsWritten` is checked for sets of files where that makes no difference.
* A profile that inherits from itself, directly or not, is an endless recursion
  (`config/config.go:586`); such files are left out.
* backup and retention are resolved in the order of a Go map. With a `host` outside
  the sections retention gets that one or the one of the machine
  (`config/profile.go:259`); `RetentionSelectsBackup` leaves this out.
* A `tag` of backup that is `true` has no text, which is joined to an empty tag
  (`config/profile.go:551`): backup and retention get `--tag` without a value, which
  restic has no use for. `RetentionSelectsBackup` leaves this out too.
* A flag of the profile outside the sections that is `true` (`host`, `tag`, `path`)
  or a relative path is never replaced by its value: `allFlagsSections` is about
  sections only (`config/profile.go:697`).
* An option that restic takes back after it was removed stays removed in the table
  (`ResticOptions`, `MergeOptions`). Flags of removed options are let through.
* `Args.Rename` keeps the last of several values only, and loses a flag without a
  value.
* Version 1: a profile with a shorter list of sources than its parent keeps the end
  of the parent's.

Jobs, where the properties of `Jobs` make an exception:

* systemd: the unit is a system unit when resticprofile is run as root, whatever the
  permission of the schedule (`schedule/handler_systemd.go:101`), while the status
  looks at the one of the permission (`StatusUnit`). The same profile as `home` and
  `Home` makes two units, since names keep the case they were typed in.
* launchd: an agent that is loaded stays what it was when its plist is replaced, until
  the next reboot (`Load`). A plist that cannot be written is removed, and
  `unschedule` then finds nothing to unload, though the agent runs on. After a change
  of `schedule-permission`, `unschedule` looks in the other directory.
* Windows: a task that was SYSTEM's and is scheduled again for `user_logged_on` keeps
  its account, as only `updateUserLoggedOnTask` does not set it
  (`schtasks/taskscheduler.go:241-269`); the documentation asks to unschedule before the
  permission changes (`docs/content/schedules/configuration/index.md:88`).
  `SuccessMeansScheduled` says nothing of the account of such a job.
* Windows: the parent of an elevated process ends well whatever became of the child,
  and waits for ever when the child is killed before it has said that it is done
  (`commands.go:624`).
* The condition for jobs that can only be removed never holds: `Accessible` of such a
  job has no permission to be denied (`schedule/job.go:30`).
* `status` without `--all` does not look for a group of that name
  (`commands.go:479`), as `schedule` and `unschedule` do.

## 4. Fairness

Safety needs none. Liveness assumes what the program's surroundings give it:

* `LockFile`: the operating system runs every process, and children end. A
  crash is never forced. `Acquire` and `Execute` are one weakly fair action per
  process, since a process is one thread of control.
* `ProfileRun`, `ResticRetry`: one thread of control that goes on while it can
  (`WF_vars(Next)`); commands end. Which outcome a step has is free.
* `CommandRun`: every goroutine goes on while it can; the child prints what it
  has to and ends when it has written it or was sent a signal, unless a full pipe
  holds it; the commands of sections end.
* `GroupRun`: the main goroutine and the one of the log writer go on while they
  can. Ticks need not do anything (the file may never be writable), the
  stdin-command need not end, and nothing forces a profile to succeed.
* `Jobs`: the process goes on while it can, and the process that waits is woken when the
  other is done; errors, kills, reboots and edits may happen and need not.
* `StreamSource`: the Go scheduler runs every goroutine that is not blocked;
  a process ends when it has no reason to wait any more (`CanEnd`): a
  stdin-command when its output is drained or it was interrupted, restic at the
  end of its input or when interrupted. The user never has to interrupt.

## 5. Proofs

`LockFileProofs`, for any number of runs, commands and sleeps:

* `TypeCorrect` (`TypeOK`), with any options.
* With `Forcing = {}`: `LockedOnDisk`, `Exclusion`, `OnlyTheOwner`, and
  `Refinement`, that `LockFile` implements `ExclusiveRun`. `MutualExclusion` is
  not inductive: nothing in it prevents a run that believes to hold the lock
  from having lost its file. `LockInv` adds that (`LockedRuns`: a run that
  believes to hold the lock is running its profile and has its file at the path,
  and a run that uses the lockfile and runs its profile believes to hold it),
  that nobody is inside `ForceAcquire` (`Quiet`) and that runs without a
  lockfile never contend (`Aloof`). With it, `Create` is only possible when no
  run holds the lock, and `Release` removes the owner's file.
* With force-inactive-lock these are false, as said above, which is why the
  assumption is there and not in the model. What is left is `SharedLock`
  (`SharedOnlyWhenStale`), for any runs, any of which may force their way: until some
  command of a run with the lockfile is over, the lock excludes, in every order of
  reading, looking up, removing and creating. The invariant `ForceInv` says that the
  runs and the disk are in order, nobody about to remove a file (`Orderly`), or else
  a command is over (`Shared`), which is for good (`OverForGood`). The step from one to
  the other is `CheckPID`: `Readings` says that what it looks up is a command that was
  started, and `Files` that a lockfile names no other.

`ProfileRunProofs`, of `ResticRetry`, for all waits, delays and durations: `RetryTypes`,
`RetryTime`, `RetrySleep`, `RetryUnlock`, `RetryRoom`, `RetrySleeps`. The key is
`TimeAccounted`, for any waits restic reports: since execution time and sleeps fit in the time elapsed, what
remains of the lock wait is never more than the wait less what was slept, so
that a sleep within it keeps `SleepBounded`. `RetryRoom` needs in addition that
`--retry-lock` was cut so that an interval and the least delay fit behind it
(`RetryLockBound`), which the accounting of a failed attempt keeps. `RetrySleeps`
(`SleepsMeasured`) adds that attempts are paid for. Its `AttemptsPaid` is not
inductive, as an attempt that has just failed has not been slept for; `PaidInv` counts
that one as `Unpaid` while it is being decided on.

`ResticRunProofs`, for any number of stdin-commands, hooks and interrupts, and any
order in which processes and goroutines go on:

* `StreamTypes` (`TypeOK`).
* `NoShortBackup` (`FailureReported`), with `Timely` or without. The stdin-commands run
  one after the other, each when those before it have succeeded, and the pipe is
  flushed after the last (`SourcesInTurn`); restic can only succeed when its reader has
  come to an end or an error, and an end means that all succeeded (`Complete`); both
  need that restic runs while the main goroutine waits for it (`ResticInTurn`).
* `InterruptsArrive` (`InterruptsMeet`), where `Timely` holds; without it `Read` may
  fail before its interrupt was passed on, and the property is false. The invariant
  says where the interrupt is that `Read` has sent: in `sigChan` while the goroutine of
  restic is there to receive it, or received (`InterruptHeld`); and, when the user has
  not interrupted, that no other is under way (`OneInterrupt`).

and for any files, manuals and arguments of the user:

* `FlagsAreKnown` (`OnlyKnownFlags`). The table is made manual after manual, by a
  recursive function (`TableExists`), and an induction over them says what its entries
  are (`Shows`): a command is there when a manual had it; its flags are all that a manual
  had, each since the first one that did (`EntryOf`), whether or not it is gone since.
  So the flags that are let through for a version are those of its manual and of the ones
  before (`ValidAsInManuals`). Another induction, over the arguments, has that the filter
  lets nothing else pass (`FilterKeepsValid`). The invariant of the process is short
  (`LineInv`): when restic has run, its command line was prepared from the profile that
  is open; no other step goes to that place, also not after mixins (`after`).
  The theorem has a hypothesis, `SourcesListed`: what a profile has to back up is a list
  when restic runs. It is what decoding gives the field of the profile; here a value is
  whatever the files say, and the proof does not follow it through the merges. In the
  run it holds, as the arguments of `backup` could not be put together otherwise.
  `CommandsAssumption` is needed: the flags of a command that restic has removed are
  not let through, though it was in the manual before.

`StatusFileProofs`, for any number of runs, sections, commands and times they are
started again: `StatusTypes`; `NoFalseSuccess`, for runs that overlap and meet any
error; and `StatusRefinement`, that `StatusFile` implements `StatusBoard`, for
runs that take turns and can read the file. `Truthful` speaks of the file, which is
written from the memory of a run, so `TruthInv` adds that all a run remembers is
genuine. The refinement needs to know what the file holds at each moment of a
command, which `TurnInv` says: only one run is between its load and its save
(`OneSaves`); the file is empty while a run is to write it (`Emptied`); no entry,
in the file or remembered, is newer than the latest one of its section (`Old`);
and what a run is about to write is what the reader is shown, with its own entry
replaced (`Ready`).

`ProfileRunProofs`, of `ProfileRun`, for any number of hooks in any stage, any failures and a panic
anywhere: `RunTypes`; `RightError`, that the run reports an error exactly when a
command it minds failed, and that its hooks are told of it; `RightHooks`, that failure
hooks and finally hooks run when they should; and `RightLock`, that nothing starts
without the lock. These properties speak of the end of a run, so the invariant says
what is known on the way there: until the run turns to its failure hooks there is no
error (`ErrorSoFar`) and none of the hooks that report has been told anything
(`NotYetTold`); a failure hook is at hand only when those before it are complete
(`FailureSoFar`), a stage on the way out only when the finally hooks before it are
(`FinallySoFar`); the lock is held in every stage (`LockSoFar`).

`GroupRunProofs`, for groups of any length and every kind of `base-dir`:

* `ExitCode` (`ExitTells`). The invariant `ExitSoFar` says that a failure that is not
  to be continued after is that of the last profile tried, and that the group is then
  on its way to the end.
* `OpenedAtHome` (`Directories`), for directories nested at most twice. `WhereNow`
  ties the working directory to the attempts left, which is why three attempts are
  enough for two levels and not for three; `DirectorySoFar` says that the directory to
  go back to is always the first.
* `NothingLost` (`LogKept`), for any size of the channel, when a flush takes as much
  at once as the channel holds (`Capacity <= DrainMax`; the program has 64 and 1024).
  Writes may stop anywhere and the file may never open. `Conserved` is inductive with
  the types of the sequences; for what is in the file at the end, `ErrorsLogged` says
  which failures have been logged, and `DrainedAtClose` that a log that was closed
  without a crash has an empty channel.

`JobsProofs`, for any configurations, requests and edits, and any number of commands
that are killed, fail or meet a reboot:

* `NoneDangles` (`NothingDangles`). What a step may do to the files of a unit depends on
  those before it in the same job, which `JobSoFar` records: the service is there when
  the timer is written, the timer when it is enabled, and a unit is neither active nor
  enabled when its files are removed.
* `ReadsBeforeItWrites` (`CollectsFirst`), `ScheduleSchedules`
  (`SuccessMeansScheduled`) and `UnscheduleRemoves` (`SuccessMeansRemoved`). The last
  two speak of the end of a command, when all jobs are done. `JobsInv` says on the way
  there what is to come (`Queue`) and what was achieved: every job of a profile that
  was got to is still waiting, at hand, or as was asked for (`SoFar`). That a job stays
  so while the others are done needs that no two jobs of a command have one place
  (`SameJob`, `OthersStay`), and that its own last step found what the earlier ones
  made (`AtHand`), whatever lay there before. `--all` takes the profiles in any order;
  that every order has the same profiles, which a list of all members of a finite set
  needs the pigeonhole principle for, is `Chosen`.
* For launchd `ScheduleSchedules` has a hypothesis, `SpelledOnce`: no group lists a
  profile under two spellings. Both would have the same agent
  (`schedule/handler_darwin.go:317`), with the command line of the one done last, so
  that the first is no longer as it should be. With systemd each spelling has a unit,
  and in a task of Windows the command line is not looked at. That a task is logged on
  as its permission says, with that account, is claimed of `user`, `system` and none;
  of `user_logged_on` only the log on, as its account may be left of before (section 3).

`CommandRunProofs`, for any output, sections, sizes of the pipes and any interrupts:
`CleanReturn` (`ReturnsClean`). It speaks of the moment `Run` returns, when both
pipes must be empty and the child have ended. `PipesRead` carries that there: a pipe
that was read to its end stays empty, because it ends only when the child has ended
and can write no more. `WhoRuns` says that the command of a section runs only while
`Run` waits for it, and `Returned` what the result says of the child.
`ExactRuns` (`RunsExact`) is about the counts of the analyser: each run was at a
multiple of `min-matches`, and the next multiple is not passed, nor reached but by a
match that is still to be acted on (`OnTime`). It needs that the least section of a
line exists (`Minimum`, from the well-foundedness of `<`), and three facts about
products and quotients (`Division`, `NextMultiple`, `Times`).

`CrontabProofs`, for any processes, profiles, sections, numbers of schedules, lines of
the user and deleted markers. What is needed besides is a hypothesis of each theorem:

* `CrontabTypes` (`TypeOK`), with turns or without.
* With `TakeTurns`: `UserLinesKept` (`ForeignKept`). `TurnsInv` has what makes turns
  safe, that one process at a time has jobs and that what it has loaded is still the
  crontab (`Turns`); `Update` then keeps what is not an entry, wherever the markers
  are (`UpdateForeign`).
* With `NoRetention`, that no profile has a schedule for its retention section:
  `ScheduledOnce` (`NoDuplicates`) and `UnscheduleRemoves` (`Unscheduled`), until a
  marker is deleted. `deleteLine` sees the lines between the markers only, so both need
  that all entries are there and that the markers it finds are the first of their kind
  and in order (`Tidy`), which `Update` keeps with the section it found and with the one
  it makes (`UpdateTidy`), and a line of the user, wherever it is put (`AddHas`).
* If also no name of a profile begins another (`Beginnings = {}`): `CrontabStaysKept`
  (`CrontabKept`). `NothingLost` does not need the markers: an entry that is not matched
  is kept wherever it is (`UpdateHas`), and one of another job is not matched.
* That `Kept` does what it should is an induction on the number of lines. `Induction`
  has a set for the formula, and is proved from `Minimum`; `SeqInduction` is the one for
  sequences. From it come that `Kept` of a concatenation is one of what is kept
  (`KeptConcat`), and that it neither makes up lines nor loses any (`KeptLines`).
* The hypotheses are needed: section 3 has what happens without each. `Tidy`, `Turns` and
  `ScheduledDeclarable` were checked with TLC on the instance of `CronTurns` and on one
  with two processes before they were proved.

`CrontabProofs`, of `ScheduleTimes`, for any calendar, any lengths of weeks, days and
hours, and any texts of schedules:

* `CrondStartsOnTime` (`CrondOnTime`) and `LaunchdStartsOnTime` (`LaunchdOnTime`). The
  invariant is small (`TimesInv`: the event is that of the text, what was given is made
  of the event); the proof is in what the functions compute. In between is `Happens`,
  which says of an event when it happens. `FieldLists` and `DayLists` relate the units
  of a text to the values they are parsed into, with both Sundays; `PartsHappen` puts
  the fields together; `KeywordAlike` does the keywords. `FormatHolds` has that the
  ranges in a crontab field are the values again: each value has a first and a last
  neighbour (`RunBegin`, `RunEnd`). `CronHappens` and `LaunchdHappens` go from the
  definition to the event; for the tree of intervals `TreeOf` says what holds after each
  level, and `GrowOne` is the step. An interval starts the job when its other keys match
  and either day does (`Restricted`, `AllMatch`), so the theorem leaves out texts with
  both days, like the one on crond.
* `ShownAsParsed` (`NormalForm`). What is shown is in ascending order (`AscendingOrder`:
  units that begin with different numbers have different ranks, which are all the
  numbers below their count), so that only the first number of the days of the week can
  be read as the first Sunday (`DaysShown`). All is within the bounds (`EventWhole`),
  so it is parsed (`PartsAreEvent`).
* `WindowsStartsOnTime` (`WindowsOnTime`). `WindowsInv` adds what the triggers were made
  of (`TaskOf`). What `Next` finds is what the text says (`MatchSays`), and the first
  (`NextFound`; that years follow each other, `Years`, bounds the search); that the
  search for the times of a day ended means that the whole day is in the calendar
  (`WholeDay`). An event without a date then happens when one of the times of the first
  day comes again (`DailyAgain`), by arithmetic of rests (`SameRest`, `FirstDay`). Times
  with one difference are the multiples of it (`Regularly`), so that the repetition of a
  trigger meets them all and nothing else, and the one that adds the minute after the
  last is at the first time of the next day (`DailyStarts`). Days of the week and of the
  month have their bits (`WeekBits`, `DateBits`), and an event with one time of the day
  has one trigger (`OnceADay`, `WeeklyStarts`, `MonthlyStarts`). A date is that of one
  minute (`OneMinute`, `OnceStarts`). An event that `AsTime` cannot parse, for its
  seconds among others, is no point in time (`ParsableSecond`).

Assumptions are those the modules name (`RunAssumption`, `BoundAssumption`,
`DurationAssumption`, `OptionAssumption`, `SizesAssumption`, `GroupAssumption`,
`LogAssumption`, `RequestAssumption`, `CommandAssumption`, `StreamAssumption`,
`SystemAssumption`, `ConfigAssumption`, `CrontabAssumption`, `CalendarAssumption`,
`TextAssumption`, `TimesAssumption`, `TriggerAssumption`, `ManualsAssumption`,
`CommandsAssumption`, `WorldAssumption`); TLC them in every run of the module.
`ConfigAssumption` says that a configuration has finitely many profiles, found under
their own names, and that a group is a list of names; `CrontabAssumption`, that markers,
the empty line, entries and lines of the user can be told from each other;
`CalendarAssumption`, that there is a day, that the days have a year, a month and a
number, that no two are the same, that the next day is of the same or the next year, that
the outcome of a text that cannot be parsed is no event, and the zero time no minute;
`TimesAssumption`, that schedules are created within the calendar; `TriggerAssumption`,
that a task may have a trigger;
`TextAssumption`, that texts are made of numbers and ranges where the patterns of
`event_parse.go` have them; `ManualsAssumption` and `WorldAssumption`, that there are
finitely many manuals and arguments, and that the version of restic has a manual;
`CommandsAssumption`, that restic has lost none of the commands that are run
(`restic/commands.json` has one that it lost, `rebuild-index`).

Only model-checked: everything about liveness (the prover has no proof rules for
fairness here), in `LockForce`, `RetryLocks`, `StreamEnds`, `CommandEnds`, `GroupEnds`
and `Jobs`; and of `Configuration` all but the known flags:
`ProfileAsWritten`, `RetentionSelectsBackup` and `CopyGoesOneWay` are about trees and
lists merged with `FoldLeft`, whose operator parameter the provers cannot instantiate.
The provers cannot use the library's induction theorems either; an induction over a
set, like those of `CrontabProofs` and `ResticRunProofs`, reaches recursive functions.
Of `Crontab`, `NothingLeft` is neither checked nor proved: the code does not
keep it (section 3).

## 6. What is not modelled

* Text: quoting for a shell, templates but for the name of the profile, display,
  completion, the schema, manual pages.
* Downloads, self-update, metrics: I/O without a state of their own.
* `Configuration`: globs, the environment and the home directory in paths, secrets,
  aliases of flags, empty sections, groups and global settings, the environment that a
  schedule keeps, and the several ways to write a use of a mixin. The maps of viper are
  values here, where the code shares parts of them that it does not read again.
* `Jobs`: the relay of log lines from an elevated child, passwords, drop-in files,
  priority. The other schedulers are what resticprofile's calls expect of them: external.
* In what is modelled: dry-run prints instead of running; the same user is
  assumed to run all processes; PIDs that the system gives out again appear as
  a lookup that says "running" (`IOErrors`); Windows differs in signals and has
  no interrupt from `Read`.
* `StreamSource` has one attempt of restic. Without `Timely` the property
  `SourceStopped` fails: the goroutine of the first stdin-command, delayed for
  its whole life, may take the interrupt meant for the second. A stdin-command
  that starts after the pipe is closed is not sent an interrupt either; it ends
  when it writes.

## 7. Plan

In order of weight; what is done is above.

1. A proof of `CopyGoesOneWay` of `Configuration`, which needs that the files leave
   the settings of a profile in the shape the decoder has them.
2. The relay of `remote/`: log lines of the elevated child while the parent stops.
3. `Metrics` and `HTTP hooks`: their files and requests, composed with the status.
4. Groups and global settings in `Configuration`, with `GroupRun`.
