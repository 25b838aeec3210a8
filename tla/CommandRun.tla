----------------------------- MODULE CommandRun -----------------------------
(***************************************************************************)
(* One shell command with its output: Run of shell/command.go, which scans *)
(* what the process prints, and then what it prints as errors, line by     *)
(* line; the analyser that counts the lines matching a pattern of          *)
(* stream-error and runs its command every so often (shell/analyser.go,    *)
(* shell_command.go); and the signals for both.                            *)
(*                                                                         *)
(* Lines are what the code can tell of them: on stdout a summary or any    *)
(* other text, on stderr the patterns they match, on both whether they are *)
(* longer than a bufio.Scanner takes.  A pipe holds PipeSize lines, those  *)
(* the scanner has read ahead included.                                    *)
(*                                                                         *)
(* Definitions whose comment begins with "If" are deviations: what a       *)
(* plausible slip would make of the definition they precede.               *)
(***************************************************************************)
EXTENDS Naturals, Sequences, FiniteSets

CONSTANTS
  Patterns,       \* how many sections stream-error has
  MinMatches,     \* min-matches of each
  MaxRuns,        \* max-runs of each, 0 for no limit
  PipeSize,       \* how much a pipe holds
  MaxOut,         \* bound: lines a process prints
  MaxErr,         \* bound: lines a process prints as errors
  LongLines,      \* whether a line may be longer than a scanner takes
  Timely,         \* whether a goroutine finds a section's command done before
                  \* it takes another signal
  MaxInterrupts   \* how often the user interrupts resticprofile

Pattern == 1 .. Patterns

ASSUME CommandAssumption ==
  /\ Patterns \in Nat
  /\ MinMatches \in [Pattern -> Nat]
  /\ MaxRuns \in [Pattern -> Nat]
  /\ PipeSize \in Nat \ {0}
  /\ MaxOut \in Nat /\ MaxErr \in Nat /\ MaxInterrupts \in Nat
  /\ LongLines \in BOOLEAN /\ Timely \in BOOLEAN

Long == {b \in BOOLEAN : b => LongLines}
OutLine == [stream : {"out"}, long : Long]
ErrLine == [stream : {"err"}, matches : SUBSET Pattern, long : Long]
Nothing == [stream |-> "none"]

\* The processes: the command's own, and that of a stream-error section.
Process == {"child", "callback"}

VARIABLES
  scanning,       \* whether ScanStdout is set
  piped,          \* whether Stderr is set
  main,           \* what the goroutine in Run does
  process,        \* state of the processes
  writing,        \* the line the child is about to write
  out, errs,      \* the pipes
  printed,        \* lines written so far, of each stream
  line,           \* patterns the line being analysed matches, still to handle
  counts,         \* how many lines matched
  invoked,        \* how often the command of a section was run
  lastInvocation, \* the count when it was last run
  scanErr,        \* error of ScanStdout
  readErr,        \* error of AnalyseLines
  err,            \* error Run returned
  watcher,        \* propagateSignal, for each process
  hit,            \* the processes that were sent a signal
  sigChan,        \* number of signals in the channel
  interrupts      \* how often the user interrupted

pipes == <<writing, out, errs, printed>>
analysis == <<line, counts, invoked, lastInvocation>>
results == <<scanErr, readErr, err>>
signals == <<watcher, hit, sigChan, interrupts>>
vars == <<scanning, piped, main, process, pipes, analysis, results, signals>>

Init ==
  /\ scanning \in BOOLEAN /\ piped \in BOOLEAN
  /\ main = "start"
  /\ process = [p \in Process |-> "none"]
  /\ writing = Nothing
  /\ out = <<>> /\ errs = <<>>
  /\ printed = [s \in {"out", "err"} |-> 0]
  /\ line = {}
  /\ counts = [p \in Pattern |-> 0]
  /\ invoked = [p \in Pattern |-> 0]
  /\ lastInvocation = [p \in Pattern |-> 0]
  /\ scanErr = FALSE /\ readErr = FALSE /\ err = FALSE
  /\ watcher = [p \in Process |-> "none"]
  /\ hit = {}
  /\ sigChan = 0
  /\ interrupts = 0

Ended(p) == process[p] \in {"ok", "failed"}

-----------------------------------------------------------------------------
(* The child                                                               *)

\* What the child prints on stdout goes to the pipe only when it is scanned.
WriteLine ==
  /\ process["child"] = "alive"
  /\ writing = Nothing
  /\ \/ scanning /\ printed["out"] < MaxOut /\ writing' \in OutLine
     \/ piped /\ printed["err"] < MaxErr /\ writing' \in ErrLine
  /\ printed' = [printed EXCEPT ![writing'.stream] = @ + 1]
  /\ UNCHANGED <<scanning, piped, main, process, out, errs, analysis, results, signals>>

\* A process that writes to a full pipe waits.
LineWritten ==
  /\ process["child"] = "alive"
  /\ \/ /\ writing.stream = "out" /\ Len(out) < PipeSize
        /\ out' = Append(out, writing)
        /\ UNCHANGED errs
     \/ /\ writing.stream = "err" /\ Len(errs) < PipeSize
        /\ errs' = Append(errs, writing)
        /\ UNCHANGED out
  /\ writing' = Nothing
  /\ UNCHANGED <<scanning, piped, main, process, printed, analysis, results, signals>>

\* A process ends when it has written all, or at a signal.
ProcessEnds(p) ==
  /\ process[p] = "alive"
  /\ p = "child" => writing = Nothing \/ "child" \in hit
  /\ \E outcome \in {"ok", "failed"} : process' = [process EXCEPT ![p] = outcome]
  /\ UNCHANGED <<scanning, piped, main, pipes, analysis, results, signals>>

-----------------------------------------------------------------------------
(* Signals                                                                 *)

SigChanSize == 1

\* A signal the channel has no room for is dropped.
Interrupt ==
  /\ interrupts < MaxInterrupts
  /\ main # "done"
  /\ interrupts' = interrupts + 1
  /\ sigChan' = IF sigChan < SigChanSize THEN sigChan + 1 ELSE sigChan
  /\ UNCHANGED <<scanning, piped, main, process, pipes, analysis, results, watcher, hit>>

\* propagateSignal receives the signal: of two goroutines, either may.
PassOn(p) ==
  /\ watcher[p] = "select"
  /\ sigChan > 0
  /\ sigChan' = sigChan - 1
  /\ hit' = IF process[p] = "alive" THEN hit \cup {p} ELSE hit
  /\ watcher' = [watcher EXCEPT ![p] = "gone"]
  /\ UNCHANGED <<scanning, piped, main, process, pipes, analysis, results, interrupts>>

\* The channel done is closed when Run returns.
LeaveOnDone ==
  /\ watcher["child"] = "select"
  /\ main = "done"
  /\ watcher' = [watcher EXCEPT !["child"] = "gone"]
  /\ UNCHANGED <<scanning, piped, main, process, pipes, analysis, results,
                 hit, sigChan, interrupts>>

-----------------------------------------------------------------------------
(* Run                                                                     *)

\* There is no shell, or the pipes or the process cannot be made.
StartFails ==
  /\ main = "start"
  /\ main' = "done"
  /\ err' = TRUE
  /\ UNCHANGED <<scanning, piped, process, pipes, analysis, signals, scanErr, readErr>>

AfterStdout == IF piped THEN "stderr" ELSE "wait"

\* If the goroutine for signals began with the reading of stderr.
StartDeaf ==
  /\ main = "start"
  /\ process' = [process EXCEPT !["child"] = "alive"]
  /\ main' = IF scanning THEN "stdout" ELSE AfterStdout
  /\ UNCHANGED <<scanning, piped, pipes, analysis, results, signals>>

Start ==
  /\ main = "start"
  /\ process' = [process EXCEPT !["child"] = "alive"]
  /\ watcher' = [watcher EXCEPT !["child"] = "select"]
  /\ main' = IF scanning THEN "stdout" ELSE AfterStdout
  /\ UNCHANGED <<scanning, piped, pipes, analysis, results, hit, sigChan, interrupts>>

\* The scanner finds the end of a pipe.
AtEnd(pipe) == Ended("child") /\ pipe = <<>>

ScanStdout ==
  /\ main = "stdout"
  /\ out # <<>> /\ ~Head(out).long
  /\ out' = Tail(out)
  /\ UNCHANGED <<scanning, piped, main, process, writing, errs, printed, analysis, signals,
                 scanErr, readErr, err>>

\* An error of the scanner is returned at once.
ScanStdoutFails ==
  /\ main = "stdout"
  /\ out # <<>> /\ Head(out).long
  /\ out' = Tail(out)
  /\ scanErr' = TRUE
  /\ err' = TRUE
  /\ main' = "done"
  /\ UNCHANGED <<scanning, piped, process, writing, errs, printed, analysis, signals, readErr>>

ScanStdoutEnds ==
  /\ main = "stdout"
  /\ AtEnd(out)
  /\ main' = AfterStdout
  /\ UNCHANGED <<scanning, piped, process, pipes, analysis, results, signals>>

\* If an error of the scanner of stderr were returned at once, too.
AfterReadErrorReturn == "done"

\* An error of the scanner of stderr is logged.
AfterReadError == "wait"

\* AnalyseLines reads a line, once the one before is done with.
ReadStderr ==
  /\ main = "stderr"
  /\ line = {}
  /\ errs # <<>>
  /\ errs' = Tail(errs)
  /\ IF Head(errs).long
     THEN readErr' = TRUE /\ main' = AfterReadError /\ UNCHANGED <<line, counts>>
     ELSE /\ line' = Head(errs).matches
          /\ counts' = [p \in Pattern |-> IF p \in Head(errs).matches
                                          THEN counts[p] + 1 ELSE counts[p]]
          /\ UNCHANGED <<readErr, main>>
  /\ UNCHANGED <<scanning, piped, process, writing, out, printed, signals,
                 invoked, lastInvocation, scanErr, err>>

\* If the distance were counted from the first match.
DueSinceStart(p) ==
  /\ counts[p] >= MinMatches[p]
  /\ invoked[p] < MaxRuns[p] \/ MaxRuns[p] = 0

\* invokeCallback: enough matches since the last run, and runs left.
Due(p) ==
  /\ counts[p] >= MinMatches[p] + lastInvocation[p]
  /\ invoked[p] < MaxRuns[p] \/ MaxRuns[p] = 0

\* The sections in their order.
NextSection == CHOOSE p \in line : \A q \in line : p <= q

Skip ==
  /\ main = "stderr"
  /\ line # {}
  /\ ~Due(NextSection)
  /\ line' = line \ {NextSection}
  /\ UNCHANGED <<scanning, piped, main, process, pipes, results, signals,
                 counts, invoked, lastInvocation>>

\* The command of a section is run as any other, with the same sigChan; in the
\* meantime nobody reads what the child writes.
Invoke ==
  /\ main = "stderr"
  /\ line # {}
  /\ Due(NextSection)
  /\ lastInvocation' = [lastInvocation EXCEPT ![NextSection] = counts[NextSection]]
  /\ invoked' = [invoked EXCEPT ![NextSection] = @ + 1]
  /\ \/ /\ main' = "callback"
        /\ process' = [process EXCEPT !["callback"] = "alive"]
        /\ watcher' = [watcher EXCEPT !["callback"] = "select"]
        /\ hit' = hit \ {"callback"}
        /\ UNCHANGED line
     \/ /\ line' = line \ {NextSection}   \* the command cannot be started
        /\ UNCHANGED <<main, process, watcher, hit>>
  /\ UNCHANGED <<scanning, piped, pipes, results, counts, sigChan, interrupts>>

\* If an error of the callback ended the analysis and the reading with it.
CallbackEndsReading ==
  /\ main = "callback"
  /\ Ended("callback")
  /\ line' = line \ {NextSection}
  /\ main' = IF process["callback"] = "failed" THEN "wait" ELSE "stderr"
  /\ UNCHANGED <<scanning, piped, process, pipes, results, signals,
                 counts, invoked, lastInvocation>>

\* An error of the callback is logged (stopOnError is never set).  Its goroutine
\* for signals finds it done, or takes one more signal, which is lost.
CallbackEnds ==
  /\ main = "callback"
  /\ Ended("callback")
  /\ line' = line \ {NextSection}
  /\ main' = "stderr"
  /\ watcher' = [watcher EXCEPT !["callback"] = "gone"]
  /\ sigChan' \in IF Timely \/ watcher["callback"] = "gone" THEN {sigChan} ELSE {sigChan, 0}
  /\ UNCHANGED <<scanning, piped, process, pipes, results, hit, interrupts,
                 counts, invoked, lastInvocation>>

StderrEnds ==
  /\ main = "stderr"
  /\ line = {}
  /\ AtEnd(errs)
  /\ main' = "wait"
  /\ UNCHANGED <<scanning, piped, process, pipes, analysis, results, signals>>

\* If the error of the process were only looked at when reading went well.
WaitedUnlessRead ==
  /\ main = "wait"
  /\ Ended("child")
  /\ err' = (process["child"] = "failed" /\ ~readErr)
  /\ main' = "done"
  /\ UNCHANGED <<scanning, piped, process, pipes, analysis, signals, scanErr, readErr>>

\* cmd.Wait: its error, or else that of reading stderr.
Waited ==
  /\ main = "wait"
  /\ Ended("child")
  /\ err' = (process["child"] = "failed" \/ readErr)
  /\ main' = "done"
  /\ UNCHANGED <<scanning, piped, process, pipes, analysis, signals, scanErr, readErr>>

-----------------------------------------------------------------------------
Child == WriteLine \/ LineWritten \/ ProcessEnds("child")
Main ==
  \/ StartFails \/ Start
  \/ ScanStdout \/ ScanStdoutFails \/ ScanStdoutEnds
  \/ ReadStderr \/ Skip \/ Invoke \/ CallbackEnds \/ StderrEnds \/ Waited
Watcher(p) == PassOn(p) \/ (p = "child" /\ LeaveOnDone)

Next ==
  \/ Child \/ ProcessEnds("callback") \/ Main \/ Interrupt
  \/ \E p \in Process : Watcher(p)

Spec == Init /\ [][Next]_vars

\* The scheduler runs every goroutine that can go on; processes go on too, and
\* end if nothing holds them.
Fairness ==
  /\ WF_vars(Main) /\ WF_vars(Child) /\ WF_vars(ProcessEnds("callback"))
  /\ \A p \in Process : WF_vars(Watcher(p))

FairSpec == Spec /\ Fairness

-----------------------------------------------------------------------------
TypeOK ==
  /\ scanning \in BOOLEAN /\ piped \in BOOLEAN
  /\ main \in {"start", "stdout", "stderr", "callback", "wait", "done"}
  /\ process \in [Process -> {"none", "alive", "ok", "failed"}]
  /\ writing \in OutLine \cup ErrLine \cup {Nothing}
  /\ out \in Seq(OutLine) /\ Len(out) <= PipeSize
  /\ errs \in Seq(ErrLine) /\ Len(errs) <= PipeSize
  /\ printed \in [{"out", "err"} -> Nat]
  /\ line \subseteq Pattern
  /\ counts \in [Pattern -> Nat]
  /\ invoked \in [Pattern -> Nat]
  /\ lastInvocation \in [Pattern -> Nat]
  /\ scanErr \in BOOLEAN /\ readErr \in BOOLEAN /\ err \in BOOLEAN
  /\ watcher \in [Process -> {"none", "select", "gone"}]
  /\ hit \subseteq Process
  /\ sigChan \in 0 .. 1
  /\ interrupts \in 0 .. MaxInterrupts

\* A command is reported as a success only when its process succeeded and all
\* it wrote was read; and as a failure only when it failed, or was not read.
ErrorFaithful ==
  main = "done" /\ process["child"] # "none" =>
    /\ ~err => process["child"] = "ok" /\ out = <<>> /\ errs = <<>>
    /\ err => process["child"] = "failed" \/ scanErr \/ readErr

\* "max-runs: maximum number of times that run is started ... min-matches:
\* minimum number of times that pattern must match before starting run"
\* (docs/content/configuration/run_hooks/index.md:278), "RequiresMinCountForEachCall"
\* (shell/analyser_test.go:61): between two lines, each section was run exactly
\* once for every min-matches lines that match, up to max-runs.
RunsExact ==
  main # "callback" /\ line = {} =>
    \A p \in Pattern :
      LET times == counts[p] \div (IF MinMatches[p] = 0 THEN 1 ELSE MinMatches[p])
      IN invoked[p] = IF MaxRuns[p] > 0 /\ times > MaxRuns[p] THEN MaxRuns[p] ELSE times

\* Run returns when its process has ended, and never leaves the process of a
\* section behind: but for an error of the scanner of stdout.
NobodyLeft ==
  main = "done" => process["callback"] # "alive" /\ (process["child"] # "alive" \/ scanErr)

\* The child waits for ever to write an error: stdout is read before stderr, and
\* neither is read after a line that is too long.
Stalled ==
  /\ process["child"] = "alive"
  /\ \/ main = "stdout" /\ writing.stream = "err" /\ Len(errs) = PipeSize
     \/ main = "wait" /\ readErr

\* The run of a command comes to its end, whatever it prints and whatever the
\* commands of its sections do, but for a child that waits to write an error.
RunReturns == <>[](main = "done" \/ Stalled)

\* "run: the command to run when pattern is found in stderr"
\* (docs/content/configuration/run_hooks/index.md:277): what is written to stderr
\* is looked at.
StderrIsRead == errs # <<>> ~> errs = <<>> \/ main = "done"

\* An interrupt while the child runs reaches it, or the process of a section
\* that runs at the time, unless Run returns before.
InterruptPassed ==
  sigChan > 0 /\ process["child"] = "alive" /\ interrupts = 1
    ~> hit # {} \/ Ended("child") \/ main = "done"

\* What Run returns with: the right error, and no process left behind.
ReturnsClean == ErrorFaithful /\ NobodyLeft

\* Output and interrupts are passed on for as long as it takes.
RunResponds == RunReturns /\ InterruptPassed
=============================================================================
