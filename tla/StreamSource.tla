---------------------------- MODULE StreamSource ----------------------------
(***************************************************************************)
(* A backup of what stdin-command writes (wrapper_streamsource.go), and    *)
(* the commands that follow it: one goroutine runs the stdin-commands into *)
(* a pipe, the main one runs restic and then the hooks, another feeds the  *)
(* pipe to restic; each command has one that waits for a signal to pass    *)
(* on, or for the command to be done (shell/command.go).                   *)
(*                                                                         *)
(* Commands are numbered: the stdin-commands, restic, the hooks.  What is  *)
(* written is left out but for the end of it.  One attempt of restic, on   *)
(* a system other than Windows.                                            *)
(*                                                                         *)
(* Definitions whose comment begins with "If" are deviations: what a       *)
(* plausible slip would make of the definition they precede.               *)
(***************************************************************************)
EXTENDS Naturals, Sequences

CONSTANTS
  Sources,        \* how many stdin-commands
  Hooks,          \* how many commands follow restic
  Timely,         \* whether a goroutine gets to wait for a signal before its
                  \* command ends, and passes it on within the 750 ms of Read
  MaxInterrupts   \* how often the user interrupts resticprofile

ASSUME StreamAssumption ==
  /\ Sources \in Nat \ {0}
  /\ Hooks \in Nat
  /\ Timely \in BOOLEAN
  /\ MaxInterrupts \in Nat

Source == 1 .. Sources
Restic == Sources + 1
Hook == Restic + 1 .. Restic + Hooks
Command == 1 .. Restic + Hooks

\* Who sends an interrupt: the user, the source's Close, Read on an error.
Sender == {"user", "close", "read"}

VARIABLES
  main,            \* what the main goroutine does
  current,         \* the stdin-command to run or running
  hook,            \* the hook to run or running
  child,           \* the process of a command
  returned,        \* the commands whose Run has returned (done is closed)
  watcher,         \* propagateSignal of a command
  hit,             \* senders of the interrupts a process was sent
  sigChan,         \* resticWrapper.sigChan
  commandSignals,  \* the channel of the stdin-commands
  notified,        \* whether OS signals go to commandSignals
  producer,        \* the goroutine that runs the stdin-commands
  pipe,            \* the pipe from the stdin-commands
  reader,          \* the goroutine that feeds restic
  closed,          \* readerWrapper.close is nil
  closer,          \* who holds closeLock
  err,             \* runCommand returned an error
  interrupts       \* interrupts by the user so far

streams == <<pipe, reader, closed, closer>>
runs == <<main, current, hook, child, returned, producer, err>>
signals == <<watcher, hit, sigChan, commandSignals, notified, interrupts>>
vars == <<streams, runs, signals>>

Init ==
  /\ main = "source"
  /\ current = 1
  /\ hook = Restic + 1
  /\ child = [c \in Command |-> "none"]
  /\ returned = {}
  /\ watcher = [c \in Command |-> "none"]
  /\ hit = [c \in Command |-> {}]
  /\ sigChan = <<>>
  /\ commandSignals = <<>>
  /\ notified = TRUE
  /\ producer = "start"
  /\ pipe = "open"
  /\ reader = "none"
  /\ closed = FALSE
  /\ closer = "none"
  /\ err = FALSE
  /\ interrupts = 0

Ended(c) == child[c] \in {"ok", "failed"}

\* If there were room for one signal only.
CommandSignalsSizeOne == 1

CommandSignalsSize == 2

SigChanSize == 1

\* The package os/signal drops a signal that a channel has no room for.
Offer(channel, size, sender) ==
  IF Len(channel) < size THEN Append(channel, sender) ELSE channel

-----------------------------------------------------------------------------
(* Processes and signals                                                   *)

\* cmd.Start, and the goroutine for the signal.
Launch(c) ==
  /\ child' = [child EXCEPT ![c] = "alive"]
  /\ watcher' = [watcher EXCEPT ![c] = "select"]

\* A process ends, restic with success only at the end of its input.
ChildEnds(c) ==
  /\ child[c] = "alive"
  /\ \E outcome \in {"ok", "failed"} :
       /\ (c = Restic /\ outcome = "ok") => reader \in {"ended", "failed"}
       /\ child' = [child EXCEPT ![c] = outcome]
  /\ UNCHANGED <<streams, signals, main, current, hook, returned, producer, err>>

Interrupt ==
  /\ interrupts < MaxInterrupts
  /\ main # "done"
  /\ interrupts' = interrupts + 1
  /\ sigChan' = Offer(sigChan, SigChanSize, "user")
  /\ commandSignals' = IF notified THEN Offer(commandSignals, CommandSignalsSize, "user")
                       ELSE commandSignals
  /\ UNCHANGED <<streams, runs, watcher, hit, notified>>

HitBy(c, sender) ==
  hit' = [hit EXCEPT ![c] = IF child[c] = "alive" THEN @ \cup {sender} ELSE @]

\* propagateSignal receives a signal, for a process that may have ended; then
\* it closes stdin, if it can be closed, which only restic's can.  When done is
\* closed already, only a goroutine that was not at its select yet may still
\* choose the signal.
PassOn(c) ==
  /\ watcher[c] = "select"
  /\ Timely => c \notin returned
  /\ IF c \in Source
     THEN /\ commandSignals # <<>>
          /\ HitBy(c, Head(commandSignals))
          /\ commandSignals' = Tail(commandSignals)
          /\ UNCHANGED sigChan
     ELSE /\ sigChan # <<>>
          /\ HitBy(c, Head(sigChan))
          /\ sigChan' = Tail(sigChan)
          /\ UNCHANGED commandSignals
  /\ watcher' = [watcher EXCEPT ![c] = IF c = Restic THEN "close" ELSE "gone"]
  /\ UNCHANGED <<streams, runs, notified, interrupts>>

\* Or it finds the command done.
LeaveOnDone(c) ==
  /\ watcher[c] = "select"
  /\ c \in returned
  /\ watcher' = [watcher EXCEPT ![c] = "gone"]
  /\ UNCHANGED <<streams, runs, hit, sigChan, commandSignals, notified, interrupts>>

-----------------------------------------------------------------------------
(* The goroutine of prepareCommandStreamSource                             *)

SourceStart ==
  /\ producer = "start"
  /\ Launch(current)
  /\ producer' = "wait"
  /\ UNCHANGED <<streams, main, current, hook, returned, err,
                 hit, sigChan, commandSignals, notified, interrupts>>

SourceSucceeds ==
  /\ producer = "wait"
  /\ child[current] = "ok"
  /\ returned' = returned \cup {current}
  /\ IF current < Sources
     THEN current' = current + 1 /\ producer' = "start" /\ UNCHANGED notified
     ELSE producer' = "flush" /\ notified' = FALSE /\ UNCHANGED current
  /\ UNCHANGED <<streams, main, hook, child, err,
                 watcher, hit, sigChan, commandSignals, interrupts>>

\* The pipe to restic has a reader, or does not need one.
Drained == main = "source" \/ reader = "reading" \/ pipe = "closed"

\* The deferred Flush, and Close.
Flush ==
  /\ producer = "flush"
  /\ Drained
  /\ pipe' = IF pipe = "open" THEN "eof" ELSE pipe
  /\ producer' = "ended"
  /\ UNCHANGED <<reader, closed, closer, main, current, hook, child, returned,
                 err, signals>>

\* If the error of a stdin-command only ended the goroutine.
SourceFailsQuietly ==
  /\ producer = "wait"
  /\ child[current] = "failed"
  /\ returned' = returned \cup {current}
  /\ pipe' = IF pipe = "open" THEN "eof" ELSE pipe
  /\ notified' = FALSE
  /\ producer' = "ended"
  /\ UNCHANGED <<reader, closed, closer, main, current, hook, child, err,
                 watcher, hit, sigChan, commandSignals, interrupts>>

\* The error of a stdin-command goes to the reader: CloseWithError.
SourceFails ==
  /\ producer = "wait"
  /\ child[current] = "failed"
  /\ returned' = returned \cup {current}
  /\ pipe' = IF pipe = "open" THEN "error" ELSE pipe
  /\ notified' = FALSE
  /\ producer' = "ended"
  /\ UNCHANGED <<reader, closed, closer, main, current, hook, child, err,
                 watcher, hit, sigChan, commandSignals, interrupts>>

-----------------------------------------------------------------------------
(* The goroutine that feeds restic, through readerWrapper.read             *)

ReadEOF ==
  /\ reader = "reading"
  /\ pipe = "eof"
  /\ reader' = "ended"
  /\ UNCHANGED <<pipe, closed, closer, runs, signals>>

\* What is read cannot be written to a restic that has ended.
ReadInVain ==
  /\ reader = "reading"
  /\ pipe = "open"
  /\ producer \in {"wait", "flush"}
  /\ Ended(Restic)
  /\ reader' = "ended"
  /\ UNCHANGED <<pipe, closed, closer, runs, signals>>

\* If an error of the source were returned at once, as on Windows.
ReadErrorQuietly ==
  /\ reader = "reading"
  /\ pipe \in {"error", "closed"}
  /\ reader' = "failed"
  /\ UNCHANGED <<pipe, closed, closer, runs, signals>>

ReadError ==
  /\ reader = "reading"
  /\ pipe \in {"error", "closed"}
  /\ reader' = "sending"
  /\ UNCHANGED <<pipe, closed, closer, runs, signals>>

\* r.sigChan <- os.Interrupt, for restic; blocks as long as the channel is full.
Send ==
  /\ reader = "sending"
  /\ Len(sigChan) < SigChanSize
  /\ sigChan' = Append(sigChan, "read")
  /\ reader' = "sleeping"
  /\ UNCHANGED <<pipe, closed, closer, runs, watcher, hit, commandSignals,
                 notified, interrupts>>

\* If Read did not sleep.
SleptNot ==
  /\ reader = "sleeping"
  /\ reader' = "failed"
  /\ UNCHANGED <<pipe, closed, closer, runs, signals>>

\* After the sleep restic's input ends, with an error for cmd.Wait.
Slept ==
  /\ reader = "sleeping"
  /\ Timely => sigChan = <<>> \/ watcher[Restic] # "select"
  /\ reader' = "failed"
  /\ UNCHANGED <<pipe, closed, closer, runs, signals>>

-----------------------------------------------------------------------------
(* The main goroutine                                                      *)

\* The first read shows whether the stdin-command started: data, the end, or
\* an error.
ResticStart ==
  /\ main = "source"
  /\ pipe = "eof" \/ (pipe = "open" /\ producer \in {"wait", "flush"})
  /\ Launch(Restic)
  /\ reader' = "reading"
  /\ main' = "restic"
  /\ UNCHANGED <<pipe, closed, closer, current, hook, returned, producer, err,
                 hit, sigChan, commandSignals, notified, interrupts>>

SourceRefused ==
  /\ main = "source"
  /\ pipe = "error"
  /\ err' = TRUE
  /\ main' = "close"
  /\ UNCHANGED <<streams, current, hook, child, returned, producer, signals>>

\* cmd.Wait: the process has ended, and the goroutine that feeds it.  Its error
\* is that of the process or of the goroutine.
ResticWaited ==
  /\ main = "restic"
  /\ Ended(Restic)
  /\ reader \in {"ended", "failed"}
  /\ returned' = returned \cup {Restic}
  /\ err' = (child[Restic] = "failed" \/ reader = "failed")
  /\ main' = "close"
  /\ UNCHANGED <<streams, current, hook, child, producer, signals>>

\* readerWrapper.Close and closePipe, under closeLock: by the watcher of restic
\* after a signal, by the deferred function of runCommand.
ClosePipe(who) ==
  /\ closer = "none"
  /\ ~closed
  /\ closed' = TRUE
  /\ closer' = who
  /\ pipe' = "closed"
  /\ notified' = FALSE
  /\ UNCHANGED <<reader, runs, watcher, hit, sigChan, commandSignals, interrupts>>

WatcherCloses == watcher[Restic] = "close" /\ ClosePipe("watcher")
MainCloses == main = "close" /\ ClosePipe("main")

\* If Close did not care about the stdin-command.
InterruptNobody ==
  /\ closer # "none"
  /\ closer' = "none"
  /\ UNCHANGED <<pipe, reader, closed, runs, signals>>

\* commandSignals <- os.Interrupt, with closeLock held.
InterruptSource ==
  /\ closer # "none"
  /\ Len(commandSignals) < CommandSignalsSize
  /\ commandSignals' = Append(commandSignals, "close")
  /\ closer' = "none"
  /\ UNCHANGED <<pipe, reader, closed, runs, watcher, hit, sigChan, notified, interrupts>>

WatcherClosed ==
  /\ watcher[Restic] = "close"
  /\ closed /\ closer = "none"
  /\ watcher' = [watcher EXCEPT ![Restic] = "gone"]
  /\ UNCHANGED <<streams, runs, hit, sigChan, commandSignals, notified, interrupts>>

MainClosed ==
  /\ main = "close"
  /\ closed /\ closer = "none"
  /\ main' = IF Hooks = 0 THEN "done" ELSE "hook"
  /\ UNCHANGED <<streams, signals, current, hook, child, returned, producer, err>>

HookStart ==
  /\ main = "hook"
  /\ child[hook] = "none"
  /\ Launch(hook)
  /\ UNCHANGED <<streams, main, current, hook, returned, producer, err,
                 hit, sigChan, commandSignals, notified, interrupts>>

HookWaited ==
  /\ main = "hook"
  /\ Ended(hook)
  /\ returned' = returned \cup {hook}
  /\ IF hook < Restic + Hooks
     THEN hook' = hook + 1 /\ UNCHANGED main
     ELSE main' = "done" /\ UNCHANGED hook
  /\ UNCHANGED <<streams, signals, current, child, producer, err>>

-----------------------------------------------------------------------------
Producer == SourceStart \/ SourceSucceeds \/ SourceFails \/ Flush
Reader == ReadEOF \/ ReadInVain \/ ReadError \/ Send \/ Slept
Watcher(c) == PassOn(c) \/ LeaveOnDone(c)
Closing == WatcherCloses \/ WatcherClosed \/ InterruptSource
Main == ResticStart \/ SourceRefused \/ ResticWaited \/ MainCloses \/ MainClosed
        \/ HookStart \/ HookWaited

Next ==
  \/ Producer \/ Reader \/ Closing \/ Main \/ Interrupt
  \/ \E c \in Command : ChildEnds(c) \/ Watcher(c)

Spec == Init /\ [][Next]_vars

\* A process ends sooner or later: a stdin-command when it can write what it
\* has to or is interrupted, restic when its input ends or it is interrupted.
CanEnd(c) ==
  CASE c \in Source -> (Drained /\ pipe # "closed") \/ hit[c] # {}
    [] c = Restic -> reader \in {"ended", "failed"} \/ hit[Restic] # {}
    [] c \in Hook -> TRUE

\* The Go scheduler runs every goroutine that can go on.
Fairness ==
  /\ WF_vars(Producer) /\ WF_vars(Reader) /\ WF_vars(Closing) /\ WF_vars(Main)
  /\ \A c \in Command : WF_vars(Watcher(c)) /\ WF_vars(ChildEnds(c) /\ CanEnd(c))

FairSpec == Spec /\ Fairness

-----------------------------------------------------------------------------
TypeOK ==
  /\ main \in {"source", "restic", "close", "hook", "done"}
  /\ current \in Source
  /\ hook \in Restic + 1 .. Restic + Hooks + 1
  /\ child \in [Command -> {"none", "alive", "ok", "failed"}]
  /\ returned \subseteq Command
  /\ watcher \in [Command -> {"none", "select", "close", "gone"}]
  /\ hit \in [Command -> SUBSET Sender]
  /\ sigChan \in Seq(Sender) /\ Len(sigChan) <= SigChanSize
  /\ commandSignals \in Seq(Sender) /\ Len(commandSignals) <= 2
  /\ notified \in BOOLEAN
  /\ producer \in {"start", "wait", "flush", "ended"}
  /\ pipe \in {"open", "eof", "error", "closed"}
  /\ reader \in {"none", "reading", "sending", "sleeping", "ended", "failed"}
  /\ closed \in BOOLEAN
  /\ closer \in {"none", "watcher", "main"}
  /\ err \in BOOLEAN
  /\ interrupts \in 0 .. MaxInterrupts

\* A backup is only reported as a success when every stdin-command succeeded:
\* content cut short by an error never passes for a backup, whoever ends first.
FailureReported ==
  main \in {"hook", "done"} /\ ~err => \A c \in Source : child[c] = "ok"

\* "Stopping restic when stream source command fails while producing content"
\* (wrapper_streamsource.go:122): restic is sent an interrupt before its input
\* ends early.
ResticStopped ==
  reader = "failed" /\ child[Restic] = "alive" => hit[Restic] # {}

\* The interrupt that Read sends is there to stop restic: as long as the user
\* does not interrupt, no other command is hit by it.
ReadInterruptsRestic ==
  interrupts = 0 => \A c \in Command \ {Restic} : "read" \notin hit[c]

\* "close stdin (if possible) to unblock Wait on cmd.Process"
\* (shell/command.go:135): the run goes on to its end, with or without errors
\* and interrupts.
RunEnds == <>(main = "done")

\* An interrupt is sent to the stdin-command that restic has no use for any
\* more ("interrupt not sent to stdin-command", wrapper_test.go:633): one that
\* runs when the pipe is closed ends by itself, or is hit.
SourceStopped ==
  \A c \in Source :
    closer # "none" /\ child[c] = "alive" ~> hit[c] # {} \/ Ended(c)

\* Interrupts reach restic when its input fails, and no other command because of it.
InterruptsMeet == ResticStopped /\ ReadInterruptsRestic

\* The run ends, and stops a stdin-command that nobody reads from.
AllEnd == RunEnds /\ SourceStopped
=============================================================================
