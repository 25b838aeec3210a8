-------------------------- MODULE ResticRunProofs --------------------------
(***************************************************************************)
(* What restic is run with.  Its input, for any number of stdin-commands,  *)
(* hooks and interrupts, and any order in which the goroutines go on: what *)
(* a success says of the stdin-commands, and whom the interrupt reaches    *)
(* that Read sends.  Its flags, for any files, manuals and arguments: they *)
(* are those that its manuals have.                                        *)
(***************************************************************************)
EXTENDS StreamSource, Configuration, WellFoundedInduction, TLAPS

AllOk == \A c \in Source : child[c] = "ok"

(* The stdin-commands run one after the other, and each only when those    *)
(* before it have succeeded.                                               *)
SourcesInTurn ==
  /\ \A c \in Source : /\ c < current => child[c] = "ok"
                       /\ c > current => child[c] = "none"
  /\ producer = "start" => child[current] = "none"
  /\ producer = "flush" \/ pipe = "eof" => AllOk

(* What an end without an error means for the stdin-commands.              *)
Complete ==
  /\ child[Restic] = "ok" => reader \in {"ended", "failed"}
  /\ reader = "ended" => child[Restic] = "failed" \/ AllOk
  /\ main \in {"close", "hook", "done"} /\ ~err => AllOk

(* Restic runs, and is fed, while the main goroutine waits for it; hooks   *)
(* come later.                                                             *)
ResticInTurn ==
  /\ main = "source" => child[Restic] = "none" /\ reader = "none"
  /\ main \notin {"source", "restic"} => child[Restic] # "alive"
  /\ main \in {"source", "restic"} => Restic \notin returned
  /\ reader \in {"reading", "sending", "sleeping"} => main = "restic"
  /\ \A c \in Hook : watcher[c] # "none" => main \in {"hook", "done"}

(* Where the interrupt is that Read has sent: still to be received by the  *)
(* goroutine of restic, or passed on.                                      *)
InterruptHeld ==
  child[Restic] = "alive" =>
    /\ watcher[Restic] # "none"
    /\ watcher[Restic] \in {"close", "gone"} => hit[Restic] # {}
    /\ reader = "sleeping" => sigChan # <<>> \/ watcher[Restic] # "select"
    /\ reader = "failed" => watcher[Restic] # "select"

(* Nobody but Read has sent an interrupt as long as the user has not.      *)
OneInterrupt ==
  interrupts = 0 =>
    /\ sigChan = <<>> \/ (reader = "sleeping" /\ watcher[Restic] = "select")
    /\ reader \in {"reading", "sending"} => watcher[Restic] = "select"
    /\ \A c \in Command \ {Restic} : "read" \notin hit[c]

CloseSignals == commandSignals \in Seq({"user", "close"})

(* There is a hook to run until the last one has.                          *)
HooksInTurn == main # "done" => hook \in Hook \/ (Hooks = 0 /\ main # "hook")

Types == TypeOK /\ HooksInTurn

SafeInv == SourcesInTurn /\ Complete /\ ResticInTurn
SignalInv == InterruptHeld /\ OneInterrupt /\ CloseSignals

-----------------------------------------------------------------------------
(* The commands are the stdin-commands, restic and the hooks.              *)
LEMMA Kinds ==
  /\ Restic \in Command /\ Restic \notin Source /\ Restic \notin Hook
  /\ \A c \in Source : c \in Command /\ c \notin Hook
  /\ \A c \in Hook : c \in Command
  /\ \A c \in Command : c \in Source \/ c = Restic \/ c \in Hook
  /\ \A c \in Source : c \in Nat
BY StreamAssumption DEF StreamAssumption, Restic, Source, Hook, Command

(* A channel that is offered a signal, or from which one is received.      *)
LEMMA Adds ==
  ASSUME NEW S, NEW s \in Seq(S), NEW x \in S, NEW n \in Nat, Len(s) <= n
  PROVE  /\ Offer(s, n, x) \in Seq(S) /\ Len(Offer(s, n, x)) <= n
         /\ Len(s) < n => /\ Append(s, x) \in Seq(S) /\ Len(Append(s, x)) <= n
                          /\ Append(s, x) # <<>>
<1>1. Append(s, x) \in Seq(S) /\ Len(Append(s, x)) = Len(s) + 1 /\ Len(s) \in Nat
  OBVIOUS
<1>2. Append(s, x) # <<>>
  BY <1>1
<1>3. QED
  BY <1>1, <1>2 DEF Offer

LEMMA Takes ==
  ASSUME NEW S, NEW s \in Seq(S), s # <<>>
  PROVE  /\ Head(s) \in S /\ Tail(s) \in Seq(S) /\ Len(Tail(s)) = Len(s) - 1
         /\ Len(s) \in Nat /\ (Len(s) <= 1 => Tail(s) = <<>>)
OBVIOUS

LEMMA LaunchTypes ==
  ASSUME TypeOK, NEW c, Launch(c)
  PROVE  /\ child' \in [Command -> {"none", "alive", "ok", "failed"}]
         /\ watcher' \in [Command -> {"none", "select", "close", "gone"}]
BY DEF TypeOK, Launch

LEMMA InitTypes == Init => Types
<1> SUFFICES ASSUME Init PROVE Types
  OBVIOUS
<1>1. 1 \in Source /\ (Hooks = 0 \/ Restic + 1 \in Hook) /\ Restic + 1 \in Restic + 1 .. Restic + Hooks + 1
  BY StreamAssumption DEF StreamAssumption, Source, Hook, Restic
<1>2. 0 \in 0 .. MaxInterrupts
  BY StreamAssumption DEF StreamAssumption
<1>3. <<>> \in Seq(Sender) /\ Len(<<>>) = 0
  OBVIOUS
<1>4. /\ child \in [Command -> {"none", "alive", "ok", "failed"}]
      /\ watcher \in [Command -> {"none", "select", "close", "gone"}]
      /\ hit \in [Command -> SUBSET Sender] /\ returned \subseteq Command
  BY DEF Init
<1>5. /\ sigChan \in Seq(Sender) /\ Len(sigChan) <= SigChanSize
      /\ commandSignals \in Seq(Sender) /\ Len(commandSignals) <= 2
  BY <1>3 DEF Init, SigChanSize
<1>6. QED
  BY <1>1, <1>2, <1>4, <1>5 DEF Init, Types, TypeOK, HooksInTurn

(* Every variable keeps its type.                                          *)
LEMMA TypesStep ==
  ASSUME Types, [Next]_vars
  PROVE  Types'
<1> USE DEF Types, TypeOK, HooksInTurn
<1>1. CASE Producer
  <2>1. CASE SourceStart
    BY <2>1, LaunchTypes DEF SourceStart, streams
  <2>2. CASE SourceSucceeds
    <3>1. current < Sources => current + 1 \in Source
      BY StreamAssumption DEF Source, StreamAssumption
    <3>2. returned' \subseteq Command
      BY <2>2, Kinds DEF SourceSucceeds
    <3>3. /\ current' \in Source /\ producer' \in {"start", "flush"}
          /\ notified' = notified \/ notified' = FALSE
      BY <2>2, <3>1 DEF SourceSucceeds
    <3>4. UNCHANGED <<pipe, reader, closed, closer, main, hook, child, err, watcher, hit, sigChan,
                      commandSignals, interrupts>>
      BY <2>2 DEF SourceSucceeds, streams
    <3>5. notified' \in BOOLEAN
      BY <3>3
    <3>6. QED
      BY <3>2, <3>3, <3>4, <3>5
  <2>3. CASE SourceFails
    BY <2>3, Kinds DEF SourceFails, signals
  <2>4. CASE Flush
    BY <2>4 DEF Flush, signals
  <2>5. QED
    BY <1>1, <2>1, <2>2, <2>3, <2>4 DEF Producer
<1>2. CASE Reader
  <2>1. CASE ReadEOF \/ ReadInVain \/ ReadError \/ Slept
    BY <2>1 DEF ReadEOF, ReadInVain, ReadError, Slept, runs, signals
  <2>2. CASE Send
    <3>1. sigChan' \in Seq(Sender) /\ Len(sigChan') <= SigChanSize
      BY <2>2, Adds, Takes DEF Send, SigChanSize, Sender
    <3>2. QED
      BY <2>2, <3>1 DEF Send, runs
  <2>3. QED
    BY <1>2, <2>1, <2>2 DEF Reader
<1>3. CASE Closing
  <2>1. CASE WatcherCloses
    BY <2>1 DEF WatcherCloses, ClosePipe, runs
  <2>2. CASE WatcherClosed
    <3>1. watcher' \in [Command -> {"none", "select", "close", "gone"}]
      BY <2>2 DEF WatcherClosed
    <3>2. QED
      BY <2>2, <3>1 DEF WatcherClosed, streams, runs
  <2>3. CASE InterruptSource
    <3>1. commandSignals' \in Seq(Sender) /\ Len(commandSignals') <= 2
      BY <2>3, Adds, Takes DEF InterruptSource, CommandSignalsSize, Sender
    <3>2. QED
      BY <2>3, <3>1 DEF InterruptSource, runs
  <2>4. QED
    BY <1>3, <2>1, <2>2, <2>3 DEF Closing
<1>4. CASE Main
  <2>1. CASE ResticStart
    BY <2>1, LaunchTypes DEF ResticStart
  <2>2. CASE SourceRefused
    BY <2>2 DEF SourceRefused, streams, signals
  <2>3. CASE ResticWaited
    BY <2>3, Kinds DEF ResticWaited, streams, signals
  <2>4. CASE MainCloses
    BY <2>4 DEF MainCloses, ClosePipe, runs
  <2>5. CASE MainClosed
    BY <2>5 DEF MainClosed, streams, signals
  <2>6. CASE HookStart
    BY <2>6, LaunchTypes DEF HookStart, streams
  <2>7. CASE HookWaited
    <3>1. hook \in Hook
      BY <2>7 DEF HookWaited
    <3>2. hook' \in Restic + 1 .. Restic + Hooks + 1 /\ (main' # "done" => hook' \in Hook)
      BY <2>7, <3>1, StreamAssumption DEF HookWaited, StreamAssumption, Restic, Hook
    <3>3. QED
      BY <2>7, <3>1, <3>2, Kinds DEF HookWaited, streams, signals
  <2>8. QED
    BY <1>4, <2>1, <2>2, <2>3, <2>4, <2>5, <2>6, <2>7 DEF Main
<1>5. CASE Interrupt
  <2>1. sigChan' \in Seq(Sender) /\ Len(sigChan') <= SigChanSize
    BY <1>5, Adds, Takes DEF Interrupt, SigChanSize, Sender
  <2>2. commandSignals' \in Seq(Sender) /\ Len(commandSignals') <= 2
    BY <1>5, Adds, Takes DEF Interrupt, CommandSignalsSize, Sender
  <2>3. interrupts' \in 0 .. MaxInterrupts
    BY <1>5, StreamAssumption DEF Interrupt, StreamAssumption
  <2>4. QED
    BY <1>5, <2>1, <2>2, <2>3 DEF Interrupt, streams, runs
<1>6. ASSUME NEW c \in Command, ChildEnds(c) PROVE Types'
  BY <1>6 DEF ChildEnds, streams, signals
<1>7. ASSUME NEW c \in Command, Watcher(c) PROVE Types'
  <2>1. CASE PassOn(c)
    <3>1. /\ sigChan' \in Seq(Sender) /\ Len(sigChan') <= SigChanSize
          /\ commandSignals' \in Seq(Sender) /\ Len(commandSignals') <= 2
          /\ hit' \in [Command -> SUBSET Sender]
      <4>1. CASE c \in Source
        <5>1. /\ commandSignals # <<>> /\ HitBy(c, Head(commandSignals))
              /\ commandSignals' = Tail(commandSignals) /\ sigChan' = sigChan
          BY <2>1, <4>1 DEF PassOn
        <5>2. Head(commandSignals) \in Sender /\ commandSignals' \in Seq(Sender) /\ Len(commandSignals') <= 2
          BY <5>1, Takes
        <5>3. QED
          BY <5>1, <5>2 DEF HitBy
      <4>2. CASE c \notin Source
        <5>1. /\ sigChan # <<>> /\ HitBy(c, Head(sigChan))
              /\ sigChan' = Tail(sigChan) /\ commandSignals' = commandSignals
          BY <2>1, <4>2 DEF PassOn
        <5>2. Head(sigChan) \in Sender /\ sigChan' \in Seq(Sender) /\ Len(sigChan') <= SigChanSize
          BY <5>1, Takes DEF SigChanSize
        <5>3. QED
          BY <5>1, <5>2 DEF HitBy
      <4>3. QED
        BY <4>1, <4>2
    <3>2. watcher' \in [Command -> {"none", "select", "close", "gone"}]
      BY <2>1 DEF PassOn
    <3>3. QED
      BY <2>1, <3>1, <3>2 DEF PassOn, streams, runs
  <2>2. CASE LeaveOnDone(c)
    BY <2>2 DEF LeaveOnDone, streams, runs
  <2>3. QED
    BY <1>7, <2>1, <2>2 DEF Watcher
<1>8. CASE UNCHANGED vars
  BY <1>8 DEF vars, streams, runs, signals
<1>9. QED
  BY <1>1, <1>2, <1>3, <1>4, <1>5, <1>6, <1>7, <1>8 DEF Next

-----------------------------------------------------------------------------
(* Who succeeds, and what that says of the stdin-commands.                 *)
LEMMA SafeStep ==
  ASSUME Types, SafeInv, [Next]_vars
  PROVE  SafeInv'
<1> USE DEF Types, TypeOK, SafeInv, SourcesInTurn, Complete, ResticInTurn, AllOk
<1>1. CASE SourceStart
  <2>1. /\ producer = "start" /\ producer' = "wait" /\ child[current] = "none"
        /\ child' = [child EXCEPT ![current] = "alive"]
        /\ watcher' = [watcher EXCEPT ![current] = "select"]
        /\ UNCHANGED <<main, reader, returned, err, pipe, current, hook>>
    BY <1>1 DEF SourceStart, Launch, streams
  <2>2. /\ \A c \in Command : c # current => child'[c] = child[c] /\ watcher'[c] = watcher[c]
        /\ ~AllOk
    BY <2>1, Kinds
  <2>3. SourcesInTurn'
    BY <2>1, <2>2, Kinds
  <2>4. Complete' /\ ResticInTurn'
    BY <2>1, <2>2, Kinds
  <2>5. QED
    BY <2>3, <2>4
<1>2. CASE SourceSucceeds
  <2>1. /\ producer = "wait" /\ child[current] = "ok" /\ UNCHANGED <<child, main, reader, watcher, err, pipe>>
        /\ returned' = returned \cup {current}
    BY <1>2 DEF SourceSucceeds, streams
  <2>2. /\ \A c \in Source : c \in 1 .. Sources /\ (c \in Nat)
        /\ Sources \in Nat
    BY StreamAssumption DEF Source, StreamAssumption
  <2>3. SourcesInTurn'
    <3>1. CASE current < Sources
      <4>1. current' = current + 1 /\ producer' = "start" /\ current + 1 \in Source
        BY <1>2, <2>2, <3>1 DEF SourceSucceeds, Source
      <4>2. QED
        BY <2>1, <2>2, <4>1
    <3>2. CASE ~(current < Sources)
      <4>1. current' = current /\ producer' = "flush" /\ current = Sources
        BY <1>2, <2>2, <3>2 DEF SourceSucceeds
      <4>2. QED
        BY <2>1, <2>2, <4>1
    <3>3. QED
      BY <3>1, <3>2
  <2>4. Complete' /\ ResticInTurn'
    BY <2>1, Kinds
  <2>5. QED
    BY <2>3, <2>4
<1>3. CASE SourceFails
  <2>1. /\ producer' = "ended" /\ (pipe' = pipe \/ pipe' = "error")
        /\ UNCHANGED <<child, main, reader, watcher, err, current>>
        /\ returned' = returned \cup {current}
    BY <1>3 DEF SourceFails, signals
  <2>2. QED
    BY <2>1, Kinds
<1>4. CASE Flush
  <2>1. /\ producer = "flush" /\ producer' = "ended" /\ (pipe' = pipe \/ pipe' = "eof")
        /\ UNCHANGED <<child, main, reader, watcher, err, current, returned>>
    BY <1>4 DEF Flush, signals
  <2>2. QED
    BY <2>1
<1>5. CASE Reader
  <2>1. /\ reader = "reading" => reader' # "failed"
        /\ reader' = "ended" => pipe = "eof" \/ Ended(Restic)
        /\ reader # "none" /\ main = "restic" /\ reader' # "none"
        /\ reader' = reader \/ reader \in {"reading", "sending", "sleeping"}
        /\ UNCHANGED <<child, main, pipe, producer, watcher, err, current, returned>>
    BY <1>5 DEF Reader, ReadEOF, ReadInVain, ReadError, Send, Slept, runs, signals
  <2>2. child[Restic] # "ok"
    BY <1>5 DEF Reader, ReadEOF, ReadInVain, ReadError, Send, Slept
  <2>3. QED
    BY <2>1, <2>2 DEF Ended
<1>6. CASE Closing \/ MainCloses \/ Interrupt
  <2>1. /\ pipe' = pipe \/ pipe' = "closed"
        /\ \A c \in Hook : watcher'[c] = watcher[c]
        /\ UNCHANGED <<child, main, reader, producer, err, current, returned>>
    BY <1>6, Kinds DEF Closing, MainCloses, WatcherCloses, ClosePipe, WatcherClosed,
      InterruptSource, Interrupt, runs, streams
  <2>2. QED
    BY <2>1
<1>7. CASE ResticStart
  <2>1. /\ main = "source" /\ main' = "restic" /\ reader' = "reading"
        /\ child' = [child EXCEPT ![Restic] = "alive"]
        /\ watcher' = [watcher EXCEPT ![Restic] = "select"]
        /\ UNCHANGED <<producer, err, current, returned, pipe>>
    BY <1>7 DEF ResticStart, Launch
  <2>2. /\ \A c \in Command : c # Restic => child'[c] = child[c] /\ watcher'[c] = watcher[c]
        /\ child'[Restic] = "alive"
    BY <2>1, Kinds
  <2>3. QED
    BY <2>1, <2>2, Kinds
<1>8. CASE SourceRefused
  <2>1. /\ main = "source" /\ main' = "close" /\ err' = TRUE
        /\ UNCHANGED <<child, reader, producer, watcher, current, returned, pipe>>
    BY <1>8 DEF SourceRefused, streams, signals
  <2>2. QED
    BY <2>1
<1>9. CASE ResticWaited
  <2>1. /\ main = "restic" /\ main' = "close" /\ Ended(Restic) /\ reader \in {"ended", "failed"}
        /\ err' = (child[Restic] = "failed" \/ reader = "failed")
        /\ UNCHANGED <<child, reader, producer, watcher, current, pipe>>
    BY <1>9 DEF ResticWaited, streams, signals
  <2>2. QED
    BY <2>1 DEF Ended
<1>10. CASE MainClosed
  <2>1. /\ main = "close" /\ main' \in {"hook", "done"}
        /\ UNCHANGED <<child, reader, producer, watcher, err, current, returned, pipe>>
    BY <1>10 DEF MainClosed, streams, signals
  <2>2. QED
    BY <2>1
<1>11. CASE HookStart
  <2>1. /\ main = "hook" /\ hook \in Hook
        /\ child' = [child EXCEPT ![hook] = "alive"]
        /\ UNCHANGED <<main, reader, producer, err, current, returned, pipe>>
    BY <1>11 DEF HookStart, Launch, streams, HooksInTurn
  <2>2. \A c \in Command : c # hook => child'[c] = child[c]
    BY <2>1
  <2>3. QED
    BY <2>1, <2>2, Kinds
<1>12. CASE HookWaited
  <2>1. /\ main = "hook" /\ main' \in {"hook", "done"}
        /\ UNCHANGED <<child, reader, producer, watcher, err, current, pipe>>
    BY <1>12 DEF HookWaited, streams, signals
  <2>2. QED
    BY <2>1
<1>13. ASSUME NEW c \in Command, ChildEnds(c) PROVE SafeInv'
  <2>1. PICK outcome \in {"ok", "failed"} :
          /\ child[c] = "alive" /\ child' = [child EXCEPT ![c] = outcome]
          /\ (c = Restic /\ outcome = "ok") => reader \in {"ended", "failed"}
          /\ UNCHANGED <<main, reader, producer, watcher, err, current, returned, pipe>>
    BY <1>13 DEF ChildEnds, streams, signals
  <2>2. child'[c] = outcome /\ \A d \in Command : d # c => child'[d] = child[d]
    BY <2>1
  <2>3. SourcesInTurn'
    BY <2>1, <2>2, Kinds
  <2>4. Complete'
    BY <2>1, <2>2, Kinds
  <2>5. ResticInTurn'
    BY <2>1, <2>2, Kinds
  <2>6. QED
    BY <2>3, <2>4, <2>5
<1>14. ASSUME NEW c \in Command, Watcher(c) PROVE SafeInv'
  <2>1. /\ watcher[c] = "select" /\ \A d \in Command : d # c => watcher'[d] = watcher[d]
        /\ UNCHANGED <<child, main, reader, producer, err, current, returned, pipe>>
    BY <1>14 DEF Watcher, PassOn, LeaveOnDone, streams, runs
  <2>2. QED
    BY <2>1, Kinds
<1>15. CASE UNCHANGED vars
  BY <1>15 DEF vars, streams, runs, signals
<1>16. QED
  BY <1>1, <1>2, <1>3, <1>4, <1>5, <1>6, <1>7, <1>8, <1>9, <1>10, <1>11, <1>12, <1>13,
     <1>14, <1>15 DEF Next, Producer, Main

LEMMA StreamInvariant == Spec => [](Types /\ SafeInv)
<1>1. Init => SafeInv
  BY Kinds, StreamAssumption DEF Init, SafeInv, SourcesInTurn, Complete, ResticInTurn, Source,
    StreamAssumption
<1>2. QED
  BY <1>1, InitTypes, TypesStep, SafeStep, PTL DEF Spec

(* Every variable keeps its type.                                          *)
THEOREM StreamTypes == Spec => []TypeOK
BY StreamInvariant, PTL DEF Types

(* For any number of stdin-commands and interrupts, and however slow any   *)
(* goroutine is: a backup is reported as a success only when every         *)
(* stdin-command succeeded (wrapper_streamsource.go).                      *)
THEOREM NoShortBackup == Spec => []FailureReported
<1>1. SafeInv => FailureReported
  BY DEF SafeInv, Complete, AllOk, FailureReported
<1>2. QED
  BY <1>1, StreamInvariant, PTL

-----------------------------------------------------------------------------
(* Interrupts.  What a step leaves alone keeps the whole of SignalInv.     *)
LEMMA SignalsKept ==
  ASSUME SignalInv, UNCHANGED <<hit, sigChan, commandSignals, interrupts>>,
         watcher'[Restic] = watcher[Restic] \/ (watcher[Restic] = "close" /\ watcher'[Restic] = "gone"),
         reader' = reader \/ (reader = "reading" /\ reader' \in {"sending", "ended"}),
         child'[Restic] = "alive" => child[Restic] = "alive"
  PROVE  SignalInv'
<1>1. InterruptHeld'
  BY DEF SignalInv, InterruptHeld
<1>2. OneInterrupt'
  BY DEF SignalInv, OneInterrupt
<1>3. CloseSignals'
  BY DEF SignalInv, CloseSignals
<1>4. QED
  BY <1>1, <1>2, <1>3 DEF SignalInv

LEMMA SignalStep ==
  ASSUME Types, SafeInv, SignalInv, [Next]_vars, Timely
  PROVE  SignalInv'
<1> USE DEF Types, TypeOK
<1>1. CASE SourceStart
  <2>1. /\ child' = [child EXCEPT ![current] = "alive"]
        /\ watcher' = [watcher EXCEPT ![current] = "select"]
        /\ UNCHANGED <<reader, hit, sigChan, commandSignals, interrupts>>
    BY <1>1 DEF SourceStart, Launch, streams
  <2>2. child'[Restic] = child[Restic] /\ watcher'[Restic] = watcher[Restic]
    BY <2>1, Kinds
  <2>3. QED
    BY <2>1, <2>2, SignalsKept
<1>2. CASE SourceSucceeds \/ SourceFails \/ Flush
  <2>1. UNCHANGED <<reader, child, watcher, hit, sigChan, commandSignals, interrupts>>
    BY <1>2 DEF SourceSucceeds, SourceFails, Flush, streams, signals
  <2>2. QED
    BY <2>1, SignalsKept
<1>3. CASE ReadEOF \/ ReadInVain \/ ReadError
  <2>1. /\ reader = "reading" /\ reader' \in {"sending", "ended"}
        /\ UNCHANGED <<child, watcher, hit, sigChan, commandSignals, interrupts>>
    BY <1>3 DEF ReadEOF, ReadInVain, ReadError, runs, signals
  <2>2. QED
    BY <2>1, SignalsKept
<1>4. CASE Send
  <2>1. /\ reader = "sending" /\ reader' = "sleeping" /\ sigChan' = Append(sigChan, "read")
        /\ Len(sigChan) < SigChanSize
        /\ UNCHANGED <<child, watcher, hit, commandSignals, interrupts>>
    BY <1>4 DEF Send, runs
  <2>2. sigChan' # <<>>
    BY <2>1, Adds DEF Sender, SigChanSize
  <2>3. InterruptHeld' /\ OneInterrupt' /\ CloseSignals'
    BY <2>1, <2>2 DEF SignalInv, InterruptHeld, OneInterrupt, CloseSignals
  <2>4. QED
    BY <2>3 DEF SignalInv
<1>5. CASE Slept
  <2>1. /\ reader = "sleeping" /\ reader' = "failed" /\ (sigChan = <<>> \/ watcher[Restic] # "select")
        /\ UNCHANGED <<child, watcher, hit, sigChan, commandSignals, interrupts>>
    BY <1>5 DEF Slept, runs, signals
  <2>2. InterruptHeld' /\ OneInterrupt' /\ CloseSignals'
    BY <2>1 DEF SignalInv, InterruptHeld, OneInterrupt, CloseSignals
  <2>3. QED
    BY <2>2 DEF SignalInv
<1>6. CASE WatcherCloses \/ MainCloses
  <2>1. UNCHANGED <<reader, child, watcher, hit, sigChan, commandSignals, interrupts>>
    BY <1>6 DEF WatcherCloses, MainCloses, ClosePipe, runs
  <2>2. QED
    BY <2>1, SignalsKept
<1>7. CASE WatcherClosed
  <2>1. /\ watcher[Restic] = "close" /\ watcher'[Restic] = "gone"
        /\ UNCHANGED <<reader, child, hit, sigChan, commandSignals, interrupts>>
    BY <1>7, Kinds DEF WatcherClosed, runs, streams
  <2>2. QED
    BY <2>1, SignalsKept
<1>8. CASE InterruptSource
  <2>1. /\ commandSignals' = Append(commandSignals, "close")
        /\ UNCHANGED <<reader, child, watcher, hit, sigChan, interrupts>>
    BY <1>8 DEF InterruptSource, runs
  <2>2. CloseSignals'
    BY <2>1 DEF SignalInv, CloseSignals
  <2>3. QED
    BY <2>1, <2>2 DEF SignalInv, InterruptHeld, OneInterrupt
<1>9. CASE ResticStart
  <2>1. /\ reader = "none" /\ reader' = "reading" /\ watcher'[Restic] = "select"
        /\ UNCHANGED <<hit, sigChan, commandSignals, interrupts>>
    BY <1>9, Kinds DEF ResticStart, Launch, SafeInv, ResticInTurn
  <2>2. InterruptHeld' /\ OneInterrupt' /\ CloseSignals'
    BY <2>1 DEF SignalInv, InterruptHeld, OneInterrupt, CloseSignals
  <2>3. QED
    BY <2>2 DEF SignalInv
<1>10. CASE SourceRefused \/ ResticWaited \/ MainClosed \/ HookWaited
  <2>1. UNCHANGED <<reader, child, watcher, hit, sigChan, commandSignals, interrupts>>
    BY <1>10 DEF SourceRefused, ResticWaited, MainClosed, HookWaited, streams, signals
  <2>2. QED
    BY <2>1, SignalsKept
<1>11. CASE HookStart
  <2>1. /\ hook \in Hook
        /\ child' = [child EXCEPT ![hook] = "alive"]
        /\ watcher' = [watcher EXCEPT ![hook] = "select"]
        /\ UNCHANGED <<reader, hit, sigChan, commandSignals, interrupts>>
    BY <1>11 DEF HookStart, Launch, streams, HooksInTurn
  <2>2. child'[Restic] = child[Restic] /\ watcher'[Restic] = watcher[Restic]
    BY <2>1, Kinds
  <2>3. QED
    BY <2>1, <2>2, SignalsKept
<1>12. CASE Interrupt
  <2>1. /\ interrupts' = interrupts + 1 /\ sigChan' = Offer(sigChan, SigChanSize, "user")
        /\ commandSignals' \in {commandSignals, Offer(commandSignals, CommandSignalsSize, "user")}
        /\ UNCHANGED <<reader, child, watcher, hit>>
    BY <1>12 DEF Interrupt, streams, runs
  <2>2. interrupts' # 0
    BY <2>1
  <2>3. sigChan # <<>> => sigChan' # <<>>
    BY <2>1, Adds DEF Offer, Sender, SigChanSize
  <2>4. CloseSignals'
    <3>1. commandSignals' = commandSignals \/ commandSignals' = Append(commandSignals, "user")
      BY <2>1 DEF Offer
    <3>2. QED
      BY <3>1 DEF SignalInv, CloseSignals
  <2>5. InterruptHeld' /\ OneInterrupt'
    BY <2>1, <2>2, <2>3 DEF SignalInv, InterruptHeld, OneInterrupt
  <2>6. QED
    BY <2>4, <2>5 DEF SignalInv
<1>13. ASSUME NEW c \in Command, ChildEnds(c) PROVE SignalInv'
  <2>1. /\ child'[Restic] = "alive" => child[Restic] = "alive"
        /\ UNCHANGED <<reader, watcher, hit, sigChan, commandSignals, interrupts>>
    BY <1>13, Kinds DEF ChildEnds, streams, signals
  <2>2. QED
    BY <2>1, SignalsKept
<1>14. ASSUME NEW c \in Command, PassOn(c) PROVE SignalInv'
  <2>1. /\ watcher[c] = "select"
        /\ watcher' = [watcher EXCEPT ![c] = IF c = Restic THEN "close" ELSE "gone"]
        /\ UNCHANGED <<reader, child, interrupts>>
    BY <1>14 DEF PassOn, streams, runs
  <2>2. CASE c \in Source
    <3>1. /\ commandSignals # <<>> /\ HitBy(c, Head(commandSignals))
          /\ commandSignals' = Tail(commandSignals) /\ sigChan' = sigChan
      BY <1>14, <2>2 DEF PassOn
    <3>2. Head(commandSignals) # "read" /\ CloseSignals'
      BY <3>1, Takes DEF SignalInv, CloseSignals
    <3>3. hit'[Restic] = hit[Restic] /\ watcher'[Restic] = watcher[Restic]
      BY <2>1, <2>2, <3>1, Kinds DEF HitBy
    <3>4. \A d \in Command : "read" \in hit'[d] => "read" \in hit[d]
      BY <3>1, <3>2 DEF HitBy
    <3>5. InterruptHeld'
      BY <2>1, <3>1, <3>3 DEF SignalInv, InterruptHeld
    <3>6. OneInterrupt'
      BY <2>1, <3>1, <3>3, <3>4 DEF SignalInv, OneInterrupt
    <3>7. QED
      BY <3>2, <3>5, <3>6 DEF SignalInv
  <2>3. CASE c = Restic
    <3>1. /\ sigChan # <<>> /\ HitBy(Restic, Head(sigChan)) /\ watcher'[Restic] = "close"
          /\ sigChan' = Tail(sigChan) /\ commandSignals' = commandSignals
      BY <1>14, <2>1, <2>3, Kinds DEF PassOn
    <3>2. sigChan' = <<>>
      BY <3>1, Takes DEF SigChanSize
    <3>3. /\ child[Restic] = "alive" => hit'[Restic] # {}
          /\ \A d \in Command \ {Restic} : hit'[d] = hit[d]
      BY <3>1, Kinds DEF HitBy
    <3>4. InterruptHeld'
      BY <2>1, <3>1, <3>3 DEF SignalInv, InterruptHeld
    <3>5. OneInterrupt'
      BY <2>1, <3>1, <3>2, <3>3 DEF SignalInv, OneInterrupt
    <3>6. QED
      BY <3>1, <3>4, <3>5 DEF SignalInv, CloseSignals
  <2>4. CASE c \in Hook
    <3>1. /\ sigChan # <<>> /\ commandSignals' = commandSignals
      BY <1>14, <2>4, Kinds DEF PassOn
    <3>2. main \in {"hook", "done"}
      BY <2>1, <2>4 DEF SafeInv, ResticInTurn
    <3>3. child[Restic] # "alive" /\ reader # "sleeping"
      BY <3>2 DEF SafeInv, ResticInTurn
    <3>4. interrupts # 0
      BY <3>1, <3>3 DEF SignalInv, OneInterrupt
    <3>5. QED
      BY <2>1, <3>1, <3>3, <3>4 DEF SignalInv, InterruptHeld, OneInterrupt, CloseSignals
  <2>5. QED
    BY <2>2, <2>3, <2>4, Kinds
<1>15. ASSUME NEW c \in Command, LeaveOnDone(c) PROVE SignalInv'
  <2>1. /\ c \in returned /\ watcher' = [watcher EXCEPT ![c] = "gone"]
        /\ UNCHANGED <<reader, child, hit, sigChan, commandSignals, interrupts>>
    BY <1>15 DEF LeaveOnDone, streams, runs
  <2>2. CASE c = Restic
    <3>1. child[Restic] # "alive" /\ reader \notin {"reading", "sending", "sleeping"}
      BY <2>1, <2>2 DEF SafeInv, ResticInTurn
    <3>2. QED
      BY <2>1, <3>1 DEF SignalInv, InterruptHeld, OneInterrupt, CloseSignals
  <2>3. CASE c # Restic
    <3>1. watcher'[Restic] = watcher[Restic]
      BY <2>1, <2>3, Kinds
    <3>2. QED
      BY <2>1, <3>1, SignalsKept
  <2>4. QED
    BY <2>2, <2>3
<1>16. CASE UNCHANGED vars
  BY <1>16, SignalsKept DEF vars, streams, runs, signals
<1>17. QED
  BY <1>1, <1>2, <1>3, <1>4, <1>5, <1>6, <1>7, <1>8, <1>9, <1>10, <1>11, <1>12, <1>13,
     <1>14, <1>15, <1>16 DEF Next, Producer, Reader, Closing, Main, Watcher

(* For any number of commands and interrupts, as long as a goroutine gets  *)
(* to wait for a signal and passes it on within the sleep of Read: restic  *)
(* is sent an interrupt before its input ends early, and what Read sends   *)
(* hits no other command unless the user interrupts as well                *)
(* (wrapper_streamsource.go, shell/command.go).                            *)
THEOREM InterruptsArrive ==
  ASSUME Timely
  PROVE  Spec => []InterruptsMeet
<1>1. Init => SignalInv
  <2> SUFFICES ASSUME Init PROVE SignalInv
    OBVIOUS
  <2>1. CloseSignals
    BY DEF Init, CloseSignals
  <2>2. InterruptHeld /\ OneInterrupt
    BY Kinds DEF Init, InterruptHeld, OneInterrupt
  <2>3. QED
    BY <2>1, <2>2 DEF SignalInv
<1>2. Types /\ SafeInv /\ SignalInv /\ [Next]_vars => SignalInv'
  BY SignalStep
<1>3. Types /\ SignalInv => InterruptsMeet
  BY Kinds DEF Types, TypeOK, SignalInv, InterruptHeld, OneInterrupt, InterruptsMeet, ResticStopped,
    ReadInterruptsRestic
<1>4. QED
  BY <1>1, <1>2, <1>3, StreamInvariant, PTL DEF Spec

-----------------------------------------------------------------------------
(* The commands of restic that are run, and the flags of all of them.      *)
ResticCommand == {CommandOf(r) : r \in Runs} \cup {DefaultCommand}

(* What is to be backed up is a list.                                      *)
SourcesListed ==
  place = "ran" => \E n \in Nat : DOMAIN UnresolvedSource(profile) = 1..n

(* A set of natural numbers that is not empty has a least one.             *)
LEMMA Minimum ==
  ASSUME NEW S \in SUBSET Nat, S # {}
  PROVE  \E x \in S : \A y \in S : x <= y
<1> DEFINE R == OpToRel(<, Nat)
<1>1. IsWellFoundedOn(R, Nat)
  BY NatLessThanWellFounded
<1>2. \A x, y \in Nat : x < y => <<x, y>> \in R
  BY DEF OpToRel
<1> HIDE DEF R
<1>3. PICK x \in S : \A y \in S : ~(<<y, x>> \in R)
  BY <1>1, WFMin, Zenon
<1>4. \A y \in S : ~(y < x)
  BY <1>2, <1>3
<1>5. QED
  BY <1>4

(* What holds of 0, and of n + 1 when of n, holds of every natural         *)
(* number; what holds is a set here.                                       *)
LEMMA Induction ==
  ASSUME NEW S, 0 \in S, \A n \in Nat : n \in S => n + 1 \in S
  PROVE  Nat \subseteq S
<1> DEFINE C == {n \in Nat : n \notin S}
<1>1. SUFFICES ASSUME C # {} PROVE FALSE
  OBVIOUS
<1>2. PICK x \in C : \A y \in C : x <= y
  BY <1>1, Minimum
<1>3. x # 0 /\ x - 1 \in Nat
  BY <1>2
<1>4. x - 1 \in S
  BY <1>2, <1>3
<1>5. QED
  BY <1>2, <1>3, <1>4

-----------------------------------------------------------------------------
(* f is the state of the filter after each of the first m arguments.       *)
Filters(f, valid, extra, args, m) ==
  f = [n \in 0..m |-> IF n = 0 THEN [kept |-> <<>>, skip |-> ~extra]
                      ELSE FilterStep(valid, extra, f[n - 1], args[n])]

(* There is such a function: the filter is defined.                        *)
LEMMA FilterExists ==
  ASSUME NEW valid, NEW extra, NEW args, NEW m \in Nat
  PROVE  \E f : Filters(f, valid, extra, args, m)
<1> DEFINE S == {i \in Nat : \E f : Filters(f, valid, extra, args, i)}
           first == [kept |-> <<>>, skip |-> ~extra]
           step(state, n) == FilterStep(valid, extra, state, args[n])
<1>1. 0 \in S
  <2>1. Filters([n \in 0..0 |-> first], valid, extra, args, 0)
    BY DEF Filters
  <2>2. QED BY <2>1
<1>2. ASSUME NEW i \in Nat, i \in S PROVE i + 1 \in S
  <2>1. PICK f : Filters(f, valid, extra, args, i)
    BY <1>2
  <2> DEFINE l == [n \in 0..i + 1 |-> IF n <= i THEN f[n] ELSE step(f[i], n)]
             r == [n \in 0..i + 1 |-> IF n = 0 THEN first ELSE step(l[n - 1], n)]
  <2> HIDE DEF first, step
  <2>f. f = [n \in 0..i |-> IF n = 0 THEN first ELSE step(f[n - 1], n)]
    BY <2>1 DEF Filters, first, step
  <2>2. ASSUME NEW n \in 0..i + 1 PROVE l[n] = r[n]
    <3>1. CASE n = 0
      BY <2>f, <3>1
    <3>2. CASE n # 0 /\ n <= i
      <4>1. n - 1 \in 0..i /\ n - 1 <= i /\ n \in 0..i /\ n - 1 \in 0..i + 1
        BY <3>2
      <4>2. f[n] = step(f[n - 1], n)
        BY <2>f, <3>2, <4>1
      <4>3. l[n - 1] = f[n - 1] /\ l[n] = f[n]
        BY <4>1, <3>2
      <4>4. QED
        BY <4>2, <4>3, <3>2
    <3>3. CASE n = i + 1
      <4>1. l[n - 1] = f[i] /\ n - 1 = i /\ ~(n <= i) /\ n # 0
        BY <3>3
      <4>2. QED
        BY <4>1
    <3>4. QED
      BY <3>1, <3>2, <3>3
  <2>3. l = r
    <3> HIDE DEF l, r
    <3>1. l = [n \in 0..i + 1 |-> l[n]] /\ r = [n \in 0..i + 1 |-> r[n]]
      BY DEF l, r
    <3>2. QED
      BY <3>1, <2>2, Zenon
  <2>4. Filters(l, valid, extra, args, i + 1)
    BY <2>3 DEF Filters, first, step
  <2> HIDE DEF l, r
  <2>5. \E g : Filters(g, valid, extra, args, i + 1)
    BY <2>4
  <2>6. QED
    BY <2>5
<1> HIDE DEF S
<1>3. m \in S
  BY <1>1, <1>2, Induction
<1>4. QED
  BY <1>3 DEF S

(* The arguments that are values on their own or have a valid flag.        *)
Valid(valid, args) ==
  {a \in {args[i] : i \in 1..Len(args)} : a.flag = NoFlag \/ a.flag \in valid}

(* The filter lets through arguments only, and no flag that is not valid.  *)
LEMMA FilterKeepsValid ==
  ASSUME NEW valid, NEW extra, NEW args, Len(args) \in Nat
  PROVE  FilterArguments(valid, extra, args) \in Seq(Valid(valid, args))
<1> DEFINE Kept == Valid(valid, args)
           f == CHOOSE g : Filters(g, valid, extra, args, Len(args))
           S == {i \in Nat : i <= Len(args) => f[i].kept \in Seq(Kept)}
<1>1. Filters(f, valid, extra, args, Len(args))
  BY FilterExists
<1>2. FilterArguments(valid, extra, args) = f[Len(args)].kept
  BY DEF FilterArguments, Filters
<1> HIDE DEF f
<1>3. 0 \in S
  BY <1>1 DEF Filters
<1>4. ASSUME NEW i \in Nat, i \in S PROVE i + 1 \in S
  <2> SUFFICES ASSUME i + 1 <= Len(args) PROVE f[i + 1].kept \in Seq(Kept)
    OBVIOUS
  <2> DEFINE a == args[i + 1]
  <2>1. f[i].kept \in Seq(Kept)
    BY <1>4
  <2>2. a.flag = NoFlag \/ a.flag \in valid => a \in Kept
    BY DEF Valid
  <2> HIDE DEF Kept
  <2>3. f[i + 1] = FilterStep(valid, extra, f[i], a)
    <3>1. i + 1 \in 0..Len(args) /\ i + 1 # 0 /\ i + 1 - 1 = i
      OBVIOUS
    <3>2. QED
      BY <1>1, <3>1 DEF Filters
  <2> HIDE DEF a
  <2>4. CASE a.flag = NoFlag
    <3>1. f[i + 1].kept = IF f[i].skip THEN f[i].kept ELSE Append(f[i].kept, a)
      BY <2>3, <2>4 DEF FilterStep
    <3>2. Append(f[i].kept, a) \in Seq(Kept)
      BY <2>1, <2>2, <2>4
    <3>3. QED
      BY <2>1, <3>1, <3>2
  <2>5. CASE a.flag # NoFlag /\ a.flag \in valid
    <3>1. f[i + 1].kept = Append(f[i].kept, a)
      BY <2>3, <2>5 DEF FilterStep
    <3>2. QED
      BY <2>1, <2>2, <2>5, <3>1
  <2>6. CASE a.flag # NoFlag /\ a.flag \notin valid
    <3>1. f[i + 1] = [f[i] EXCEPT !.skip = IF extra THEN @ ELSE a.value = <<>>]
      BY <2>3, <2>6 DEF FilterStep
    <3>2. f[i + 1].kept = f[i].kept
      BY <3>1
    <3>3. QED
      BY <2>1, <3>2
  <2>7. QED
    BY <2>4, <2>5, <2>6
<1>5. Len(args) \in S
  <2> HIDE DEF S
  <2>1. QED BY <1>3, <1>4, Induction
<1>6. QED
  BY <1>2, <1>5

-----------------------------------------------------------------------------
(* t is the table after each of the first m manuals.                       *)
Tables(t, m) ==
  t = [v \in 0..m |-> IF v = 0 THEN <<>> ELSE MergeManual(t[v - 1], v)]

(* There is such a function: the table is defined.                         *)
LEMMA TableExists ==
  ASSUME NEW m \in Nat
  PROVE  \E t : Tables(t, m)
<1> DEFINE S == {i \in Nat : \E t : Tables(t, i)}
<1>1. 0 \in S
  <2>1. Tables([n \in 0..0 |-> <<>>], 0)
    BY DEF Tables
  <2>2. QED BY <2>1
<1>2. ASSUME NEW i \in Nat, i \in S PROVE i + 1 \in S
  <2>1. PICK t : Tables(t, i)
    BY <1>2
  <2> DEFINE l == [n \in 0..i + 1 |-> IF n <= i THEN t[n] ELSE MergeManual(t[i], n)]
             r == [n \in 0..i + 1 |-> IF n = 0 THEN <<>> ELSE MergeManual(l[n - 1], n)]
  <2>2. ASSUME NEW n \in 0..i + 1 PROVE l[n] = r[n]
    <3>1. CASE n = 0
      BY <2>1, <3>1 DEF Tables
    <3>2. CASE n # 0 /\ n <= i
      <4>1. n - 1 \in 0..i /\ n - 1 <= i /\ n \in 0..i /\ n - 1 \in 0..i + 1
        BY <3>2
      <4>2. t[n] = MergeManual(t[n - 1], n)
        BY <2>1, <3>2, <4>1 DEF Tables
      <4>3. l[n - 1] = t[n - 1] /\ l[n] = t[n]
        BY <4>1, <3>2
      <4>4. QED
        BY <4>2, <4>3, <3>2
    <3>3. CASE n = i + 1
      <4>1. l[n - 1] = t[i] /\ n - 1 = i /\ ~(n <= i) /\ n # 0
        BY <3>3
      <4>2. QED
        BY <4>1
    <3>4. QED
      BY <3>1, <3>2, <3>3
  <2>3. l = r
    <3> HIDE DEF l, r
    <3>1. l = [n \in 0..i + 1 |-> l[n]] /\ r = [n \in 0..i + 1 |-> r[n]]
      BY DEF l, r
    <3>2. QED
      BY <3>1, <2>2, Zenon
  <2>4. Tables(l, i + 1)
    BY <2>3 DEF Tables
  <2> HIDE DEF l, r
  <2>5. \E g : Tables(g, i + 1)
    BY <2>4
  <2>6. QED
    BY <2>5
<1> HIDE DEF S
<1>3. m \in S
  BY <1>1, <1>2, Induction
<1>4. QED
  BY <1>3 DEF S

(* A manual up to v has the command, or the flag for it.                   *)
HasCommand(c, v) == \E m \in 1..v : c \in DOMAIN Manuals[m]
HasFlag(c, v, o) == \E m \in 1..v : c \in DOMAIN Manuals[m] /\ o \in Manuals[m][c]

(* The entry of a command in the table after v manuals: it is there since  *)
(* some version, and each of its flags since the first one whose manual    *)
(* has it.                                                                 *)
EntryOf(c, entry, v) ==
  /\ entry.span.removed = 0
  /\ entry.span.from \in 0..v
  /\ \A o : o \in DOMAIN entry.options <=> HasFlag(c, v, o)
  /\ \A o \in DOMAIN entry.options :
       /\ entry.options[o].from \in 0..v
       /\ entry.span.from <= entry.options[o].from
       /\ \A w \in 1..v : entry.options[o].from <= w <=> HasFlag(c, w, o)
Shows(table, c, v) ==
  /\ c \in DOMAIN table <=> HasCommand(c, v)
  /\ c \in DOMAIN table => /\ EntryOf(c, table[c], v)
                          /\ table[c] = [span |-> table[c].span, options |-> table[c].options]

(* There are finitely many manuals.                                        *)
LEMMA ManualsCount == Len(Manuals) \in Nat
BY ManualsAssumption

(* What a manual more changes of that.                                     *)
LEMMA FlagsGrow ==
  ASSUME NEW c, NEW o, NEW v \in Nat
  PROVE  /\ HasFlag(c, v + 1, o) <=>
              HasFlag(c, v, o) \/ (c \in DOMAIN Manuals[v + 1] /\ o \in Manuals[v + 1][c])
         /\ HasCommand(c, v + 1) <=> HasCommand(c, v) \/ c \in DOMAIN Manuals[v + 1]
         /\ HasFlag(c, v, o) => HasCommand(c, v)
         /\ \A w \in 0..v : HasFlag(c, w, o) => HasFlag(c, v, o)
<1>1. \A m : m \in 1..v + 1 <=> m \in 1..v \/ m = v + 1
  OBVIOUS
<1>2. \A w \in 0..v : 1..w \subseteq 1..v
  OBVIOUS
<1>3. QED
  BY <1>1, <1>2, Zenon DEF HasFlag, HasCommand

(* The entry that a manual gives to a command that had no flags before.    *)
LEMMA NewEntry ==
  ASSUME NEW c, NEW v \in Nat, c \in DOMAIN Manuals[v + 1],
         \A o : ~HasFlag(c, v, o)
  PROVE  EntryOf(c, ParseManual(Manuals[v + 1], v + 1)[c], v + 1)
<1> DEFINE entry == ParseManual(Manuals[v + 1], v + 1)[c]
<1>1. entry = [span |-> Since(v + 1), options |-> [o \in Manuals[v + 1][c] |-> Since(v + 1)]]
  BY DEF ParseManual
<1>2. Since(v + 1).from = v + 1 /\ Since(v + 1).removed = 0
  BY DEF Since
<1>3. entry.span = Since(v + 1) /\ DOMAIN entry.options = Manuals[v + 1][c]
  BY <1>1
<1>4. \A o \in DOMAIN entry.options : entry.options[o] = Since(v + 1)
  BY <1>1
<1> HIDE DEF entry
<1>5. \A o : HasFlag(c, v + 1, o) <=> o \in Manuals[v + 1][c]
  BY FlagsGrow
<1>6. ASSUME NEW o \in DOMAIN entry.options, NEW w \in 1..v + 1
      PROVE  v + 1 <= w <=> HasFlag(c, w, o)
  <2>1. CASE w = v + 1
    BY <2>1, <1>3, <1>5
  <2>2. CASE w # v + 1
    <3>1. w \in 0..v /\ ~(v + 1 <= w)
      BY <2>2
    <3>2. ~HasFlag(c, w, o)
      BY <3>1, FlagsGrow
    <3>3. QED
      BY <3>1, <3>2
  <2>3. QED
    BY <2>1, <2>2
<1>7. QED
  BY <1>2, <1>3, <1>4, <1>5, <1>6 DEF entry, EntryOf

(* The entry of a command that is in the next manual as well.              *)
LEMMA MergedEntry ==
  ASSUME NEW c, NEW v \in Nat, c \in DOMAIN Manuals[v + 1],
         NEW entry, EntryOf(c, entry, v),
         NEW span, NEW options, entry = [span |-> span, options |-> options],
         NEW source, source = ParseManual(Manuals[v + 1], v + 1)
  PROVE  EntryOf(c, [entry EXCEPT !.options = MergeOptions(@, source[c].options, v + 1)], v + 1)
<1> DEFINE given == source[c].options
           merged == MergeOptions(options, given, v + 1)
           result == [entry EXCEPT !.options = MergeOptions(@, given, v + 1)]
<1>1. DOMAIN given = Manuals[v + 1][c] /\ \A o \in DOMAIN given : given[o].from = v + 1
  BY DEF ParseManual, Since
<1>2. result = [span |-> span, options |-> merged]
  OBVIOUS
<1> HIDE DEF given, result
<1>3. DOMAIN merged = DOMAIN options \cup DOMAIN given
  BY DEF MergeOptions
<1>4. ASSUME NEW o \in DOMAIN options PROVE merged[o].from = options[o].from
  <2>1. merged[o] = options[o] \/ merged[o] = Gone(options[o], v + 1)
    BY DEF MergeOptions
  <2>2. Gone(options[o], v + 1).from = options[o].from
    BY DEF Gone
  <2>3. QED
    BY <2>1, <2>2
<1>5. ASSUME NEW o \in DOMAIN given, o \notin DOMAIN options PROVE merged[o].from = v + 1
  BY <1>1, <1>5 DEF MergeOptions
<1> HIDE DEF merged
<1>6. \A o : o \in DOMAIN merged <=> HasFlag(c, v + 1, o)
  BY <1>1, <1>3, FlagsGrow DEF EntryOf
<1>7. ASSUME NEW o \in DOMAIN merged
      PROVE  /\ merged[o].from \in 0..v + 1
             /\ span.from <= merged[o].from
             /\ \A w \in 1..v + 1 : merged[o].from <= w <=> HasFlag(c, w, o)
  <2>1. CASE o \in DOMAIN options
    <3>1. /\ merged[o].from \in 0..v /\ span.from <= merged[o].from
          /\ \A w \in 1..v : merged[o].from <= w <=> HasFlag(c, w, o)
      BY <1>4, <2>1 DEF EntryOf
    <3>2. HasFlag(c, v + 1, o)
      BY <1>6
    <3>3. \A w \in 1..v + 1 : w \in 1..v \/ w = v + 1
      OBVIOUS
    <3>4. merged[o].from <= v + 1 /\ merged[o].from \in 0..v + 1
      BY <3>1
    <3>5. QED
      BY <3>1, <3>2, <3>3, <3>4
  <2>2. CASE o \notin DOMAIN options
    <3>1. merged[o].from = v + 1
      BY <1>3, <1>5, <2>2
    <3>2. ~HasFlag(c, v, o) /\ HasFlag(c, v + 1, o)
      BY <2>2, <1>6 DEF EntryOf
    <3>3. span.from \in 0..v
      BY DEF EntryOf
    <3>4. ASSUME NEW w \in 1..v + 1 PROVE v + 1 <= w <=> HasFlag(c, w, o)
      <4>1. CASE w = v + 1
        BY <3>2, <4>1
      <4>2. CASE w # v + 1
        <5>1. w \in 0..v /\ ~(v + 1 <= w)
          BY <4>2
        <5>2. QED
          BY <3>2, <5>1, FlagsGrow
      <4>3. QED
        BY <4>1, <4>2
    <3>5. QED
      BY <3>1, <3>3, <3>4
  <2>3. QED
    BY <2>1, <2>2
<1>8. result.span = span /\ result.options = merged
  BY <1>2
<1>9. span.removed = 0 /\ span.from \in 0..v + 1
  BY DEF EntryOf
<1>10. QED
  BY <1>6, <1>7, <1>8, <1>9 DEF EntryOf, result, given

(* The manual of the base version: nothing in it is said to begin there.   *)
LEMMA BaseTable ==
  ASSUME NEW c
  PROVE  Shows(MergeManual(<<>>, 1), c, 1)
<1> DEFINE source == ParseManual(Manuals[1], 1)
           merged == MergeCommands(source, <<>>, 1)
           table == MergeManual(<<>>, 1)
           start == [from |-> 0, removed |-> 0]
<1>1. DOMAIN source = DOMAIN Manuals[1]
  BY DEF ParseManual
<1>2. \A o : HasFlag(c, 1, o) <=> c \in DOMAIN Manuals[1] /\ o \in Manuals[1][c]
  BY DEF HasFlag
<1>3. HasCommand(c, 1) <=> c \in DOMAIN Manuals[1]
  BY DEF HasCommand
<1>4. FromTheStart(Since(1), 1) = start
  BY DEF FromTheStart, Since, IncludedInVersion
<1>5. c \in DOMAIN source =>
        source[c] = [span |-> Since(1), options |-> [o \in Manuals[1][c] |-> Since(1)]]
  BY DEF ParseManual
<1> HIDE DEF source, start
<1>6. DOMAIN merged = DOMAIN source /\ \A name \in DOMAIN source : merged[name] = source[name]
  BY DEF MergeCommands
<1>7. table = ForgetBase(merged, 1)
  BY DEF MergeManual, source
<1> HIDE DEF merged, table
<1>8. DOMAIN table = DOMAIN merged
  BY <1>7 DEF ForgetBase
<1>9. ASSUME c \in DOMAIN table
      PROVE  table[c] = [span |-> start, options |-> [o \in Manuals[1][c] |-> start]]
  <2>1. table[c] = [span |-> FromTheStart(merged[c].span, 1),
                    options |-> [o \in DOMAIN merged[c].options |->
                                   FromTheStart(merged[c].options[o], 1)]]
    BY <1>7, <1>8, <1>9 DEF ForgetBase
  <2>2. merged[c] = [span |-> Since(1), options |-> [o \in Manuals[1][c] |-> Since(1)]]
    BY <1>5, <1>6, <1>8, <1>9
  <2>3. merged[c].span = Since(1) /\ merged[c].options = [o \in Manuals[1][c] |-> Since(1)]
    BY <2>2
  <2>4. [o \in DOMAIN merged[c].options |-> FromTheStart(merged[c].options[o], 1)]
          = [o \in Manuals[1][c] |-> start]
    BY <2>3, <1>4
  <2>5. QED
    BY <2>1, <2>3, <2>4, <1>4
<1>10. ASSUME c \in DOMAIN table PROVE EntryOf(c, table[c], 1)
  <2>1. table[c].span = start /\ DOMAIN table[c].options = Manuals[1][c]
    BY <1>9, <1>10
  <2>2. \A o \in DOMAIN table[c].options : table[c].options[o] = start
    BY <1>9, <1>10
  <2>3. c \in DOMAIN Manuals[1]
    BY <1>1, <1>6, <1>8, <1>10
  <2>4. start.from = 0 /\ start.removed = 0
    BY DEF start
  <2>5. \A o \in DOMAIN table[c].options : \A w \in 1..1 : 0 <= w <=> HasFlag(c, w, o)
    BY <1>2, <2>1, <2>3
  <2>6. QED
    BY <2>1, <2>2, <2>3, <2>4, <2>5, <1>2 DEF EntryOf
<1>11. c \in DOMAIN table => table[c] = [span |-> table[c].span, options |-> table[c].options]
  BY <1>9
<1>12. QED
  BY <1>1, <1>3, <1>6, <1>8, <1>10, <1>11 DEF Shows, table

(* Every other manual.                                                     *)
LEMMA TableGrows ==
  ASSUME NEW c \in ResticCommand,
         NEW v \in Nat, v # 0, v + 1 <= Len(Manuals),
         NEW table, Shows(table, c, v)
  PROVE  Shows(MergeManual(table, v + 1), c, v + 1)
<1> DEFINE source == ParseManual(Manuals[v + 1], v + 1)
           merged == MergeCommands(source, table, v + 1)
<1>1. MergeManual(table, v + 1) = merged
  BY DEF MergeManual
<1>2. DOMAIN source = DOMAIN Manuals[v + 1]
  BY DEF ParseManual
<1>3. DOMAIN merged = DOMAIN table \cup DOMAIN source
  BY DEF MergeCommands
<1>4. c \in DOMAIN merged <=> HasCommand(c, v + 1)
  BY <1>2, <1>3, FlagsGrow DEF Shows
<1>5. c \in DOMAIN source =>
        source[c] = [span |-> source[c].span, options |-> source[c].options]
  BY DEF ParseManual
<1>6. ASSUME c \in DOMAIN merged, c \notin DOMAIN table
      PROVE  EntryOf(c, merged[c], v + 1) /\ merged[c] = source[c] /\ c \in DOMAIN source
  <2>1. c \in DOMAIN source
    BY <1>3, <1>6
  <2>2. merged[c] = source[c]
    BY <1>6 DEF MergeCommands
  <2>3. \A o : ~HasFlag(c, v, o)
    BY <1>6, FlagsGrow DEF Shows
  <2>4. EntryOf(c, source[c], v + 1)
    BY <1>2, <2>1, <2>3, NewEntry
  <2>5. QED
    BY <2>1, <2>2, <2>4
<1>7. ASSUME c \in DOMAIN table
      PROVE  /\ EntryOf(c, merged[c], v + 1)
             /\ merged[c] = [span |-> merged[c].span, options |-> merged[c].options]
  <2>1. EntryOf(c, table[c], v) /\ HasCommand(c, v)
    BY <1>7 DEF Shows
  <2>2. c \in DOMAIN Manuals[v + 1]
    <3>1. PICK m \in 1..v : c \in DOMAIN Manuals[m]
      BY <2>1 DEF HasCommand
    <3>2. m \in DOMAIN Manuals /\ v + 1 \in DOMAIN Manuals /\ m <= v + 1
      <4>1. DOMAIN Manuals = 1..Len(Manuals) /\ Len(Manuals) \in Nat
        BY ManualsAssumption
      <4>2. QED
        BY <4>1
    <3>3. QED
      BY <3>1, <3>2, CommandsAssumption DEF ResticCommand
  <2>3. merged[c] = MergeCommand(table[c], c, source, v + 1)
    BY <1>7 DEF MergeCommands
  <2> HIDE DEF source, merged
  <2>4. CASE DOMAIN table[c].options = {}
    <3>1. merged[c] = source[c]
      BY <1>2, <2>2, <2>3, <2>4 DEF MergeCommand
    <3>2. \A o : ~HasFlag(c, v, o)
      BY <2>1, <2>4 DEF EntryOf
    <3>3. EntryOf(c, source[c], v + 1)
      BY <2>2, <3>2, NewEntry DEF source
    <3>4. QED
      BY <1>2, <1>5, <2>2, <3>1, <3>3
  <2>5. CASE DOMAIN table[c].options # {}
    <3>1. merged[c] = [table[c] EXCEPT !.options = MergeOptions(@, source[c].options, v + 1)]
      BY <1>2, <2>2, <2>3, <2>5 DEF MergeCommand
    <3>2. table[c] = [span |-> table[c].span, options |-> table[c].options]
      BY <1>7 DEF Shows
    <3>3. EntryOf(c, merged[c], v + 1)
      BY <2>1, <2>2, <3>1, <3>2, MergedEntry DEF source
    <3>4. merged[c] = [span |-> table[c].span,
                       options |-> MergeOptions(table[c].options, source[c].options, v + 1)]
      BY <3>1, <3>2
    <3>5. QED
      BY <3>3, <3>4
  <2>6. QED
    BY <2>4, <2>5
<1> HIDE DEF merged, source
<1>8. QED
  BY <1>1, <1>4, <1>5, <1>6, <1>7 DEF Shows

(* The table shows of each command what the manuals have.                  *)
LEMMA TableShows ==
  ASSUME NEW c \in ResticCommand
  PROVE  Shows(Commands, c, Len(Manuals))
<1> DEFINE t == CHOOSE f : Tables(f, Len(Manuals))
           S == {i \in Nat : i <= Len(Manuals) => Shows(t[i], c, i)}
<1>1. Tables(t, Len(Manuals))
  BY ManualsCount, TableExists
<1>2. Commands = t[Len(Manuals)]
  BY DEF Commands, Tables
<1> HIDE DEF t
<1>3. t[0] = <<>>
  BY <1>1, ManualsCount DEF Tables
<1>4. Shows(t[0], c, 0)
  <2>1. DOMAIN t[0] = {} /\ ~HasCommand(c, 0)
    BY <1>3 DEF HasCommand
  <2>2. QED
    BY <2>1 DEF Shows
<1>5. ASSUME NEW i \in Nat, i \in S PROVE i + 1 \in S
  <2> SUFFICES ASSUME i + 1 <= Len(Manuals) PROVE Shows(t[i + 1], c, i + 1)
    OBVIOUS
  <2>1. Shows(t[i], c, i)
    BY <1>5, ManualsCount
  <2>2. t[i + 1] = MergeManual(t[i], i + 1)
    <3>1. i + 1 \in 0..Len(Manuals) /\ i + 1 # 0 /\ i + 1 - 1 = i
      BY ManualsCount
    <3>2. QED
      BY <1>1, <3>1 DEF Tables
  <2>3. CASE i = 0
    BY <1>3, <2>2, <2>3, BaseTable
  <2>4. CASE i # 0
    BY <2>1, <2>2, <2>4, TableGrows
  <2>5. QED
    BY <2>3, <2>4
<1>6. Len(Manuals) \in S
  <2>1. 0 \in S
    BY <1>4
  <2> HIDE DEF S
  <2>2. QED
    BY <2>1, <1>5, Induction, ManualsCount
<1>7. QED
  BY <1>2, <1>6, ManualsCount

(* The flags that the filter lets through for a command are those that a   *)
(* manual has, of this version of restic or of one before it.              *)
LEMMA ValidAsInManuals ==
  ASSUME NEW c \in ResticCommand, NEW v \in 0..Len(Manuals), NEW f
  PROVE  f \in ValidArguments(c, v) <=> InManual(c, v, f)
<1> DEFINE last == IF v = 0 THEN Len(Manuals) ELSE v
<1>1. /\ last \in 0..Len(Manuals) /\ Len(Manuals) \in Nat
      /\ v # 0 => v = last /\ v \in 1..Len(Manuals)
  BY ManualsCount
<1>2. ASSUME NEW d \in ResticCommand PROVE f \in OptionsOf(d, v) <=> HasFlag(d, last, f)
  <2>1. Shows(Commands, d, Len(Manuals))
    BY TableShows
  <2>2. HasFlag(d, last, f) => HasFlag(d, Len(Manuals), f)
    BY <1>1, FlagsGrow
  <2>3. CASE d \notin DOMAIN Commands
    <3>1. f \notin OptionsOf(d, v)
      BY <2>3 DEF OptionsOf, GetCommandForVersion
    <3>2. ~HasFlag(d, Len(Manuals), f)
      BY <1>1, <2>1, <2>3, FlagsGrow DEF Shows
    <3>3. QED
      BY <2>2, <3>1, <3>2
  <2>4. CASE d \in DOMAIN Commands
    <3> DEFINE entry == Commands[d]
    <3>1. EntryOf(d, entry, Len(Manuals))
      BY <2>1, <2>4 DEF Shows
    <3>2. f \in OptionsOf(d, v) <=>
            /\ IncludedInVersion(entry.span, FALSE, v)
            /\ f \in DOMAIN entry.options
            /\ IncludedInVersion(entry.options[f], TRUE, v)
      BY <2>4 DEF OptionsOf, GetCommandForVersion
    <3> HIDE DEF entry
    <3>3. entry.span.removed = 0 /\ entry.span.from \in Nat
      BY <1>1, <3>1 DEF EntryOf
    <3>4. CASE v = 0
      BY <3>1, <3>2, <3>4 DEF EntryOf, IncludedInVersion
    <3>5. CASE v # 0
      <4>1. f \in OptionsOf(d, v) <=>
              /\ entry.span.from <= v
              /\ f \in DOMAIN entry.options
              /\ entry.options[f].from <= v
        BY <3>2, <3>3, <3>5 DEF IncludedInVersion
      <4>2. CASE f \in DOMAIN entry.options
        <5>1. /\ entry.options[f].from \in 0..Len(Manuals)
              /\ entry.span.from <= entry.options[f].from
              /\ entry.options[f].from <= v <=> HasFlag(d, v, f)
          BY <1>1, <3>1, <3>5, <4>2 DEF EntryOf
        <5>2. QED
          BY <1>1, <3>3, <3>5, <4>1, <4>2, <5>1
      <4>3. CASE f \notin DOMAIN entry.options
        <5>1. ~HasFlag(d, Len(Manuals), f)
          BY <3>1, <4>3 DEF EntryOf
        <5>2. QED
          BY <2>2, <4>1, <4>3, <5>1
      <4>4. QED
        BY <4>2, <4>3
    <3>6. QED
      BY <3>4, <3>5
  <2>5. QED
    BY <2>3, <2>4
<1>3. DefaultCommand \in ResticCommand
  BY DEF ResticCommand
<1>4. InManual(c, v, f) <=> HasFlag(c, last, f) \/ HasFlag(DefaultCommand, last, f)
  BY Zenon DEF InManual, HasFlag
<1> HIDE DEF last
<1>5. QED
  BY <1>2, <1>3, <1>4 DEF ValidArguments

(* The command line of restic is the one that is prepared for one of its   *)
(* commands, with the flags of the profile that is open.                   *)
Prepared ==
  /\ line.for \in Runs
  /\ \E extra \in BOOLEAN :
       line = PrepareCommand(profile, line.for, world.resticVersion, ExtraArgs, extra)
LineInv ==
  /\ world \in Worlds
  /\ after # "ran"
  /\ place = "ran" => Prepared

(* No step takes that away: it is prepared again before restic runs.       *)
LEMMA LineStep == LineInv /\ [ConfigNext]_configVars => LineInv'
<1> SUFFICES ASSUME LineInv, [ConfigNext]_configVars PROVE LineInv'
  OBVIOUS
<1>1. CASE UNCHANGED configVars
  BY <1>1 DEF LineInv, Prepared, configVars, run, opened, putting
<1>2. ASSUME RunRestic PROVE LineInv'
  <2>1. PICK what \in Runs, extra \in BOOLEAN :
          line' = PrepareCommand(profile, what, world.resticVersion, ExtraArgs, extra)
    BY <1>2 DEF RunRestic
  <2>2. line'.for = what
    BY <2>1 DEF PrepareCommand
  <2>3. UNCHANGED <<world, profile, after>>
    BY <1>2 DEF RunRestic, opened, putting
  <2>4. QED
    BY <2>1, <2>2, <2>3 DEF LineInv, Prepared
<1>3. ASSUME ConfigNext, ~RunRestic PROVE world' = world /\ after' # "ran" /\ place' # "ran"
  <2>1. ASSUME NEW name, NEW includes, NEW then, then # "ran",
               ReloadTemplates(name, includes, then)
        PROVE  after' # "ran" /\ place' # "ran"
    BY <2>1 DEF ReloadTemplates, Fail, LineInv, ApplyMatchingMixinsOnce
  <2>2. ASSUME NEW name, MixinsOf(name, "joined") PROVE after' # "ran" /\ place' # "ran"
    BY <2>2 DEF MixinsOf, ApplyMatchingMixinsOnce, LineInv
  <2>3. CASE LoadMain
    BY <2>1, <2>3 DEF LoadMain
  <2>4. CASE AddInclude
    BY <2>4 DEF AddInclude, LineInv, putting
  <2>5. CASE RefuseInclude
    BY <2>5 DEF RefuseInclude, LineInv, Fail
  <2>6. CASE LoadIncludes
    BY <2>1, <2>6 DEF LoadIncludes, LineInv
  <2>7. CASE ApplyUses
    BY <2>7 DEF ApplyUses, ApplyUse, Fail, LineInv
  <2>8. CASE OpenProfile
    BY <2>1, <2>8 DEF OpenProfile, GetProfile
  <2>9. CASE NotFound
    BY <2>9 DEF NotFound, Fail, LineInv
  <2>10. CASE InheritFirst
    BY <2>10 DEF InheritFirst, LineInv
  <2>11. CASE StartWithoutParent
    BY <2>2, <2>11 DEF StartWithoutParent
  <2>12. CASE JoinParent
    <3>1. world' = world /\ \E name : MixinsOf(name, "joined")
      BY <2>12 DEF JoinParent
    <3>2. QED
      BY <2>2, <3>1
  <2>13. CASE DecodeProfile
    BY <2>13 DEF DecodeProfile, LineInv
  <2>14. CASE ResolveSection
    BY <2>14 DEF ResolveSection, LineInv, putting
  <2>15. CASE ResolveFlags
    BY <2>15 DEF ResolveFlags, LineInv, putting
  <2>16. CASE ChangeDir
    BY <2>1, <2>16 DEF ChangeDir, GetProfile
  <2>17. CASE TellHost
    BY <2>17 DEF TellHost, LineInv, putting
  <2>18. CASE CloseProfile
    BY <2>18 DEF CloseProfile, LineInv, putting
  <2>19. QED
    BY <1>3, <2>3, <2>4, <2>5, <2>6, <2>7, <2>8, <2>9, <2>10, <2>11, <2>12, <2>13, <2>14,
       <2>15, <2>16, <2>17, <2>18 DEF ConfigNext
<1>4. QED
  BY <1>1, <1>2, <1>3 DEF LineInv

(* The arguments of backup without a flag: what is to be backed up.        *)
BackupSources(p) ==
  [i \in DOMAIN GetBackupSource(p) |-> [flag |-> NoFlag, value |-> GetBackupSource(p)[i]]]

(* A flag on the command line is one that a manual has.                    *)
LEMMA KnownFlags == LineInv /\ SourcesListed => OnlyKnownFlags
<1> SUFFICES ASSUME LineInv, SourcesListed, place = "ran" PROVE OnlyKnownFlags
  BY DEF OnlyKnownFlags
<1>1. PICK what \in Runs, extra \in BOOLEAN :
        /\ line.for = what
        /\ line = PrepareCommand(profile, what, world.resticVersion, ExtraArgs, extra)
  BY DEF LineInv, Prepared
<1> DEFINE v == world.resticVersion
           c == CommandOf(what)
           valid == ValidArguments(c, v)
           flags == GetCommandFlags(profile, what, v)
           sources == IF what = "backup" THEN BackupSources(profile) ELSE <<>>
           user == FilterArguments(valid, extra, ExtraArgs)
<1>2. v \in 0..Len(Manuals) /\ c \in ResticCommand
  BY WorldAssumption DEF LineInv, ResticCommand
<1>3. /\ line.command = c
      /\ DOMAIN line.flags = DOMAIN flags \cap valid
      /\ line.more = FilterArguments(valid, TRUE, user \o sources)
  <2> DEFINE prepared == PrepareCommand(profile, what, v, ExtraArgs, extra)
  <2>1. /\ prepared.command = c
        /\ DOMAIN prepared.flags = DOMAIN flags \cap valid
        /\ prepared.more = FilterArguments(valid, TRUE, user \o sources)
    BY DEF PrepareCommand, BackupSources
  <2>2. line = prepared
    BY <1>1
  <2> HIDE DEF prepared, c, flags, valid, user, sources
  <2>3. QED
    BY <2>1, <2>2
<1> HIDE DEF c, flags
<1>4. \A f : f \in valid <=> InManual(c, v, f)
  BY <1>2, ValidAsInManuals
<1> HIDE DEF valid
<1>5. \E T : sources \in Seq(T)
  <2>1. PICK n \in Nat : DOMAIN UnresolvedSource(profile) = 1..n
    BY DEF SourcesListed
  <2>2. DOMAIN GetBackupSource(profile) = 1..n
    BY <2>1 DEF GetBackupSource
  <2>3. CASE what = "backup"
    <3>1. sources = BackupSources(profile) /\ DOMAIN sources = 1..n
      BY <2>2, <2>3 DEF BackupSources
    <3>2. sources = [i \in 1..n |-> sources[i]]
      BY <3>1 DEF BackupSources
    <3> HIDE DEF sources
    <3>3. sources \in Seq({sources[i] : i \in 1..n})
      BY <3>2
    <3>4. QED
      BY <3>3
  <2>4. CASE what # "backup"
    BY <2>4
  <2>5. QED
    BY <2>3, <2>4
<1> HIDE DEF sources
<1>6. \E T : user \in Seq(T)
  <2>1. Len(ExtraArgs) \in Nat
    BY WorldAssumption
  <2>2. QED
    BY <2>1, FilterKeepsValid
<1> HIDE DEF user
<1>7. Len(user \o sources) \in Nat
  <2>1. PICK T : sources \in Seq(T)
    BY <1>5
  <2>2. PICK U : user \in Seq(U)
    BY <1>6
  <2>3. sources \in Seq(T \cup U) /\ user \in Seq(T \cup U)
    BY <2>1, <2>2
  <2>4. QED
    BY <2>3
<1>8. ASSUME NEW i \in DOMAIN line.more
      PROVE  line.more[i].flag = NoFlag \/ line.more[i].flag \in valid
  <2> DEFINE args == user \o sources
             K == Valid(valid, args)
  <2>1. Len(args) \in Nat /\ line.more = FilterArguments(valid, TRUE, args)
    BY <1>3, <1>7
  <2> HIDE DEF args
  <2>2. FilterArguments(valid, TRUE, args) \in Seq(K)
    BY <2>1, FilterKeepsValid
  <2> HIDE DEF K
  <2>3. \A s \in Seq(K) : \A j \in DOMAIN s : s[j] \in K
    OBVIOUS
  <2>4. line.more \in Seq(K)
    BY <2>1, <2>2
  <2>5. line.more[i] \in K
    BY <2>3, <2>4
  <2>6. QED
    BY <2>5 DEF K, Valid
<1>9. QED
  BY <1>1, <1>3, <1>4, <1>8 DEF OnlyKnownFlags, flags

(* Of whatever files, manuals and arguments: restic gets the flags of the  *)
(* profile that its version, or one before it, has in its manual for the   *)
(* command, and no others (restic/commands.go, wrapper.go, config/flag.go). *)
THEOREM FlagsAreKnown == ConfigSpec /\ []SourcesListed => []OnlyKnownFlags
<1>1. ConfigInit => LineInv
  BY DEF ConfigInit, LineInv
<1>2. LineInv /\ SourcesListed => OnlyKnownFlags
  BY KnownFlags
<1>3. QED
  BY <1>1, <1>2, LineStep, PTL DEF ConfigSpec
=============================================================================
