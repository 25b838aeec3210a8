----------------------------- MODULE LogWriter -----------------------------
(***************************************************************************)
(* The deferredFileWriter of logger.go: goroutines write lines to a        *)
(* channel, and one goroutine puts them into a buffer, and the buffer into *)
(* the log file: at each tick, at a flush, and when it is closed.          *)
(*                                                                         *)
(* The channel is one sequence with the lines of the goroutines that wait  *)
(* to send: those behind the first Capacity lines.                         *)
(*                                                                         *)
(* Definitions whose comment begins with "If" are deviations: what a       *)
(* plausible slip would make of the definition they precede.               *)
(***************************************************************************)
EXTENDS Naturals, Sequences

CONSTANTS
  Capacity,   \* of the channel
  DrainMax,   \* how many lines are taken at once at a flush
  KeepOpen,   \* whether the file is kept open, as anywhere but on Windows
  Errors      \* operations that may fail: "open", "write"

VARIABLES
  data,       \* the channel
  buffer,     \* what was received, and is not in the file
  file,       \* what is in the file
  handle,     \* whether the file is open
  lastError,  \* whether the last operation on the file failed
  closed,     \* whether the channels are closed
  crashed     \* whether a goroutine sent on a closed channel: the process is gone

vars == <<data, buffer, file, handle, lastError, closed, crashed>>

\* The file was opened once to see that it can be.
Init ==
  /\ data = <<>> /\ buffer = <<>> /\ file = <<>>
  /\ handle = KeepOpen
  /\ lastError = FALSE
  /\ closed = FALSE /\ crashed = FALSE

Least(m, n) == IF m < n THEN m ELSE n

\* The lines whose senders wait for room in the channel.
Waiting == {data[i] : i \in Capacity + 1 .. Len(data)}

\* If what was not written of a buffer were dropped.
OutcomeDropping(lines, n, opened) ==
  [file |-> file \o SubSeq(lines, 1, n), buffer |-> <<>>,
   handle |-> opened /\ KeepOpen, error |-> ~opened \/ (KeepOpen /\ n < Len(lines))]

\* The first n lines are written.  A file that is closed again after each write
\* reports the error of the close, that of the write is forgotten.
Outcome(lines, n, opened) ==
  [file |-> file \o SubSeq(lines, 1, n),
   buffer |-> SubSeq(lines, n + 1, Len(lines)),
   handle |-> opened /\ KeepOpen,
   error |-> ~opened \/ (KeepOpen /\ n < Len(lines))]

\* What flush may come to.
Flush(lines) ==
  IF lines = <<>>
  THEN {[file |-> file, buffer |-> <<>>, handle |-> handle, error |-> lastError]}
  ELSE {Outcome(lines, n, TRUE) :
          n \in IF "write" \in Errors THEN 0 .. Len(lines) ELSE {Len(lines)}}
       \cup (IF "open" \in Errors /\ ~handle THEN {Outcome(lines, 0, FALSE)} ELSE {})

Becomes(o) ==
  /\ file' = o.file /\ buffer' = o.buffer
  /\ handle' = o.handle /\ lastError' = o.error

-----------------------------------------------------------------------------
(* A goroutine that logs.  Write returns when x is not in Waiting.          *)

Write(x) ==
  /\ IF closed THEN crashed' = TRUE /\ UNCHANGED data
     ELSE data' = Append(data, x) /\ UNCHANGED crashed
  /\ UNCHANGED <<buffer, file, handle, lastError, closed>>

-----------------------------------------------------------------------------
(* The goroutine of the writer                                             *)

\* If the buffer were limited to a line.
ReceiveOne ==
  /\ ~closed
  /\ data # <<>> /\ buffer = <<>>
  /\ buffer' = Append(buffer, Head(data))
  /\ data' = Tail(data)
  /\ UNCHANGED <<file, handle, lastError, closed, crashed>>

Receive ==
  /\ ~closed
  /\ data # <<>>
  /\ buffer' = Append(buffer, Head(data))
  /\ data' = Tail(data)
  /\ UNCHANGED <<file, handle, lastError, closed, crashed>>

Tick ==
  /\ ~closed
  /\ buffer # <<>>
  /\ \E o \in Flush(buffer) : Becomes(o)
  /\ UNCHANGED <<data, closed, crashed>>

\* addPendingData
Pending == SubSeq(data, 1, Least(DrainMax, Len(data)))

\* A request to flush is answered; its caller waits for it.
ServeFlush ==
  /\ ~closed
  /\ \E o \in Flush(buffer \o Pending) : Becomes(o)
  /\ data' = SubSeq(data, Len(Pending) + 1, Len(data))
  /\ UNCHANGED <<closed, crashed>>

\* If what is in the channel were left there.
ServeCloseEarly ==
  /\ ~closed
  /\ closed' = TRUE
  /\ crashed' = (Len(data) > Capacity)
  /\ \E o \in Flush(buffer) : Becomes([o EXCEPT !.handle = FALSE, !.error = o.error /\ ~o.handle])
  /\ UNCHANGED data

\* A request to close: the channels are closed, of which those who wait to send
\* panic; then what is pending is written and the file is closed.
ServeClose ==
  LET taken == SubSeq(Pending, 1, Least(Capacity, Len(Pending))) IN
  /\ ~closed
  /\ closed' = TRUE
  /\ crashed' = (Len(data) > Capacity)
  /\ \E o \in Flush(buffer \o taken) :
       Becomes([o EXCEPT !.handle = FALSE, !.error = o.error /\ ~o.handle])
  /\ data' = SubSeq(data, Len(taken) + 1, Len(data))
=============================================================================
