-------------------------- MODULE CommandRunProofs --------------------------
(***************************************************************************)
(* For any output, any sections of stream-error, any size of the pipes and *)
(* any interrupts: what Run of a command returns, what it leaves running,  *)
(* and how often it runs the command of a section.                         *)
(***************************************************************************)
EXTENDS CommandRun, WellFoundedInduction, TLAPS

Types ==
  /\ main \in {"start", "stdout", "stderr", "callback", "wait", "done"}
  /\ process \in [Process -> {"none", "alive", "ok", "failed"}]

(* The child is there from the start of Run on, the process of a section   *)
(* only while its end is waited for.                                       *)
WhoRuns ==
  /\ main = "start" => process["child"] = "none"
  /\ main \notin {"start", "done"} => process["child"] # "none"
  /\ main # "callback" => process["callback"] # "alive"

(* A pipe that is not made stays empty; one that was read to its end stays *)
(* so, as the child has ended.                                             *)
PipesRead ==
  /\ ~scanning => out = <<>> /\ writing.stream # "out"
  /\ ~piped => errs = <<>> /\ writing.stream # "err"
  /\ main \in {"stderr", "callback", "wait"} => ~scanning \/ AtEnd(out)
  /\ main = "wait" => readErr \/ ~piped \/ AtEnd(errs)

(* What Run returned with.                                                 *)
Returned ==
  /\ scanErr => main = "done" /\ err
  /\ main = "done" /\ process["child"] # "none" =>
       /\ scanErr \/ Ended("child")
       /\ ~err => process["child"] = "ok" /\ out = <<>> /\ errs = <<>>
       /\ err => process["child"] = "failed" \/ scanErr \/ readErr

RunInv == Types /\ WhoRuns /\ PipesRead /\ Returned

LEMMA RunInit ==
  ASSUME Init
  PROVE  RunInv
BY DEF Init, RunInv, Types, WhoRuns, PipesRead, Returned, Process, Nothing

(* The child writes only while it is alive, and only to pipes there are.   *)
LEMMA Writes ==
  ASSUME RunInv, WriteLine \/ LineWritten
  PROVE  RunInv'
<1> USE DEF RunInv
<1>1. /\ process["child"] = "alive"
      /\ UNCHANGED <<scanning, piped, main, process, scanErr, readErr, err>>
  BY DEF WriteLine, LineWritten, results
<1>2. Types' /\ WhoRuns' /\ ~Ended("child")
  BY <1>1 DEF Types, WhoRuns, Ended
<1>3. main \in {"stderr", "callback", "wait"} => ~scanning
  BY <1>2 DEF PipesRead, AtEnd
<1>4. main = "wait" => readErr \/ ~piped
  BY <1>2 DEF PipesRead, AtEnd
<1>5. main = "done" => scanErr /\ err
  BY <1>1, <1>2 DEF Returned
<1>6. Returned'
  BY <1>1, <1>5 DEF Returned
<1>7. CASE WriteLine
  <2>1. UNCHANGED <<out, errs>> /\ \/ scanning /\ writing'.stream = "out"
                                   \/ piped /\ writing'.stream = "err"
    BY <1>7 DEF WriteLine, OutLine, ErrLine
  <2>2. PipesRead'
    BY <1>1, <1>3, <1>4, <2>1 DEF PipesRead
  <2>3. QED
    BY <1>2, <1>6, <2>2
<1>8. CASE LineWritten
  <2>1. /\ writing' = Nothing
        /\ \/ writing.stream = "out" /\ errs' = errs
           \/ writing.stream = "err" /\ out' = out
    BY <1>8 DEF LineWritten
  <2>2. PipesRead'
    BY <1>1, <1>3, <1>4, <2>1 DEF PipesRead, Nothing
  <2>3. QED
    BY <1>2, <1>6, <2>2
<1>9. QED
  BY <1>7, <1>8

LEMMA Ends ==
  ASSUME RunInv, NEW p \in Process, ProcessEnds(p)
  PROVE  RunInv'
<1> USE DEF RunInv
<1>1. PICK outcome \in {"ok", "failed"} : process' = [process EXCEPT ![p] = outcome]
  BY DEF ProcessEnds
<1>2. /\ process[p] = "alive" /\ UNCHANGED <<scanning, piped, main, writing, out, errs, scanErr, readErr, err>>
  BY DEF ProcessEnds, pipes, results
<1>3. Types' /\ process'[p] = outcome /\ \A q \in Process \ {p} : process'[q] = process[q]
  BY <1>1, <1>2 DEF Types
<1>4. WhoRuns' /\ (Ended("child") => Ended("child")')
  BY <1>1, <1>2, <1>3 DEF WhoRuns, Ended, Process
<1>5. PipesRead'
  BY <1>2, <1>4 DEF PipesRead, AtEnd
<1>6. Returned'
  <2>1. CASE p = "child"
    <3>1. main = "done" => scanErr /\ err
      BY <1>2, <2>1 DEF Returned, Ended
    <3>2. QED
      BY <1>2, <3>1 DEF Returned
  <2>2. CASE p = "callback"
    BY <1>2, <1>3, <1>4, <2>2 DEF Returned, Process
  <2>3. QED
    BY <2>1, <2>2 DEF Process
<1>7. QED
  BY <1>3, <1>4, <1>5, <1>6

LEMMA SignalSteps ==
  ASSUME RunInv, Interrupt \/ (\E p \in Process : Watcher(p)) \/ UNCHANGED vars
  PROVE  RunInv'
<1>1. UNCHANGED <<scanning, piped, main, process, writing, out, errs, scanErr, readErr, err>>
  BY DEF Interrupt, Watcher, PassOn, LeaveOnDone, vars, pipes, results
<1>2. QED
  BY <1>1 DEF RunInv, Types, WhoRuns, PipesRead, Returned, AtEnd, Ended

LEMMA StartSteps ==
  ASSUME RunInv, StartFails \/ Start
  PROVE  RunInv'
<1> USE DEF RunInv
<1>1. main = "start" /\ process["child"] = "none" /\ process["callback"] # "alive" /\ ~scanErr
  BY DEF StartFails, Start, WhoRuns, Returned
<1>2. CASE StartFails
  BY <1>1, <1>2 DEF StartFails, Types, WhoRuns, PipesRead, Returned, pipes
<1>3. CASE Start
  <2>1. /\ process' = [process EXCEPT !["child"] = "alive"] /\ main' = IF scanning THEN "stdout" ELSE AfterStdout
        /\ UNCHANGED <<scanning, piped, writing, out, errs, scanErr, readErr, err>>
    BY <1>3 DEF Start, pipes, results
  <2>2. Types' /\ process'["child"] = "alive" /\ process'["callback"] = process["callback"]
    BY <2>1 DEF Types, AfterStdout, Process
  <2>3. main' \in {"stdout", "stderr", "wait"} /\ (main' # "stdout" => ~scanning) /\ (main' = "wait" => ~piped)
    BY <2>1 DEF AfterStdout
  <2>4. WhoRuns' /\ Returned'
    BY <1>1, <2>1, <2>2, <2>3 DEF WhoRuns, Returned
  <2>5. PipesRead'
    BY <2>1, <2>3 DEF PipesRead
  <2>6. QED
    BY <2>2, <2>4, <2>5
<1>4. QED
  BY <1>2, <1>3

LEMMA StdoutSteps ==
  ASSUME RunInv, ScanStdout \/ ScanStdoutFails \/ ScanStdoutEnds
  PROVE  RunInv'
<1> USE DEF RunInv
<1>1. main = "stdout" /\ UNCHANGED <<scanning, piped, process, writing, errs, readErr>>
  BY DEF ScanStdout, ScanStdoutFails, ScanStdoutEnds, pipes, results
<1>2. ~scanErr /\ process["child"] # "none" /\ process["callback"] # "alive"
  BY <1>1 DEF Returned, WhoRuns
<1>3. CASE ScanStdout
  <2>1. main' = main /\ out # <<>> /\ UNCHANGED <<scanErr, err>>
    BY <1>3 DEF ScanStdout
  <2>2. QED
    BY <1>1, <1>2, <2>1 DEF Types, WhoRuns, PipesRead, Returned
<1>4. CASE ScanStdoutFails
  <2>1. main' = "done" /\ out # <<>> /\ scanErr' = TRUE /\ err' = TRUE
    BY <1>4 DEF ScanStdoutFails
  <2>2. QED
    BY <1>1, <1>2, <2>1 DEF Types, WhoRuns, PipesRead, Returned
<1>5. CASE ScanStdoutEnds
  <2>1. AtEnd(out) /\ main' = AfterStdout /\ UNCHANGED <<out, scanErr, err>>
    BY <1>5 DEF ScanStdoutEnds, pipes, results
  <2>2. AtEnd(out)' /\ main' \in {"stderr", "wait"} /\ (main' = "wait" => ~piped)
    BY <1>1, <2>1 DEF AfterStdout, AtEnd, Ended
  <2>3. QED
    BY <1>1, <1>2, <2>1, <2>2 DEF Types, WhoRuns, PipesRead, Returned
<1>6. QED
  BY <1>3, <1>4, <1>5

LEMMA StderrSteps ==
  ASSUME RunInv, ReadStderr \/ Skip \/ Invoke \/ CallbackEnds \/ StderrEnds
  PROVE  RunInv'
<1> USE DEF RunInv
<1>1. /\ main \in {"stderr", "callback"} /\ UNCHANGED <<scanning, piped, writing, out, scanErr, err>>
  BY DEF ReadStderr, Skip, Invoke, CallbackEnds, StderrEnds, pipes, results
<1>2. ~scanErr /\ process["child"] # "none"
  BY <1>1 DEF Returned, WhoRuns
<1>3. ASSUME main' \in {"stderr", "callback", "wait"}, process' \in [Process -> {"none", "alive", "ok", "failed"}],
             process'["child"] = process["child"], main' # "callback" => process'["callback"] # "alive",
             ~piped => errs' = <<>>, main' = "wait" => readErr' \/ AtEnd(errs)'
      PROVE  RunInv'
  <2>1. AtEnd(out) => AtEnd(out)'
    BY <1>1, <1>3 DEF AtEnd, Ended
  <2>2. QED
    BY <1>1, <1>2, <1>3, <2>1 DEF Types, WhoRuns, PipesRead, Returned
<1>4. process \in [Process -> {"none", "alive", "ok", "failed"}] /\ (main # "callback" => process["callback"] # "alive")
      /\ (~piped => errs = <<>>)
  BY DEF Types, WhoRuns, PipesRead
<1>5. CASE ReadStderr
  <2>1. /\ main = "stderr" /\ process' = process /\ piped
        /\ (main' = "wait" /\ readErr' = TRUE) \/ main' = main
    BY <1>4, <1>5 DEF ReadStderr, AfterReadError
  <2>2. QED
    BY <1>1, <1>3, <1>4, <2>1
<1>6. CASE Skip
  BY <1>1, <1>3, <1>4, <1>6 DEF Skip, pipes
<1>7. CASE Invoke
  <2>1. /\ errs' = errs /\ main = "stderr"
        /\ \/ main' = "callback" /\ process' = [process EXCEPT !["callback"] = "alive"]
           \/ main' = main /\ process' = process
    BY <1>7 DEF Invoke, pipes
  <2>2. CASE main' = "callback" /\ process' = [process EXCEPT !["callback"] = "alive"]
    BY <1>3, <1>4, <2>1, <2>2 DEF Process
  <2>3. CASE main' = main /\ process' = process
    BY <1>1, <1>3, <1>4, <2>1, <2>3
  <2>4. QED
    BY <2>1, <2>2, <2>3
<1>8. CASE CallbackEnds
  BY <1>1, <1>3, <1>4, <1>8 DEF CallbackEnds, Ended, pipes
<1>9. CASE StderrEnds
  <2>1. AtEnd(errs) /\ main = "stderr" /\ main' = "wait" /\ UNCHANGED <<errs, process>>
    BY <1>9 DEF StderrEnds, pipes
  <2>2. AtEnd(errs)'
    BY <2>1 DEF AtEnd, Ended
  <2>3. QED
    BY <1>3, <1>4, <2>1, <2>2
<1>10. QED
  BY <1>5, <1>6, <1>7, <1>8, <1>9

LEMMA WaitStep ==
  ASSUME RunInv, Waited
  PROVE  RunInv'
<1> USE DEF RunInv
<1>1. /\ main = "wait" /\ main' = "done" /\ Ended("child") /\ err' = (process["child"] = "failed" \/ readErr)
      /\ UNCHANGED <<scanning, piped, process, writing, out, errs, scanErr, readErr>>
  BY DEF Waited, pipes
<1>2. out = <<>> /\ (~readErr => errs = <<>>) /\ ~scanErr /\ process["callback"] # "alive"
  BY <1>1 DEF PipesRead, AtEnd, Returned, WhoRuns
<1>3. Types' /\ WhoRuns' /\ PipesRead'
  BY <1>1, <1>2 DEF Types, WhoRuns, PipesRead
<1>4. Ended("child")' /\ (process["child"] = "ok" \/ process["child"] = "failed")
  BY <1>1 DEF Ended
<1>5. Returned'
  BY <1>1, <1>2, <1>4 DEF Returned
<1>6. QED
  BY <1>3, <1>5

LEMMA RunStep ==
  ASSUME RunInv, [Next]_vars
  PROVE  RunInv'
<1>1. CASE Child
  BY <1>1, Writes, Ends DEF Child, Process
<1>2. CASE ProcessEnds("callback")
  BY <1>2, Ends DEF Process
<1>3. CASE Main
  BY <1>3, StartSteps, StdoutSteps, StderrSteps, WaitStep DEF Main
<1>4. ASSUME Interrupt \/ (\E p \in Process : Watcher(p)) \/ UNCHANGED vars
      PROVE  RunInv'
  BY <1>4, SignalSteps
<1>5. QED
  BY <1>1, <1>2, <1>3, <1>4 DEF Next

(* For any output and any sections: Run reports a success only when its    *)
(* process succeeded and all it wrote was read, a failure only when one    *)
(* of them failed; and it leaves no process behind, but for an error of    *)
(* the scanner of stdout (shell/command.go).                               *)
THEOREM CleanReturn ==
  Spec => []ReturnsClean
<1>1. RunInv => ReturnsClean
  BY DEF RunInv, WhoRuns, Returned, Ended, ReturnsClean, ErrorFaithful, NobodyLeft
<1>2. QED
  BY <1>1, RunInit, RunStep, PTL DEF Spec

-----------------------------------------------------------------------------
(* How often the command of a section is run.                              *)

LEMMA Division ==
  ASSUME NEW k \in Nat, NEW m \in Nat \ {0}
  PROVE  k \div m \in Nat /\ m * (k \div m) <= k /\ k < m * (k \div m) + m
OBVIOUS

LEMMA NextMultiple ==
  ASSUME NEW a \in Nat, NEW b \in Nat, NEW m \in Nat, a + 1 <= b
  PROVE  a * m + m <= b * m
OBVIOUS

(* A count that has passed the i-th multiple of m has been divided to i at *)
(* least, and to i exactly before the next multiple.                       *)
LEMMA Times ==
  ASSUME NEW k \in Nat, NEW m \in Nat \ {0}, NEW i \in Nat, i * m <= k
  PROVE  k \div m \in Nat /\ k \div m >= i /\ (k < i * m + m => k \div m = i)
<1> DEFINE q == k \div m
<1>1. q \in Nat /\ q * m <= k /\ k < q * m + m
  BY Division
<1> HIDE DEF q
<1>2. ~(q + 1 <= i)
  BY <1>1, NextMultiple
<1>3. k < i * m + m => ~(i + 1 <= q)
  BY <1>1, NextMultiple
<1>4. QED
  BY <1>1, <1>2, <1>3 DEF q

LEMMA Minimum ==
  ASSUME NEW S \in SUBSET Nat, S # {}
  PROVE  \E x \in S : \A y \in S : x <= y
<1> DEFINE R == OpToRel(<, Nat)
<1>1. IsWellFoundedOn(R, Nat)
  BY NatLessThanWellFounded
<1>2. \A x, y \in Nat : x < y => <<x, y>> \in R
  BY DEF OpToRel
<1> HIDE DEF R
<1>3. PICK x \in S : \A y \in S : ~(<<y, x>> \in R)
  BY <1>1, WFMin, Zenon
<1>4. \A y \in S : ~(y < x)
  BY <1>2, <1>3
<1>5. QED
  BY <1>4

Lines ==
  /\ writing \in OutLine \cup ErrLine \cup {Nothing}
  /\ errs \in Seq(ErrLine)
  /\ line \subseteq Pattern

Counters ==
  /\ counts \in [Pattern -> Nat]
  /\ invoked \in [Pattern -> Nat]
  /\ lastInvocation \in [Pattern -> Nat]

(* How many matches are between two runs: a section without min-matches is *)
(* run at each.                                                            *)
Distance(p) == IF MinMatches[p] = 0 THEN 1 ELSE MinMatches[p]
RunsLeft(p) == MaxRuns[p] = 0 \/ invoked[p] < MaxRuns[p]

(* The match of p in the line at hand is counted and not acted on.  The    *)
(* section whose command is running is still among those of the line.      *)
Open(p) == p \in line /\ ~(main = "callback" /\ p = NextSection)

(* Each run was at the next multiple of the distance; as long as there are *)
(* runs left the next one is not passed, nor reached but by the match that *)
(* is still to be acted on.                                                *)
OnTime(p) ==
  /\ lastInvocation[p] = invoked[p] * Distance(p)
  /\ MaxRuns[p] = 0 \/ invoked[p] <= MaxRuns[p]
  /\ Open(p) => /\ lastInvocation[p] < counts[p]
                /\ RunsLeft(p) => counts[p] <= lastInvocation[p] + Distance(p)
  /\ ~Open(p) => /\ lastInvocation[p] <= counts[p]
                 /\ RunsLeft(p) => counts[p] < lastInvocation[p] + Distance(p)

CountInv == Lines /\ Counters /\ \A p \in Pattern : OnTime(p)

LEMMA Sections ==
  ASSUME NEW p \in Pattern
  PROVE  /\ MinMatches[p] \in Nat /\ MaxRuns[p] \in Nat
         /\ Distance(p) \in Nat \ {0} /\ MinMatches[p] <= Distance(p)
BY CommandAssumption DEF Distance

LEMMA FirstOfLine ==
  ASSUME Lines, line # {}
  PROVE  NextSection \in line
<1>1. line \in SUBSET Nat
  BY CommandAssumption DEF Lines, Pattern
<1>2. \E p \in line : \A q \in line : p <= q
  BY <1>1, Minimum
<1>3. QED
  BY <1>2 DEF NextSection

LEMMA CountInit ==
  ASSUME Init
  PROVE  CountInv
<1>1. Lines /\ Counters
  BY DEF Init, Lines, Counters
<1>2. ASSUME NEW p \in Pattern PROVE OnTime(p)
  BY <1>2, Sections DEF Init, OnTime, Open
<1>3. QED
  BY <1>1, <1>2 DEF CountInv

(* What leaves the analysis alone.                                         *)
LEMMA Beside ==
  ASSUME CountInv, Lines', UNCHANGED analysis,
         main' = main \/ (main # "callback" /\ main' # "callback")
  PROVE  CountInv'
<1>1. UNCHANGED <<line, counts, invoked, lastInvocation>> /\ NextSection' = NextSection
  BY DEF analysis, NextSection
<1>2. Counters'
  BY <1>1 DEF CountInv, Counters
<1>3. ASSUME NEW p \in Pattern PROVE OnTime(p)'
  <2>1. Open(p)' <=> Open(p)
    BY <1>1 DEF Open
  <2>2. QED
    BY <1>1, <2>1 DEF CountInv, OnTime, RunsLeft
<1>4. QED
  BY <1>2, <1>3 DEF CountInv

LEMMA BesideStep ==
  ASSUME CountInv,
         \/ Child \/ ProcessEnds("callback") \/ Interrupt \/ UNCHANGED vars
         \/ \E p \in Process : Watcher(p)
         \/ StartFails \/ Start \/ ScanStdout \/ ScanStdoutFails \/ ScanStdoutEnds
         \/ StderrEnds \/ Waited
  PROVE  CountInv'
<1>1. UNCHANGED analysis
  BY DEF Child, WriteLine, LineWritten, ProcessEnds, Interrupt, vars, Watcher, PassOn, LeaveOnDone,
         StartFails, Start, ScanStdout, ScanStdoutFails, ScanStdoutEnds, StderrEnds, Waited
<1>2. main' = main \/ (main # "callback" /\ main' # "callback")
  BY DEF Child, WriteLine, LineWritten, ProcessEnds, Interrupt, vars, Watcher, PassOn, LeaveOnDone,
         StartFails, Start, ScanStdout, ScanStdoutFails, ScanStdoutEnds, StderrEnds, Waited, AfterStdout
<1>3. Lines'
  <2>1. CASE WriteLine
    BY <1>1, <2>1 DEF WriteLine, CountInv, Lines, analysis
  <2>2. CASE LineWritten
    <3>1. writing.stream = "err" => writing \in ErrLine
      BY DEF CountInv, Lines, OutLine, ErrLine, Nothing
    <3>2. QED
      BY <1>1, <2>2, <3>1 DEF LineWritten, CountInv, Lines, analysis
  <2>3. CASE ~WriteLine /\ ~LineWritten
    <3>1. UNCHANGED <<writing, errs>>
      BY <2>3 DEF Child, ProcessEnds, Interrupt, vars, Watcher, PassOn, LeaveOnDone, pipes,
                  StartFails, Start, ScanStdout, ScanStdoutFails, ScanStdoutEnds, StderrEnds, Waited
    <3>2. QED
      BY <1>1, <3>1 DEF CountInv, Lines, analysis
  <2>4. QED
    BY <2>1, <2>2, <2>3
<1>4. QED
  BY <1>1, <1>2, <1>3, Beside

LEMMA ReadStep ==
  ASSUME CountInv, ReadStderr
  PROVE  CountInv'
<1>1. Head(errs) \in ErrLine /\ Tail(errs) \in Seq(ErrLine)
  BY DEF ReadStderr, CountInv, Lines
<1>2. CASE Head(errs).long
  <2>1. UNCHANGED analysis /\ main # "callback" /\ main' # "callback" /\ UNCHANGED writing /\ errs' = Tail(errs)
    BY <1>2 DEF ReadStderr, analysis, AfterReadError
  <2>2. Lines'
    BY <1>1, <2>1 DEF CountInv, Lines, analysis
  <2>3. QED
    BY <2>1, <2>2, Beside
<1>3. CASE ~Head(errs).long
  <2>1. /\ main = "stderr" /\ main' = "stderr" /\ line = {}
        /\ UNCHANGED <<writing, invoked, lastInvocation>> /\ errs' = Tail(errs)
        /\ line' = Head(errs).matches
        /\ counts' = [p \in Pattern |-> IF p \in Head(errs).matches THEN counts[p] + 1 ELSE counts[p]]
    BY <1>3 DEF ReadStderr
  <2>2. Lines' /\ Counters'
    BY <1>1, <2>1 DEF CountInv, Lines, Counters, ErrLine
  <2>3. ASSUME NEW p \in Pattern PROVE OnTime(p)'
    <3>1. ~Open(p) /\ (Open(p)' <=> p \in Head(errs).matches)
      BY <2>1 DEF Open
    <3>2. counts[p] \in Nat /\ invoked[p] \in Nat /\ lastInvocation[p] \in Nat /\ Distance(p) \in Nat
      BY Sections DEF CountInv, Counters
    <3>3. counts'[p] = IF p \in Head(errs).matches THEN counts[p] + 1 ELSE counts[p]
      BY <2>1
    <3>4. /\ lastInvocation[p] = invoked[p] * Distance(p)
          /\ MaxRuns[p] = 0 \/ invoked[p] <= MaxRuns[p]
          /\ lastInvocation[p] <= counts[p]
          /\ RunsLeft(p) => counts[p] < lastInvocation[p] + Distance(p)
      BY <3>1 DEF CountInv, OnTime
    <3> DEFINE d == Distance(p)
    <3>5. /\ lastInvocation[p] < counts[p] + 1
          /\ RunsLeft(p) => counts[p] + 1 <= lastInvocation[p] + d
      BY <3>2, <3>4
    <3>6. RunsLeft(p)' <=> RunsLeft(p)
      BY <2>1 DEF RunsLeft
    <3>7. QED
      BY <2>1, <3>1, <3>3, <3>4, <3>5, <3>6 DEF OnTime
  <2>4. QED
    BY <2>2, <2>3 DEF CountInv
<1>4. QED
  BY <1>2, <1>3

LEMMA SkipStep ==
  ASSUME CountInv, Skip
  PROVE  CountInv'
<1>1. /\ main = "stderr" /\ main' = "stderr" /\ ~Due(NextSection) /\ line' = line \ {NextSection}
      /\ UNCHANGED <<writing, errs, counts, invoked, lastInvocation>>
  BY DEF Skip, pipes
<1>2. Lines' /\ Counters'
  BY <1>1 DEF CountInv, Lines, Counters
<1>3. ASSUME NEW p \in Pattern PROVE OnTime(p)'
  <2>1. (Open(p) <=> p \in line) /\ (Open(p)' <=> p \in line /\ p # NextSection) /\ OnTime(p)
    BY <1>1 DEF Open, CountInv
  <2>2. RunsLeft(p)' <=> RunsLeft(p)
    BY <1>1 DEF RunsLeft
  <2>3. CASE p = NextSection /\ p \in line
    <3>1. counts[p] \in Nat /\ invoked[p] \in Nat /\ lastInvocation[p] \in Nat
      BY DEF CountInv, Counters
    <3>2. MinMatches[p] \in Nat /\ MaxRuns[p] \in Nat /\ Distance(p) \in Nat
      BY Sections
    <3>3. RunsLeft(p) => counts[p] < MinMatches[p] + lastInvocation[p]
      BY <1>1, <2>3, <3>1, <3>2 DEF Due, RunsLeft
    <3>4. MinMatches[p] + lastInvocation[p] <= lastInvocation[p] + Distance(p)
      BY <3>1, Sections
    <3>5. /\ lastInvocation[p] < counts[p]
          /\ lastInvocation[p] = invoked[p] * Distance(p)
          /\ MaxRuns[p] = 0 \/ invoked[p] <= MaxRuns[p]
      BY <2>1, <2>3 DEF OnTime
    <3> DEFINE d == Distance(p)
    <3>6. /\ lastInvocation[p] <= counts[p]
          /\ RunsLeft(p) => counts[p] < lastInvocation[p] + d
      BY <3>1, <3>2, <3>3, <3>4, <3>5
    <3>7. QED
      BY <1>1, <2>1, <2>2, <2>3, <3>5, <3>6 DEF OnTime
  <2>4. CASE p # NextSection \/ p \notin line
    BY <1>1, <2>1, <2>2, <2>4 DEF OnTime
  <2>5. QED
    BY <2>3, <2>4
<1>4. QED
  BY <1>2, <1>3 DEF CountInv

LEMMA InvokeStep ==
  ASSUME CountInv, Invoke
  PROVE  CountInv'
<1> DEFINE n == NextSection
<1>1. /\ main = "stderr" /\ Due(n) /\ line # {}
      /\ lastInvocation' = [lastInvocation EXCEPT ![n] = counts[n]]
      /\ invoked' = [invoked EXCEPT ![n] = @ + 1]
      /\ UNCHANGED <<writing, errs, counts>>
      /\ \/ main' = "callback" /\ line' = line
         \/ main' = main /\ line' = line \ {n}
  BY DEF Invoke, pipes
<1>2. n \in line /\ n \in Pattern
  BY <1>1, FirstOfLine DEF CountInv, Lines
<1>3. Lines' /\ Counters'
  BY <1>1, <1>2 DEF CountInv, Lines, Counters
<1>4. ASSUME NEW p \in Pattern PROVE Open(p)' <=> (p \in line /\ p # n)
  <2>1. CASE main' = "callback" /\ line' = line
    <3>1. NextSection' = n
      BY <2>1 DEF NextSection
    <3>2. QED
      BY <2>1, <3>1 DEF Open
  <2>2. CASE main' = main /\ line' = line \ {n}
    BY <1>1, <2>2 DEF Open
  <2>3. QED
    BY <1>1, <2>1, <2>2
<1> HIDE DEF n
<1>5. ASSUME NEW p \in Pattern PROVE OnTime(p)'
  <2>1. (Open(p) <=> p \in line) /\ OnTime(p)
    BY <1>1 DEF Open, CountInv
  <2>2. CASE p # n
    <3>1. invoked'[p] = invoked[p] /\ lastInvocation'[p] = lastInvocation[p] /\ counts'[p] = counts[p]
      BY <1>1, <2>2 DEF CountInv, Counters
    <3>2. QED
      BY <1>4, <2>1, <2>2, <3>1 DEF OnTime, RunsLeft
  <2>3. CASE p = n
    <3>1. invoked'[p] = invoked[p] + 1 /\ lastInvocation'[p] = counts[p] /\ counts'[p] = counts[p] /\ ~Open(p)'
      BY <1>1, <1>4, <2>3 DEF CountInv, Counters
    <3>2. counts[p] \in Nat /\ invoked[p] \in Nat /\ lastInvocation[p] \in Nat
      BY DEF CountInv, Counters
    <3>3. MinMatches[p] \in Nat /\ MaxRuns[p] \in Nat /\ Distance(p) \in Nat \ {0}
      BY Sections
    <3>4. counts[p] >= MinMatches[p] + lastInvocation[p] /\ RunsLeft(p)
      BY <1>1, <2>3 DEF Due, RunsLeft
    <3>5. lastInvocation[p] < counts[p] /\ counts[p] <= lastInvocation[p] + Distance(p)
      BY <1>2, <2>1, <2>3, <3>4 DEF OnTime
    <3>6. counts[p] = lastInvocation[p] + Distance(p)
      BY <3>2, <3>3, <3>4, <3>5 DEF Distance
    <3>7. lastInvocation[p] = invoked[p] * Distance(p)
      BY <2>1 DEF OnTime
    <3> DEFINE d == Distance(p)
    <3>8. (invoked[p] + 1) * d = invoked[p] * d + d
      <4> HIDE DEF d
      <4>1. d \in Nat
        BY <3>3 DEF d
      <4>2. QED
        BY <3>2, <4>1
    <3>9. MaxRuns[p] = 0 \/ invoked[p] + 1 <= MaxRuns[p]
      BY <3>2, <3>3, <3>4 DEF RunsLeft
    <3>10. counts[p] <= counts[p] /\ counts[p] < counts[p] + d
      BY <3>2, <3>3
    <3>11. QED
      BY <3>1, <3>6, <3>7, <3>8, <3>9, <3>10 DEF OnTime
  <2>4. QED
    BY <2>2, <2>3
<1>6. QED
  BY <1>3, <1>5 DEF CountInv

LEMMA CallbackStep ==
  ASSUME CountInv, CallbackEnds
  PROVE  CountInv'
<1>1. /\ main = "callback" /\ main' = "stderr" /\ line' = line \ {NextSection}
      /\ UNCHANGED <<writing, errs, counts, invoked, lastInvocation>>
  BY DEF CallbackEnds, pipes
<1>2. Lines' /\ Counters'
  BY <1>1 DEF CountInv, Lines, Counters
<1>3. ASSUME NEW p \in Pattern PROVE OnTime(p)'
  <2>1. Open(p)' <=> Open(p)
    BY <1>1 DEF Open
  <2>2. QED
    BY <1>1, <2>1 DEF CountInv, OnTime, RunsLeft
<1>4. QED
  BY <1>2, <1>3 DEF CountInv

LEMMA CountStep ==
  ASSUME CountInv, [Next]_vars
  PROVE  CountInv'
BY BesideStep, ReadStep, SkipStep, InvokeStep, CallbackStep DEF Next, Main

(* For any sections and any output: between two lines each section was run *)
(* once for every min-matches lines that match it, and no more than        *)
(* max-runs times, whether or not its command could be started             *)
(* (shell/analyser.go, invokeCallback).                                    *)
THEOREM ExactRuns ==
  Spec => []RunsExact
<1>1. CountInv => RunsExact
  <2> SUFFICES ASSUME CountInv, line = {}, NEW p \in Pattern
               PROVE  LET times == counts[p] \div Distance(p)
                      IN invoked[p] = IF MaxRuns[p] > 0 /\ times > MaxRuns[p] THEN MaxRuns[p] ELSE times
    BY DEF RunsExact, Distance
  <2> DEFINE d == Distance(p)
             times == counts[p] \div d
  <2>1. counts[p] \in Nat /\ invoked[p] \in Nat /\ lastInvocation[p] \in Nat
    BY DEF CountInv, Counters
  <2>2. MaxRuns[p] \in Nat /\ d \in Nat \ {0}
    BY Sections
  <2>3. /\ lastInvocation[p] = invoked[p] * d
        /\ MaxRuns[p] = 0 \/ invoked[p] <= MaxRuns[p]
        /\ lastInvocation[p] <= counts[p]
        /\ RunsLeft(p) => counts[p] < lastInvocation[p] + d
    BY DEF CountInv, OnTime, Open
  <2> HIDE DEF d
  <2>4. times \in Nat /\ times >= invoked[p] /\ (RunsLeft(p) => times = invoked[p])
    BY <2>1, <2>2, <2>3, Times
  <2> HIDE DEF times
  <2>5. ~RunsLeft(p) => MaxRuns[p] > 0 /\ invoked[p] = MaxRuns[p]
    BY <2>1, <2>2, <2>3 DEF RunsLeft
  <2>6. RunsLeft(p) => MaxRuns[p] = 0 \/ ~(times > MaxRuns[p])
    BY <2>1, <2>2, <2>4 DEF RunsLeft
  <2>7. invoked[p] = IF MaxRuns[p] > 0 /\ times > MaxRuns[p] THEN MaxRuns[p] ELSE times
    BY <2>1, <2>2, <2>4, <2>5, <2>6
  <2>8. QED
    BY <2>7 DEF times, d
<1>2. QED
  BY <1>1, CountInit, CountStep, PTL DEF Spec
=============================================================================
