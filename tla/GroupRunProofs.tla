--------------------------- MODULE GroupRunProofs ---------------------------
(***************************************************************************)
(* For every group, whatever its profiles do and however often the log     *)
(* cannot be written: what GroupRun says of the exit code, of the working  *)
(* directory, and of the log.                                              *)
(***************************************************************************)
EXTENDS GroupRun, SequenceTheorems, TLAPS

Stopping == {"stop", "close", "hooks", "end"}
Reporting == {"report", "reported"}
Opened == {"open", "run", "running", "ran", "cleanup"}

(* The group and what has become of it.                                    *)
GroupTypes ==
  /\ group \in Seq(Kind)
  /\ single \in BOOLEAN /\ always \in BOOLEAN /\ own \in {"auto", "true", "false"}
  /\ place \in {"start", "next"} \cup Opened \cup Reporting \cup Stopping
  /\ index \in 0 .. Len(group)
  /\ outcome \in {"ok", "error", "panic"}
  /\ exitCode \in {0, 1}

(* A failure that is not to be continued after is that of the last profile *)
(* that was tried, and the group comes to its end with it.                 *)
ExitSoFar ==
  /\ tried = 1 .. index /\ failed \subseteq tried
  /\ place = "start" => index = 0
  /\ place \in Opened \cup Reporting => index # 0
  /\ exitCode = 1 => place \in Stopping
  /\ place \in Reporting => outcome = "error" /\ index \in failed
  /\ ~Wanted => failed \subseteq {index} /\ (failed # {} => place \in Reporting \cup Stopping)
  /\ outcome = "panic" => place \in {"cleanup"} \cup Stopping
  /\ place \in Stopping /\ outcome # "panic" =>
       IF exitCode = 0 THEN index = Len(group) /\ (failed = {} \/ Wanted)
       ELSE index = 0 \/ (failed = {index} /\ ~Wanted)

(* The directory to go back to is the first one; while a profile is being  *)
(* opened, its base-dir and the attempts left tell where it is.            *)
WhereNow ==
  /\ group[index] \in {"none", "gone"} => cwd = Home /\ attempts = Attempts
  /\ group[index] = "absolute" => \/ cwd = Home /\ attempts = Attempts
                                  \/ cwd = <<"base", 0>> /\ attempts = Attempts - 1
  /\ group[index] = "relative" => /\ attempts \in 1 .. Attempts
                                  /\ cwd = <<"home", Attempts - attempts>>

DirectorySoFar ==
  /\ cleanup \in {None, Home}
  /\ place \in {"start", "next"} \cup Reporting => cwd = Home
  /\ place \in Opened /\ cleanup = None => cwd = Home
  /\ place = "open" => WhereNow
  /\ place \in {"run", "running", "ran"} => loadedIn = cwd /\ BaseDir(group[index], cwd) = cwd

ControlInv == GroupTypes /\ ExitSoFar /\ DirectorySoFar

LEMMA ControlInit ==
  ASSUME GroupAssumption, Init
  PROVE  ControlInv
<1>1. GroupTypes
  <2>1. group \in Seq(Kind) /\ Len(group) \in Nat
    BY LenProperties DEF GroupAssumption, Init
  <2>2. single \in BOOLEAN /\ always \in BOOLEAN /\ own \in {"auto", "true", "false"}
    BY DEF Init
  <2>3. place = "start" /\ index = 0 /\ outcome = "ok" /\ exitCode = 0
    BY DEF Init
  <2>4. index \in 0 .. Len(group)
    BY <2>1, <2>3
  <2>5. QED
    BY <2>1, <2>2, <2>3, <2>4 DEF GroupTypes
<1>2. ExitSoFar
  <2>1. /\ place = "start" /\ index = 0 /\ exitCode = 0 /\ outcome = "ok"
        /\ tried = {} /\ failed = {}
    BY DEF Init
  <2>2. tried = 1 .. index
    BY <2>1
  <2>3. QED
    BY <2>1, <2>2 DEF ExitSoFar, Opened, Reporting, Stopping
<1>3. DirectorySoFar
  BY DEF Init, DirectorySoFar, Opened, Reporting, Stopping
<1>4. QED
  BY <1>1, <1>2, <1>3 DEF ControlInv

(* Whether the group goes on after a failure is what the options say.      *)
LEMMA ContinuesAsWanted ==
  ASSUME GroupTypes
  PROVE  Continues <=> Wanted
BY DEF GroupTypes, Continues, Wanted

-----------------------------------------------------------------------------
(* The steps of main that are not seen here: those of the other goroutines *)
(* and of the log.                                                         *)
control == <<options, place, index, opening, outcome, exitCode, past>>

LEMMA OthersKeepControl ==
  ASSUME Helper \/ Receive \/ Tick \/ UNCHANGED vars
  PROVE  UNCHANGED control
BY DEF Helper, HelperLogs, HelperEnds, Receive, Tick, Rest, vars, control, ending

LEMMA TypesStep ==
  ASSUME GroupTypes, [Next]_vars
  PROVE  GroupTypes'
<1> USE DEF GroupTypes, Opened, Reporting, Stopping, options
<1>1. Len(group) \in Nat
  BY LenProperties
<1>2. ASSUME StartFails \/ Start \/ Reported \/ Stop
      PROVE  GroupTypes'
  BY <1>2 DEF StartFails, Start, Reported, Stop
<1>3. CASE NextProfile
  <2>1. index' \in 0 .. Len(group)
    BY <1>1, <1>3 DEF NextProfile
  <2>2. QED
    BY <1>3, <2>1 DEF NextProfile, ending
<1>4. ASSUME AllDone \/ LoadFails \/ Load \/ NoMoreAttempts
      PROVE  GroupTypes'
  BY <1>4 DEF AllDone, LoadFails, Load, NoMoreAttempts, Fails, ending
<1>5. ASSUME StartHelper \/ Plain \/ FlushOutput \/ RunEnds
      PROVE  GroupTypes'
  BY <1>5 DEF StartHelper, Plain, FlushOutput, RunEnds, ending
<1>6. ASSUME Cleanup \/ CleanupFails \/ Report \/ CloseLog \/ RunHooks
      PROVE  GroupTypes'
  BY <1>6 DEF Cleanup, CleanupFails, Report, CloseLog, RunHooks, ending
<1>7. ASSUME Helper \/ Receive \/ Tick \/ UNCHANGED vars
      PROVE  GroupTypes'
  BY <1>7, OthersKeepControl DEF control
<1>8. QED
  BY <1>2, <1>3, <1>4, <1>5, <1>6, <1>7 DEF Next, Main

LEMMA ExitStep ==
  ASSUME GroupTypes, ExitSoFar, [Next]_vars
  PROVE  ExitSoFar'
<1> USE DEF ExitSoFar, Opened, Reporting, Stopping, options
<1>1. index \in Nat /\ index <= Len(group) /\ Len(group) \in Nat
  BY LenProperties DEF GroupTypes
<1>2. UNCHANGED options => (Wanted' <=> Wanted)
  BY DEF Wanted
<1>3. exitCode \in {0, 1} /\ outcome \in {"ok", "error", "panic"}
  BY DEF GroupTypes
<1>4. ASSUME StartFails \/ Start \/ Stop
      PROVE  ExitSoFar'
  BY <1>1, <1>2, <1>3, <1>4 DEF StartFails, Start, Stop, past
<1>5. CASE NextProfile
  <2>1. tried' = 1 .. index' /\ failed' \subseteq tried' /\ index' # 0
    BY <1>1, <1>5 DEF NextProfile
  <2>2. ~Wanted => failed = {}
    BY <1>5 DEF NextProfile
  <2>3. QED
    BY <1>1, <1>2, <1>3, <1>5, <2>1, <2>2 DEF NextProfile, ending
<1>6. CASE AllDone
  BY <1>1, <1>2, <1>3, <1>6 DEF AllDone, ending, past
<1>7. ASSUME LoadFails \/ Load \/ NoMoreAttempts
      PROVE  ExitSoFar'
  BY <1>2, <1>3, <1>7 DEF LoadFails, Load, NoMoreAttempts, Fails, ending, past
<1>8. ASSUME StartHelper \/ Plain \/ FlushOutput \/ RunEnds
      PROVE  ExitSoFar'
  BY <1>2, <1>3, <1>8 DEF StartHelper, Plain, FlushOutput, RunEnds, ending, past
<1>9. ASSUME Cleanup \/ CleanupFails
      PROVE  ExitSoFar'
  <2>1. index \in tried /\ (~Wanted => failed = {})
    BY <1>1, <1>9 DEF Cleanup, CleanupFails
  <2>2. CASE outcome = "ok"
    BY <1>2, <1>9, <2>1, <2>2 DEF Cleanup, CleanupFails, ending
  <2>3. CASE outcome # "ok"
    <3>1. failed' = failed \cup {index} /\ failed' \subseteq tried' /\ (~Wanted' => failed' = {index})
      BY <1>2, <1>9, <2>1, <2>3 DEF Cleanup, CleanupFails
    <3>2. CASE Cleanup
      BY <1>2, <1>3, <2>3, <3>1, <3>2 DEF Cleanup, ending
    <3>3. CASE CleanupFails
      BY <1>2, <1>3, <2>3, <3>1, <3>3 DEF CleanupFails, ending
    <3>4. QED
      BY <1>9, <3>2, <3>3
  <2>4. QED
    BY <2>2, <2>3
<1>10. CASE Reported
  <2>1. UNCHANGED <<index, outcome, past, options>> /\ outcome = "error" /\ index \in failed /\ exitCode = 0
    BY <1>3, <1>10 DEF Reported
  <2>2. ~Wanted => failed = {index}
    BY <2>1
  <2>3. CASE Continues
    BY <1>2, <1>10, <2>1, <2>2, <2>3, ContinuesAsWanted DEF Reported, past
  <2>4. CASE ~Continues
    BY <1>2, <1>10, <2>1, <2>2, <2>4, ContinuesAsWanted DEF Reported, past
  <2>5. QED
    BY <2>3, <2>4
<1>11. ASSUME Report \/ CloseLog \/ RunHooks
       PROVE  ExitSoFar'
  BY <1>2, <1>3, <1>11 DEF Report, CloseLog, RunHooks, ending, past
<1>12. ASSUME Helper \/ Receive \/ Tick \/ UNCHANGED vars
       PROVE  ExitSoFar'
  <2>1. UNCHANGED <<group, single, always, own, place, index, outcome, exitCode, tried, failed>>
    BY <1>12, OthersKeepControl DEF control, past
  <2>2. QED
    BY <1>2, <2>1
<1>13. QED
  BY <1>4, <1>5, <1>6, <1>7, <1>8, <1>9, <1>10, <1>11, <1>12 DEF Next, Main

(* With directories nested at most twice, the attempts always suffice.     *)
LEMMA LoadsWhere ==
  ASSUME Nesting \in 0 .. 2, GroupTypes, ExitSoFar, DirectorySoFar, Load
  PROVE  DirectorySoFar'
<1>1. /\ place = "open" /\ index # 0 /\ attempts > 0 /\ UNCHANGED <<group, index>>
      /\ WhereNow /\ cleanup \in {None, Home} /\ (cleanup = None => cwd = Home)
  BY DEF Load, options, ExitSoFar, DirectorySoFar, Opened
<1>2. group[index] \in Kind
  <2>1. index \in 1 .. Len(group)
    BY <1>1, LenProperties DEF GroupTypes
  <2>2. QED
    BY <2>1, ElementOfSeq DEF GroupTypes
<1> DEFINE dir == BaseDir(group[index], cwd)
<1>3. LeftFirst = Home /\ Home # None
  BY <1>1 DEF LeftFirst, Home, None
<1>4. CASE dir = cwd
  BY <1>1, <1>4 DEF Load, DirectorySoFar, Opened, Reporting
<1>5. CASE dir # cwd /\ Exists(dir)
  <2>1. /\ cwd' = dir /\ attempts' = attempts - 1 /\ cleanup' = Home /\ place' = "open"
    BY <1>1, <1>3, <1>5 DEF Load
  <2>2. WhereNow'
    <3>1. CASE group[index] \in {"none", "gone"}
      BY <1>1, <1>5, <3>1 DEF WhereNow, BaseDir, Exists
    <3>2. CASE group[index] = "absolute"
      <4>1. dir = <<"base", 0>> /\ attempts = Attempts
        BY <1>1, <1>5, <3>2 DEF WhereNow, BaseDir
      <4>2. QED
        BY <1>1, <2>1, <3>2, <4>1 DEF WhereNow
    <3>3. CASE group[index] = "relative"
      <4>1. attempts \in 1 .. 3 /\ cwd = <<"home", 3 - attempts>>
        BY <1>1, <3>3 DEF WhereNow, Attempts
      <4>2. dir = <<"home", (3 - attempts) + 1>>
        BY <3>3, <4>1 DEF BaseDir
      <4>3. (3 - attempts) + 1 <= Nesting
        BY <1>5, <4>2 DEF Exists
      <4>4. attempts' \in 1 .. 3 /\ (3 - attempts) + 1 = 3 - attempts'
        BY <2>1, <4>1, <4>3
      <4>5. QED
        BY <1>1, <2>1, <3>3, <4>2, <4>4 DEF WhereNow, Attempts
    <3>4. QED
      BY <1>2, <3>1, <3>2, <3>3 DEF Kind
  <2>3. QED
    BY <1>3, <2>1, <2>2 DEF DirectorySoFar, Opened, Reporting
<1>6. CASE dir # cwd /\ ~Exists(dir)
  <2>1. cleanup' = Home /\ place' = "cleanup"
    BY <1>1, <1>3, <1>6 DEF Load, Fails
  <2>2. QED
    BY <1>3, <2>1 DEF DirectorySoFar, Opened, Reporting
<1>7. QED
  BY <1>4, <1>5, <1>6

LEMMA DirectoryStep ==
  ASSUME Nesting \in 0 .. 2, GroupTypes, ExitSoFar, DirectorySoFar, [Next]_vars
  PROVE  DirectorySoFar'
<1> USE DEF DirectorySoFar, Opened, Reporting, options, opening
<1>1. ASSUME StartFails \/ Start \/ AllDone \/ Stop
      PROVE  DirectorySoFar'
  BY <1>1 DEF StartFails, Start, AllDone, Stop
<1>2. CASE NextProfile
  <2>1. place' = "open" /\ cleanup' = None /\ cwd' = Home /\ attempts' = Attempts /\ group' = group
    BY <1>2 DEF NextProfile
  <2>2. WhereNow'
    <3>1. index' \in 1 .. Len(group)
      BY <1>2, LenProperties DEF NextProfile, GroupTypes
    <3>2. group'[index'] \in Kind
      BY <2>1, <3>1, ElementOfSeq DEF GroupTypes
    <3>3. Attempts \in 1 .. Attempts /\ Attempts - Attempts = 0
      BY DEF Attempts
    <3>4. QED
      BY <2>1, <3>2, <3>3 DEF WhereNow, Home, Kind
  <2>3. QED
    BY <2>1, <2>2
<1>3. CASE LoadFails
  BY <1>3 DEF LoadFails, Fails
<1>4. CASE Load
  BY <1>4, LoadsWhere
<1>5. CASE NoMoreAttempts
  <2>1. index \in 1 .. Len(group)
    BY <1>5, LenProperties DEF NoMoreAttempts, GroupTypes, ExitSoFar
  <2>2. group[index] \in Kind
    BY <2>1, ElementOfSeq DEF GroupTypes
  <2>3. attempts # 0
    <3>1. WhereNow /\ attempts = 0
      BY <1>5 DEF NoMoreAttempts
    <3>2. CASE group[index] \in {"none", "gone"}
      BY <3>1, <3>2 DEF WhereNow, Attempts
    <3>3. CASE group[index] = "absolute"
      BY <3>1, <3>3 DEF WhereNow, Attempts
    <3>4. CASE group[index] = "relative"
      <4>1. attempts \in 1 .. Attempts
        BY <3>1, <3>4 DEF WhereNow
      <4>2. QED
        BY <3>1, <4>1 DEF Attempts
    <3>5. QED
      BY <2>2, <3>2, <3>3, <3>4 DEF Kind
  <2>4. QED
    BY <1>5, <2>3 DEF NoMoreAttempts
<1>6. ASSUME StartHelper \/ Plain \/ FlushOutput
      PROVE  DirectorySoFar'
  <2>1. UNCHANGED <<group, index, cwd, loadedIn, cleanup>> /\ place \in {"run", "running"} /\ place' \in {"running", "ran"}
    BY <1>6 DEF StartHelper, Plain, FlushOutput
  <2>2. QED
    BY <2>1 DEF BaseDir
<1>7. CASE RunEnds
  BY <1>7 DEF RunEnds
<1>8. CASE Cleanup
  <2>1. cwd' = Home /\ cleanup' = cleanup
    BY <1>8 DEF Cleanup
  <2>2. place' \in {"next", "report", "stop"}
    BY <1>8 DEF Cleanup, GroupTypes
  <2>3. QED
    BY <2>1, <2>2
<1>9. ASSUME CleanupFails \/ CloseLog \/ RunHooks
      PROVE  DirectorySoFar'
  BY <1>9 DEF CleanupFails, CloseLog, RunHooks
<1>10. ASSUME Report \/ Reported
       PROVE  DirectorySoFar'
  BY <1>10 DEF Report, Reported
<1>11. ASSUME Helper \/ Receive \/ Tick \/ UNCHANGED vars
       PROVE  DirectorySoFar'
  <2>1. UNCHANGED <<group, place, index, attempts, cwd, loadedIn, cleanup>>
    BY <1>11, OthersKeepControl DEF control
  <2>2. QED
    BY <2>1 DEF WhereNow, BaseDir
<1>12. QED
  BY <1>1, <1>2, <1>3, <1>4, <1>5, <1>6, <1>7, <1>8, <1>9, <1>10, <1>11 DEF Next, Main

-----------------------------------------------------------------------------
(* For every group: unless it panics, resticprofile ends with exit code 0  *)
(* exactly when all profiles were run and every failure was to be          *)
(* continued after, and otherwise at the first failure.                    *)
THEOREM ExitCode ==
  ASSUME GroupAssumption
  PROVE  Spec => []ExitTells
<1> DEFINE Inv == GroupTypes /\ ExitSoFar
<1>1. Init => Inv
  BY ControlInit DEF ControlInv
<1>2. Inv /\ [Next]_vars => Inv'
  BY TypesStep, ExitStep
<1>3. Inv => ExitTells
  <2> SUFFICES ASSUME Inv PROVE ExitTells
    OBVIOUS
  <2>1. tried = 1 .. index /\ failed \subseteq tried /\ index \in Nat
    BY LenProperties DEF GroupTypes, ExitSoFar
  <2>2. ~Wanted => \A i \in failed, j \in tried : j <= i
    BY <2>1 DEF ExitSoFar
  <2>3. CASE place = "end" /\ outcome # "panic"
    BY <2>1, <2>2, <2>3 DEF ExitSoFar, ExitTells, Stopping
  <2>4. QED
    BY <2>2, <2>3 DEF ExitTells
<1>4. QED
  BY <1>1, <1>2, <1>3, PTL DEF Spec

(* For every group, and directories nested at most twice: a profile is     *)
(* opened in the directory resticprofile was started in, and is run in     *)
(* its base-dir, in which it was loaded.                                   *)
THEOREM OpenedAtHome ==
  ASSUME GroupAssumption, Nesting \in 0 .. 2
  PROVE  Spec => []Directories
<1>1. Init => ControlInv
  BY ControlInit
<1>2. ControlInv /\ [Next]_vars => ControlInv'
  BY TypesStep, ExitStep, DirectoryStep DEF ControlInv
<1>3. ControlInv => Directories
  BY DEF ControlInv, DirectorySoFar, Directories, Opened
<1>4. QED
  BY <1>1, <1>2, <1>3, PTL DEF Spec

-----------------------------------------------------------------------------
(* The log.  Whatever is written of a buffer, the rest of it stays.        *)
Lines == {<<"error", i>> : i \in Nat} \cup {Late} \cup {<<"line", n>> : n \in Nat}

LogTypes ==
  /\ data \in Seq(Lines) /\ buffer \in Seq(Lines)
  /\ file \in Seq(Lines) /\ logged \in Seq(Lines)

LEMMA SplitAt ==
  ASSUME NEW s \in Seq(Lines), NEW n \in 0 .. Len(s)
  PROVE  /\ SubSeq(s, 1, n) \in Seq(Lines) /\ SubSeq(s, n + 1, Len(s)) \in Seq(Lines)
         /\ Len(SubSeq(s, 1, n)) = n
         /\ SubSeq(s, 1, n) \o SubSeq(s, n + 1, Len(s)) = s
<1>1. Len(s) \in Nat
  BY LenProperties
<1>2. SubSeq(s, 1, n) \in Seq(Lines) /\ SubSeq(s, n + 1, Len(s)) \in Seq(Lines)
  BY <1>1
<1>3. Len(SubSeq(s, 1, n)) = n
  BY <1>1
<1>4. SubSeq(s, 1, n) \o SubSeq(s, n + 1, Len(s)) = SubSeq(s, 1, Len(s))
  <2>1. 1 \in 1 .. Len(s) + 1 /\ n \in 1 - 1 .. Len(s) /\ Len(s) \in n .. Len(s)
    BY <1>1
  <2>2. QED
    BY <2>1, ConcatAdjacentSubSeq, Zenon
<1>5. SubSeq(s, 1, Len(s)) = s
  BY SubSeqFull
<1>6. QED
  BY <1>2, <1>3, <1>4, <1>5

LEMMA Associative ==
  \A s, t, u \in Seq(Lines) : s \o t \in Seq(Lines) /\ (s \o t) \o u = s \o (t \o u)
<1> SUFFICES ASSUME NEW s \in Seq(Lines), NEW t \in Seq(Lines), NEW u \in Seq(Lines)
             PROVE  s \o t \in Seq(Lines) /\ (s \o t) \o u = s \o (t \o u)
  OBVIOUS
<1>1. s \o t \in Seq(Lines)
  OBVIOUS
<1>2. (s \o t) \o u = s \o (t \o u)
  OBVIOUS
<1>3. QED
  BY <1>1, <1>2

(* How what is written, kept and waiting may be grouped.                   *)
LEMMA Regroup ==
  ASSUME LogTypes
  PROVE  /\ file \o buffer \in Seq(Lines)
         /\ \A s, t \in Seq(Lines) : (file \o s) \o t = file \o (s \o t)
         /\ \A s \in Seq(Lines) : buffer \o s \in Seq(Lines) /\ file \o (buffer \o s) = (file \o buffer) \o s
         /\ \A s, t \in Seq(Lines) : ((file \o buffer) \o s) \o t = (file \o buffer) \o (s \o t)
<1>1. file \in Seq(Lines)
  BY DEF LogTypes
<1>2. buffer \in Seq(Lines)
  BY DEF LogTypes
<1>3. file \o buffer \in Seq(Lines)
  BY <1>1, <1>2, Associative
<1>4. \A s, t \in Seq(Lines) : (file \o s) \o t = file \o (s \o t)
  BY <1>1, Associative
<1>5. ASSUME NEW s \in Seq(Lines)
      PROVE  buffer \o s \in Seq(Lines) /\ file \o (buffer \o s) = (file \o buffer) \o s
  BY <1>2, <1>4, <1>5, Associative
<1>6. \A s, t \in Seq(Lines) : ((file \o buffer) \o s) \o t = (file \o buffer) \o (s \o t)
  BY <1>3, Associative
<1>7. QED
  BY <1>3, <1>4, <1>5, <1>6

LEMMA FlushKeeps ==
  ASSUME LogTypes, NEW lines \in Seq(Lines), NEW o \in Log!Flush(lines)
  PROVE  /\ o.file \in Seq(Lines) /\ o.buffer \in Seq(Lines)
         /\ o.file \o o.buffer = file \o lines
<1>1. CASE lines = <<>>
  <2>1. o.file = file /\ o.buffer = <<>>
    BY <1>1 DEF Log!Flush
  <2>2. QED
    BY <1>1, <2>1 DEF LogTypes
<1>2. CASE lines # <<>>
  <2>1. PICK n \in 0 .. Len(lines), opened \in BOOLEAN : o = Log!Outcome(lines, n, opened)
    <3>1. Len(lines) \in Nat
      BY LenProperties
    <3>2. CASE o \in {Log!Outcome(lines, n, TRUE) : n \in 0 .. Len(lines)}
      BY <3>2
    <3>3. CASE o = Log!Outcome(lines, 0, FALSE)
      <4>1. 0 \in 0 .. Len(lines)
        BY <3>1
      <4>2. QED
        BY <3>3, <4>1, Zenon
    <3>4. CASE o = Log!Outcome(lines, Len(lines), TRUE)
      <4>1. Len(lines) \in 0 .. Len(lines)
        BY <3>1
      <4>2. QED
        BY <3>4, <4>1, Zenon
    <3>5. QED
      BY <1>2, <3>2, <3>3, <3>4 DEF Log!Flush
  <2> DEFINE written == SubSeq(lines, 1, n)
             rest == SubSeq(lines, n + 1, Len(lines))
  <2>2. o.file = file \o written /\ o.buffer = rest
    BY <2>1 DEF Log!Outcome
  <2>3. written \in Seq(Lines) /\ rest \in Seq(Lines) /\ written \o rest = lines
    BY SplitAt
  <2>4. file \in Seq(Lines)
    BY DEF LogTypes
  <2> HIDE DEF written, rest
  <2>5. o.file \o o.buffer = file \o (written \o rest)
    <3>1. \A s, t \in Seq(Lines) : (file \o s) \o t = file \o (s \o t)
      BY Regroup
    <3>2. (file \o written) \o rest = file \o (written \o rest)
      BY <2>3, <3>1
    <3>3. QED
      BY <2>2, <3>2, Zenon
  <2>6. QED
    BY <2>2, <2>3, <2>4, <2>5
<1>3. QED
  BY <1>1, <1>2

(* What a flush takes out of the channel, it adds to what is to be written. *)
LEMMA FlushConserves ==
  ASSUME LogTypes, NEW n \in 0 .. Len(data),
         NEW o \in Log!Flush(buffer \o SubSeq(data, 1, n)),
         file' = o.file, buffer' = o.buffer, data' = SubSeq(data, n + 1, Len(data)), logged' = logged
  PROVE  LogTypes' /\ file' \o buffer' \o data' = file \o buffer \o data
<1> DEFINE taken == SubSeq(data, 1, n)
           left == SubSeq(data, n + 1, Len(data))
<1>1. taken \in Seq(Lines) /\ left \in Seq(Lines) /\ taken \o left = data
  BY SplitAt DEF LogTypes
<1>2. /\ data \in Seq(Lines) /\ buffer \in Seq(Lines)
      /\ file \in Seq(Lines) /\ logged \in Seq(Lines)
  BY DEF LogTypes
<1>3. buffer \o taken \in Seq(Lines)
  BY <1>1, Regroup
<1>4. /\ o.file \in Seq(Lines) /\ o.buffer \in Seq(Lines)
      /\ o.file \o o.buffer = file \o (buffer \o taken)
  BY <1>3, FlushKeeps
<1> HIDE DEF taken, left
<1>5. file \o (buffer \o taken) = (file \o buffer) \o taken
  <2>1. \A t \in Seq(Lines) : file \o (buffer \o t) = (file \o buffer) \o t
    BY Regroup
  <2>2. QED
    BY <1>1, <2>1
<1>6. \A s, t \in Seq(Lines) : ((file \o buffer) \o s) \o t = (file \o buffer) \o (s \o t)
  BY Regroup
<1>7. ((file \o buffer) \o taken) \o left = (file \o buffer) \o (taken \o left)
  BY <1>1, <1>6
<1>8. file' \o buffer' = (file \o buffer) \o taken
  BY <1>4, <1>5
<1>9. file' \o buffer' \o data' = (file \o buffer) \o data
  BY <1>1, <1>7, <1>8 DEF left
<1>10. LogTypes'
  BY <1>1, <1>2, <1>4 DEF LogTypes, left
<1>11. QED
  BY <1>9, <1>10

(* The steps at which main writes, as the log sees them.                   *)
Logging == Report \/ (RunHooks /\ Says(Late))
Quiet ==
  \/ StartFails \/ Start \/ NextProfile \/ AllDone \/ LoadFails \/ Load \/ NoMoreAttempts
  \/ StartHelper \/ Plain \/ RunEnds \/ Cleanup \/ CleanupFails \/ Reported \/ Stop
  \/ (RunHooks /\ Silent) \/ HelperEnds \/ UNCHANGED vars

LEMMA QuietIsSilent ==
  ASSUME Quiet
  PROVE  UNCHANGED <<data, buffer, file, closed, crashed, logged>>
BY DEF Quiet, StartFails, Start, NextProfile, AllDone, LoadFails, Load, NoMoreAttempts, StartHelper,
       Plain, RunEnds, Cleanup, CleanupFails, Reported, Stop, HelperEnds, Silent, logVars, vars

LEMMA StepsOfLog ==
  ASSUME [Next]_vars
  PROVE  \/ Quiet
         \/ ~crashed /\ (Logging \/ HelperLogs)
         \/ ~crashed /\ (Receive \/ Tick \/ FlushOutput \/ CloseLog)
BY DEF Next, Running, Main, Helper, RunHooks, Quiet, Logging

(* Every step keeps the lines and their order, and only a line that is     *)
(* logged is new.                                                          *)
LEMMA SaysKeeps ==
  ASSUME LogTypes, Conserved, ~crashed, NEW line \in Lines, Says(line)
  PROVE  LogTypes' /\ Conserved' /\ logged' = Append(logged, line)
<1>1. /\ data \in Seq(Lines) /\ buffer \in Seq(Lines)
      /\ file \in Seq(Lines) /\ logged \in Seq(Lines)
  BY DEF LogTypes
<1>2. UNCHANGED <<buffer, file>> /\ logged' = Append(logged, line)
  BY DEF Says, Log!Write
<1>3. Append(logged, line) = logged \o <<line>> /\ Append(logged, line) \in Seq(Lines)
  BY <1>1, AppendIsConcat, AppendProperties
<1>4. CASE closed
  BY <1>1, <1>2, <1>3, <1>4 DEF Says, Log!Write, LogTypes, Conserved
<1>5. CASE ~closed
  <2>1. data' = Append(data, line)
    BY <1>5 DEF Says, Log!Write
  <2>2. Append(data, line) = data \o <<line>> /\ Append(data, line) \in Seq(Lines)
    BY <1>1, AppendIsConcat, AppendProperties
  <2>3. file \o buffer \in Seq(Lines) /\ <<line>> \in Seq(Lines)
    BY Regroup
  <2>4. \A s, t \in Seq(Lines) : (file \o buffer) \o (s \o t) = ((file \o buffer) \o s) \o t
    BY Regroup
  <2>5. (file \o buffer) \o (data \o <<line>>) = ((file \o buffer) \o data) \o <<line>>
    BY <1>1, <2>3, <2>4
  <2>6. (file \o buffer) \o data = logged
    BY DEF Conserved
  <2>7. (file' \o buffer') \o data' = logged'
    BY <1>2, <1>3, <2>1, <2>2, <2>5, <2>6
  <2>8. QED
    BY <1>1, <1>2, <1>3, <2>1, <2>2, <2>7 DEF LogTypes, Conserved
<1>6. QED
  BY <1>2, <1>4, <1>5

(* What is taken of the channel when it is closed: all of it, if that much *)
(* is taken and no goroutine waits.                                        *)
LEMMA Taken ==
  ASSUME LogAssumption, LogTypes
  PROVE  LET taken == SubSeq(Log!Pending, 1, Log!Least(Capacity, Len(Log!Pending)))
             n == Log!Least(Capacity, Log!Least(DrainMax, Len(data)))
         IN  /\ taken \in Seq(Lines) /\ n \in 0 .. Len(data)
             /\ taken = SubSeq(data, 1, n) /\ Len(taken) = n
             /\ Len(data) <= Capacity /\ Capacity <= DrainMax => n = Len(data)
<1> DEFINE m == Log!Least(DrainMax, Len(data))
           n == Log!Least(Capacity, m)
<1>1. data \in Seq(Lines) /\ Len(data) \in Nat /\ Capacity \in Nat \ {0} /\ DrainMax \in Nat
  BY LenProperties DEF LogTypes, LogAssumption
<1>2. m \in 0 .. Len(data)
  BY <1>1 DEF Log!Least
<1>3. n \in 0 .. m /\ (Len(data) <= Capacity /\ Capacity <= DrainMax => n = Len(data))
  BY <1>1, <1>2 DEF Log!Least
<1>4. Log!Pending = SubSeq(data, 1, m) /\ Len(Log!Pending) = m
  BY <1>1, <1>2, SplitAt DEF Log!Pending
<1> HIDE DEF m, n
<1>5. SubSeq(SubSeq(data, 1, m), 1, n) = SubSeq(data, 1, n)
  BY <1>1, <1>2, <1>3
<1>6. n \in 0 .. Len(data)
  BY <1>1, <1>2, <1>3
<1>7. SubSeq(data, 1, n) \in Seq(Lines) /\ Len(SubSeq(data, 1, n)) = n
  BY <1>1, <1>6, SplitAt
<1>8. QED
  BY <1>3, <1>4, <1>5, <1>6, <1>7 DEF m, n

LEMMA FlushFields ==
  ASSUME NEW lines, NEW o \in Log!Flush(lines)
  PROVE  LET c == [o EXCEPT !.handle = FALSE, !.error = o.error /\ ~o.handle]
         IN  c.file = o.file /\ c.buffer = o.buffer
BY DEF Log!Flush, Log!Outcome

LEMMA LogStep ==
  ASSUME GroupTypes, LogAssumption, LogTypes, Conserved, [Next]_vars
  PROVE  LogTypes' /\ Conserved'
<1> USE DEF Conserved
<1>1. CASE Quiet
  BY <1>1, QuietIsSilent DEF LogTypes
<1>2. CASE ~crashed /\ (Logging \/ HelperLogs)
  <2>1. PICK line \in Lines : Says(line)
    <3>1. Len(logged) \in Nat /\ index \in Nat
      BY LenProperties DEF LogTypes, GroupTypes
    <3>2. Line \in Lines /\ Late \in Lines /\ ErrorOf(index) \in Lines
      BY <3>1 DEF Line, Late, ErrorOf, Lines
    <3>3. QED
      BY <1>2, <3>2 DEF Logging, HelperLogs, Report
  <2>2. QED
    BY <1>2, <2>1, SaysKeeps
<1>3. CASE ~crashed /\ (Receive \/ Tick \/ FlushOutput \/ CloseLog)
  <2>1. /\ data \in Seq(Lines) /\ buffer \in Seq(Lines)
        /\ file \in Seq(Lines) /\ logged \in Seq(Lines)
    BY DEF LogTypes
  <2>2. file \o buffer \o data = logged
    BY <1>3
  <2>3. CASE Receive
    <3>1. /\ data # <<>> /\ buffer' = Append(buffer, Head(data)) /\ data' = Tail(data)
          /\ file' = file /\ logged' = logged
      BY <2>3 DEF Receive, Rest, Log!Receive
    <3>2. Head(data) \in Lines /\ Tail(data) \in Seq(Lines) /\ <<Head(data)>> \o Tail(data) = data
      BY <2>1, <3>1
    <3>3. Append(buffer, Head(data)) = buffer \o <<Head(data)>> /\ buffer' \in Seq(Lines)
      BY <2>1, <3>1, <3>2, AppendIsConcat, AppendProperties
    <3>4. <<Head(data)>> \in Seq(Lines)
      BY <3>2
    <3>5. \A s, t \in Seq(Lines) : (file \o (buffer \o s)) \o t = (file \o buffer) \o (s \o t)
      <4>1. \A s \in Seq(Lines) : file \o (buffer \o s) = (file \o buffer) \o s
        BY Regroup
      <4>2. \A s, t \in Seq(Lines) : ((file \o buffer) \o s) \o t = (file \o buffer) \o (s \o t)
        BY Regroup
      <4>3. QED
        BY <4>1, <4>2
    <3>6. (file \o (buffer \o <<Head(data)>>)) \o Tail(data) = (file \o buffer) \o (<<Head(data)>> \o Tail(data))
      BY <3>2, <3>4, <3>5
    <3>7. file' \o buffer' \o data' = logged'
      BY <2>2, <3>1, <3>2, <3>3, <3>6
    <3>8. QED
      BY <2>1, <3>1, <3>2, <3>3, <3>7 DEF LogTypes
  <2>4. CASE Tick
    <3>1. PICK o \in Log!Flush(buffer) : Log!Becomes(o)
      BY <2>4 DEF Tick, Log!Tick
    <3>2. /\ file' = o.file /\ buffer' = o.buffer /\ data' = data /\ logged' = logged
      BY <2>4, <3>1 DEF Tick, Rest, Log!Tick, Log!Becomes
    <3>3. o.file \in Seq(Lines) /\ o.buffer \in Seq(Lines) /\ o.file \o o.buffer = file \o buffer
      BY <2>1, FlushKeeps
    <3>4. QED
      BY <2>1, <2>2, <3>2, <3>3 DEF LogTypes
  <2>5. ASSUME NEW n \in 0 .. Len(data), NEW o \in Log!Flush(buffer \o SubSeq(data, 1, n)),
               file' = o.file, buffer' = o.buffer, data' = SubSeq(data, n + 1, Len(data)), logged' = logged
        PROVE  LogTypes' /\ Conserved'
    BY <2>2, <2>5, FlushConserves
  <2>6. CASE FlushOutput
    <3>1. PICK o \in Log!Flush(buffer \o Log!Pending) : Log!Becomes(o)
      BY <2>6 DEF FlushOutput, Log!ServeFlush
    <3>2. /\ file' = o.file /\ buffer' = o.buffer /\ logged' = logged
          /\ data' = SubSeq(data, Len(Log!Pending) + 1, Len(data))
      BY <2>6, <3>1 DEF FlushOutput, Log!ServeFlush, Log!Becomes
    <3> DEFINE n == Log!Least(DrainMax, Len(data))
    <3>3. n \in 0 .. Len(data) /\ Log!Pending = SubSeq(data, 1, n) /\ Len(Log!Pending) = n
      <4>1. n \in 0 .. Len(data)
        BY <2>1, LenProperties DEF LogAssumption, Log!Least
      <4>2. QED
        BY <2>1, <4>1, SplitAt DEF Log!Pending
    <3> HIDE DEF n
    <3>4. QED
      BY <2>5, <3>1, <3>2, <3>3
  <2>7. CASE CloseLog
    <3>1. PICK taken \in Seq(Lines), n \in 0 .. Len(data) :
            /\ taken = SubSeq(data, 1, n) /\ Len(taken) = n
            /\ \E o \in Log!Flush(buffer \o taken) :
                 Log!Becomes([o EXCEPT !.handle = FALSE, !.error = o.error /\ ~o.handle])
            /\ data' = SubSeq(data, Len(taken) + 1, Len(data))
      BY <2>7, Taken DEF CloseLog, Log!ServeClose
    <3>2. PICK o \in Log!Flush(buffer \o taken) :
            Log!Becomes([o EXCEPT !.handle = FALSE, !.error = o.error /\ ~o.handle])
      BY <3>1
    <3>3. file' = o.file /\ buffer' = o.buffer
      BY <3>1, <3>2, FlushFields DEF Log!Becomes
    <3>4. logged' = logged
      BY <2>7 DEF CloseLog
    <3>5. QED
      BY <2>5, <3>1, <3>2, <3>3, <3>4
  <2>8. QED
    BY <1>3, <2>3, <2>4, <2>6, <2>7
<1>4. QED
  BY <1>1, <1>2, <1>3, StepsOfLog

-----------------------------------------------------------------------------
(* The error of each profile that failed is logged, but for the one that   *)
(* is about to be, and the one that panicked.                              *)
InLog(line) == \E n \in 1 .. Len(logged) : logged[n] = line

ErrorsLogged ==
  \A i \in failed : \/ outcome = "panic" /\ i = index
                    \/ place = "report" /\ i = index
                    \/ InLog(ErrorOf(i))

(* Nothing is left in the channel of a log that is closed.                 *)
DrainedAtClose == place \in {"hooks", "end"} /\ ~crashed => closed /\ data = <<>>

LEMMA SaidIsLogged ==
  ASSUME logged \in Seq(Lines), NEW line \in Lines, logged' = Append(logged, line)
  PROVE  InLog(line)' /\ \A x : InLog(x) => InLog(x)'
<1>1. /\ Len(logged) \in Nat /\ Len(logged') = Len(logged) + 1 /\ logged'[Len(logged) + 1] = line
      /\ \A n \in 1 .. Len(logged) : logged'[n] = logged[n]
  BY LenProperties, AppendProperties
<1>2. \A n \in 1 .. Len(logged) : n \in 1 .. Len(logged')
  BY <1>1
<1>3. Len(logged) + 1 \in 1 .. Len(logged')
  BY <1>1
<1>4. QED
  BY <1>1, <1>2, <1>3 DEF InLog

LEMMA LinesStay ==
  ASSUME GroupTypes, LogTypes, [Next]_vars
  PROVE  /\ \A x : InLog(x) => InLog(x)'
         /\ Report => InLog(ErrorOf(index))'
<1>1. Len(logged) \in Nat /\ index \in Nat /\ logged \in Seq(Lines)
  BY LenProperties DEF LogTypes, GroupTypes
<1>2. Line \in Lines /\ Late \in Lines /\ ErrorOf(index) \in Lines
  BY <1>1 DEF Line, Late, ErrorOf, Lines
<1>3. \A line : Says(line) => logged' = Append(logged, line)
  BY DEF Says
<1>4. CASE Report
  BY <1>1, <1>2, <1>4, SaidIsLogged DEF Report, Says
<1>5. ASSUME HelperLogs \/ Logging
      PROVE  \A x : InLog(x) => InLog(x)'
  <2>1. PICK line \in Lines : logged' = Append(logged, line)
    BY <1>2, <1>3, <1>5 DEF HelperLogs, Logging, Report
  <2>2. QED
    BY <1>1, <2>1, SaidIsLogged
<1>6. ASSUME UNCHANGED logged
      PROVE  \A x : InLog(x) => InLog(x)'
  BY <1>6 DEF InLog
<1>7. Receive \/ Tick \/ FlushOutput \/ CloseLog => UNCHANGED logged
  BY DEF Receive, Tick, Rest, FlushOutput, CloseLog
<1>8. Quiet => UNCHANGED logged
  BY QuietIsSilent
<1>9. QED
  BY <1>4, <1>5, <1>6, <1>7, <1>8, StepsOfLog

LEMMA ErrorsLoggedStep ==
  ASSUME GroupTypes, ExitSoFar, LogTypes, ErrorsLogged, [Next]_vars
  PROVE  ErrorsLogged'
<1>1. \A i : InLog(ErrorOf(i)) => InLog(ErrorOf(i))'
  BY LinesStay DEF ErrorOf
<1>2. ASSUME StartFails \/ Start \/ AllDone \/ Stop \/ CloseLog \/ RunHooks \/ NoMoreAttempts
      PROVE  ErrorsLogged'
  BY <1>1, <1>2 DEF ErrorsLogged, StartFails, Start, AllDone, Stop, CloseLog, RunHooks,
                    NoMoreAttempts, past
<1>3. CASE NextProfile
  <2>1. outcome # "panic" /\ place = "next" /\ failed' = failed
    BY <1>3 DEF NextProfile, ExitSoFar, Stopping
  <2>2. QED
    BY <1>1, <2>1 DEF ErrorsLogged
<1>4. ASSUME LoadFails \/ Load \/ RunEnds
      PROVE  ErrorsLogged'
  <2>1. place \in {"open", "running", "ran"} /\ outcome # "panic" /\ failed' = failed
    BY <1>4 DEF LoadFails, Load, RunEnds, ExitSoFar, Stopping, past
  <2>2. QED
    BY <1>1, <2>1 DEF ErrorsLogged
<1>5. ASSUME StartHelper \/ Plain \/ FlushOutput
      PROVE  ErrorsLogged'
  BY <1>1, <1>5 DEF ErrorsLogged, StartHelper, Plain, FlushOutput, past
<1>6. CASE Cleanup
  <2>1. /\ place = "cleanup" /\ UNCHANGED <<outcome, index>>
        /\ failed' = IF outcome = "ok" THEN failed ELSE failed \cup {index}
    BY <1>6 DEF Cleanup
  <2>2. outcome = "error" => place' = "report"
    BY <1>6 DEF Cleanup
  <2>3. outcome \in {"ok", "error", "panic"}
    BY DEF GroupTypes
  <2>4. QED
    BY <1>1, <2>1, <2>2, <2>3 DEF ErrorsLogged
<1>7. CASE CleanupFails
  <2>1. /\ place = "cleanup" /\ outcome' = "panic" /\ index' = index
        /\ failed' = IF outcome = "ok" THEN failed ELSE failed \cup {index}
    BY <1>7 DEF CleanupFails, past
  <2>2. QED
    BY <1>1, <2>1 DEF ErrorsLogged
<1>8. CASE Report
  <2>1. InLog(ErrorOf(index))' /\ UNCHANGED <<index, outcome, failed>>
    BY <1>8, LinesStay DEF Report, past
  <2>2. QED
    BY <1>1, <2>1 DEF ErrorsLogged, ErrorOf
<1>9. CASE Reported
  BY <1>1, <1>9 DEF ErrorsLogged, Reported, past
<1>10. ASSUME Helper \/ Receive \/ Tick \/ UNCHANGED vars
       PROVE  ErrorsLogged'
  <2>1. UNCHANGED <<place, index, outcome, failed>>
    BY <1>10, OthersKeepControl DEF control, past
  <2>2. QED
    BY <1>1, <2>1 DEF ErrorsLogged
<1>11. QED
  BY <1>2, <1>3, <1>4, <1>5, <1>6, <1>7, <1>8, <1>9, <1>10 DEF Next, Main

LEMMA DrainedStep ==
  ASSUME LogAssumption, Capacity <= DrainMax, GroupTypes, LogTypes, DrainedAtClose, [Next]_vars
  PROVE  DrainedAtClose'
<1> USE DEF DrainedAtClose
<1>1. CASE CloseLog
  <2>1. /\ crashed' = (Len(data) > Capacity) /\ closed' = TRUE
        /\ data' = SubSeq(data, Len(SubSeq(Log!Pending, 1, Log!Least(Capacity, Len(Log!Pending)))) + 1, Len(data))
    BY <1>1 DEF CloseLog, Log!ServeClose
  <2>2. Len(data) \in Nat /\ Capacity \in Nat /\ data \in Seq(Lines)
    BY LenProperties DEF LogTypes, LogAssumption
  <2>3. CASE Len(data) > Capacity
    BY <2>1, <2>3
  <2>4. CASE Len(data) <= Capacity
    <3>1. Len(SubSeq(Log!Pending, 1, Log!Least(Capacity, Len(Log!Pending)))) = Len(data)
      BY <2>4, Taken
    <3>2. SubSeq(data, Len(data) + 1, Len(data)) = <<>>
      BY <2>2, SubSeqEmpty
    <3>3. QED
      BY <2>1, <3>1, <3>2
  <2>5. QED
    BY <2>2, <2>3, <2>4
<1>2. CASE RunHooks
  <2>1. place = "hooks"
    BY <1>2 DEF RunHooks
  <2>2. CASE Silent
    BY <2>1, <2>2 DEF Silent, logVars
  <2>3. CASE Says(Late)
    BY <2>1, <2>3 DEF Says, Log!Write
  <2>4. QED
    BY <1>2, <2>2, <2>3 DEF RunHooks
<1>3. CASE HelperLogs
  BY <1>3 DEF HelperLogs, Says, Log!Write
<1>4. CASE HelperEnds
  BY <1>4 DEF HelperEnds, Silent, logVars
<1>5. ASSUME Receive \/ Tick
      PROVE  DrainedAtClose'
  BY <1>5 DEF Receive, Tick, Rest, Log!Receive, Log!Tick
<1>6. ASSUME StartFails \/ Start \/ NextProfile \/ AllDone \/ LoadFails \/ Load \/ NoMoreAttempts
      PROVE  DrainedAtClose'
  <2>1. place' \notin {"hooks", "end"}
    BY <1>6 DEF StartFails, Start, NextProfile, AllDone, LoadFails, Load, NoMoreAttempts, Fails
  <2>2. QED
    BY <2>1
<1>7. ASSUME StartHelper \/ Plain \/ FlushOutput \/ RunEnds \/ CleanupFails \/ Report \/ Reported \/ Stop
      PROVE  DrainedAtClose'
  <2>1. place' \notin {"hooks", "end"}
    BY <1>7 DEF StartHelper, Plain, FlushOutput, RunEnds, CleanupFails, Report, Reported, Stop
  <2>2. QED
    BY <2>1
<1>8. CASE Cleanup
  <2>1. place' \notin {"hooks", "end"}
    BY <1>8 DEF GroupTypes, Cleanup
  <2>2. QED
    BY <2>1
<1>9. CASE UNCHANGED vars
  BY <1>9 DEF vars, logVars
<1>10. QED
  BY <1>1, <1>2, <1>3, <1>4, <1>5, <1>6, <1>7, <1>8, <1>9 DEF Next, Main, Helper

(* For every group, however often the log file cannot be opened or a write *)
(* stops on the way, and for every size of the channel: nothing that is    *)
(* logged is lost or changes places before the log is closed; and, if as   *)
(* much is taken at once as the channel holds, the error of each profile   *)
(* that failed is in the file once the last write went through.            *)
THEOREM NothingLost ==
  ASSUME GroupAssumption, LogAssumption, Capacity <= DrainMax
  PROVE  Spec => []LogKept
<1> DEFINE Inv == /\ GroupTypes /\ ExitSoFar
                  /\ LogTypes /\ Conserved
                  /\ ErrorsLogged /\ DrainedAtClose
<1>1. Init => Inv
  <2> SUFFICES ASSUME Init PROVE Inv
    OBVIOUS
  <2>1. GroupTypes /\ ExitSoFar
    BY ControlInit DEF ControlInv
  <2>2. data = <<>> /\ buffer = <<>> /\ file = <<>> /\ logged = <<>> /\ failed = {} /\ place = "start"
    BY DEF Init, Log!Init
  <2>3. LogTypes /\ Conserved
    BY <2>2 DEF LogTypes, Conserved
  <2>4. ErrorsLogged /\ DrainedAtClose
    BY <2>2 DEF ErrorsLogged, DrainedAtClose
  <2>5. QED
    BY <2>1, <2>3, <2>4
<1>2. Inv /\ [Next]_vars => Inv'
  BY TypesStep, ExitStep, LogStep, ErrorsLoggedStep, DrainedStep
<1>3. Inv => LogKept
  <2> SUFFICES ASSUME Inv PROVE LogKept
    OBVIOUS
  <2>1. CASE place \in {"hooks", "end"} /\ ~crashed /\ buffer = <<>>
    <3>1. file \in Seq(Lines) /\ data = <<>> /\ file \o buffer \o data = logged
      BY <2>1 DEF LogTypes, Conserved, DrainedAtClose
    <3>2. file = logged
      BY <2>1, <3>1
    <3>3. \A i \in failed : (outcome = "panic" /\ i = index) \/ InLog(ErrorOf(i))
      BY <2>1 DEF ErrorsLogged
    <3>4. FailuresLogged
      BY <3>2, <3>3 DEF FailuresLogged, InLog
    <3>5. QED
      BY <3>4 DEF LogKept
  <2>2. QED
    BY <2>1 DEF LogKept, FailuresLogged
<1>4. QED
  BY <1>1, <1>2, <1>3, PTL DEF Spec
=============================================================================
