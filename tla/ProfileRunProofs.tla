-------------------------- MODULE ProfileRunProofs --------------------------
(***************************************************************************)
(* For every configuration of hooks and commands, with or without panics:  *)
(* what ProfileRun says of the error a run reports, of the hooks for       *)
(* failures and for every end, and of the lock around them.  The second    *)
(* part is about the restic commands of such a run: for every lock wait,   *)
(* every delay and every duration, what ResticRetry says of the time       *)
(* slept, of the unlock and of the room left for another try.              *)
(***************************************************************************)
EXTENDS ProfileRun, ResticRetry, TLAPS

\* Where a run is: before its end and without an error, or on its way out.
Main == Strict \cup Lenient
Closing == Finally \cup {"unlock", "end"}

LEMMA StagesKnown ==
  /\ Stages = Main \cup OnFailure \cup Finally
  /\ {"lock", "unlock", "end", NoError} \cap Stages = {}
  /\ \A s \in Strict : s \in Main /\ s \notin OnFailure \cup Finally \cup Lenient
  /\ \A s \in Main : s \notin OnFailure \cup Finally
  /\ \A s \in OnFailure : s \notin Main \cup Finally
  /\ \A s \in Finally : s \notin Main \cup OnFailure
BY DEF Stages, Main, Strict, Lenient, OnFailure, Finally, NoError

(* The order of the stages, as far as the failure and the finally hooks    *)
(* can tell.                                                               *)
LEMMA AfterMain ==
  \A s \in Main : After[s] \in Main \cup {"sectionFinally"}
BY DEF After, Main, Strict, Lenient

LEMMA AfterHooks ==
  /\ After["sendAfterFail"] = "sectionFail"
  /\ After["sectionFail"] = "profileFail"
  /\ After["profileFail"] = "sectionFinally"
  /\ After["sectionFinally"] = "profileFinally"
  /\ After["profileFinally"] = "sendFinally"
  /\ After["sendFinally"] = "unlock"
BY DEF After

-----------------------------------------------------------------------------
(* The invariant.  An error is known to be one of the main sequence once   *)
(* the run has turned to its failure hooks, and to be none before          *)
(* (ErrorSoFar); until then no hook for failures or ends has been told     *)
(* anything (NotYetTold).  While the failure hooks are at work, those      *)
(* before the one at hand are complete (FailureSoFar), and so are, on the  *)
(* way out, those for every end (FinallySoFar).                            *)
ErrorSoFar ==
  /\ err = "lock" => place = "end"
  /\ err = NoError => failed \cap Strict = {} /\ place \notin OnFailure
  /\ err \notin {NoError, "lock"} => failed \cap Strict # {} /\ place \in OnFailure \cup Closing

NotYetTold ==
  place \in Main \cup {"lock"} => \A s \in OnFailure \cup Finally : told[s] = {}

FailureSoFar ==
  /\ err = NoError => \A s \in OnFailure : done[s] = 0
  /\ "sectionFail" \in failed => place \in Closing
  /\ place \in {"sendAfterFail", "sectionFail"} => done["profileFail"] = 0
  /\ panicked = NoError /\ place = "sectionFail" => AllDone("sendAfterFail")
  /\ panicked = NoError /\ place = "profileFail" => AllDone("sendAfterFail") /\ AllDone("sectionFail")
  /\ panicked = NoError /\ place \in Closing /\ err \notin {NoError, "lock"} =>
       /\ AllDone("sendAfterFail")
       /\ AllDone("sectionFail") \/ "sectionFail" \in failed
       /\ IF "sectionFail" \in failed THEN done["profileFail"] = 0
          ELSE AllDone("profileFail") \/ "profileFail" \in failed

FinallySoFar ==
  err # "lock" =>
    /\ place \in {"profileFinally", "sendFinally", "unlock", "end"} => AllDone("sectionFinally")
    /\ place \in {"sendFinally", "unlock", "end"} => AllDone("profileFinally")

LockSoFar == place \in Stages \cup {"unlock"} => held = locking

ErrorInv == TypeOK /\ ErrorSoFar /\ NotYetTold /\ ToldTheFailure
HookInv == FailureSoFar /\ FinallySoFar
RunInv == ErrorInv /\ HookInv /\ LockSoFar

LEMMA InitInv ==
  ASSUME SizesAssumption, Init
  PROVE  RunInv
<1>1. TypeOK
  <2>1. done \in [Stages -> 0 .. MaxHooks]
    BY DEF SizesAssumption, Init
  <2>2. told \in [Stages -> SUBSET (Strict \cup {NoError})]
    BY DEF Init
  <2>3. QED
    BY <2>1, <2>2 DEF Init, TypeOK, Places
<1>2. ErrorSoFar /\ NotYetTold /\ ToldTheFailure
  BY StagesKnown DEF Init, ErrorSoFar, NotYetTold, ToldTheFailure, OnFailure, NoError
<1>3. HookInv /\ LockSoFar
  BY StagesKnown DEF Init, HookInv, FailureSoFar, FinallySoFar, LockSoFar, NoError, OnFailure
<1>4. QED
  BY <1>1, <1>2, <1>3 DEF RunInv, ErrorInv

(* What the start of an action does to the lists.                          *)
LEMMA Started ==
  ASSUME SizesAssumption, TypeOK, NEW s \in Stages, Start(s)
  PROVE  /\ place = s
         /\ done[s] # size[s]
         /\ done' \in [Stages -> 0 .. MaxHooks] /\ told' \in [Stages -> SUBSET (Strict \cup {NoError, "lock"})]
         /\ \A t \in Stages \ {s} : done'[t] = done[t] /\ told'[t] = told[t]
         /\ told'[s] = told[s] \cup {err}
         /\ UNCHANGED <<size, locking, held>>
<1>1. size \in [Stages -> 0 .. MaxHooks]
  BY DEF SizesAssumption, TypeOK
<1>2. MaxHooks \in Nat
  BY DEF SizesAssumption
<1>3. done \in [Stages -> 0 .. MaxHooks]
  BY DEF TypeOK
<1>4. place = s /\ done[s] < size[s] /\ done' = [done EXCEPT ![s] = @ + 1]
  BY DEF Start, Pending
<1>5. done[s] + 1 \in 0 .. MaxHooks
  BY <1>1, <1>2, <1>3, <1>4
<1>6. told \in [Stages -> SUBSET (Strict \cup {NoError})] /\ err \in Strict \cup {NoError, "lock"}
  BY DEF TypeOK
<1>7. told' = [told EXCEPT ![s] = @ \cup {err}]
  BY DEF Start
<1>8. told' \in [Stages -> SUBSET (Strict \cup {NoError, "lock"})]
  BY <1>6, <1>7
<1>9. \A t \in Stages \ {s} : done'[t] = done[t] /\ told'[t] = told[t]
  BY <1>3, <1>4, <1>6, <1>7
<1>10. told'[s] = told[s] \cup {err}
  BY <1>6, <1>7
<1>11. done[s] # size[s]
  BY <1>1, <1>2, <1>3, <1>4
<1>12. QED
  BY <1>3, <1>4, <1>5, <1>11, <1>8, <1>9, <1>10 DEF Start, config

(* While an action starts, the error so far is what its stage may be told. *)
LEMMA StartedKnowing ==
  ASSUME SizesAssumption, ErrorInv, NEW s \in Stages, Start(s)
  PROVE  /\ err # "lock"
         /\ s \in Main => err = NoError
         /\ s \in OnFailure => err # NoError
         /\ told' \in [Stages -> SUBSET (Strict \cup {NoError})]
         /\ err' = err => ToldTheFailure'
<1> USE StagesKnown DEF ErrorInv
<1>1. place = s
  BY Started
<1>2. err \in Strict \cup {NoError, "lock"} /\ told \in [Stages -> SUBSET (Strict \cup {NoError})]
  BY DEF TypeOK
<1>3. err # "lock" /\ (s \in Main => err = NoError) /\ (s \in OnFailure => err # NoError)
  BY <1>1, <1>2 DEF ErrorSoFar, Closing
<1>4. told' \in [Stages -> SUBSET (Strict \cup {NoError})]
  <2>1. told'[s] \in SUBSET (Strict \cup {NoError})
    <3>1. told[s] \subseteq Strict \cup {NoError} /\ err \in Strict \cup {NoError}
      BY <1>2, <1>3
    <3>2. told'[s] = told[s] \cup {err}
      BY Started
    <3>3. QED
      BY <3>1, <3>2
  <2>2. \A t \in Stages : told'[t] \in SUBSET (Strict \cup {NoError})
    BY <2>1, <1>2, Started
  <2>3. QED
    BY <2>2, Started
<1>5. ASSUME err' = err PROVE ToldTheFailure'
  <2> SUFFICES ASSUME NEW t \in Stages
               PROVE  told'[t] \subseteq IF t \in OnFailure \cup Finally THEN {err} ELSE {NoError}
    BY <1>5 DEF ToldTheFailure
  <2>1. told[t] \subseteq IF t \in OnFailure \cup Finally THEN {err} ELSE {NoError}
    BY DEF ToldTheFailure
  <2>2. t = s => told'[t] = told[t] \cup {err}
    BY Started
  <2>3. t # s => told'[t] = told[t]
    BY Started
  <2>4. t = s /\ t \notin OnFailure \cup Finally => err = NoError
    BY <1>3
  <2>5. QED
    BY <2>1, <2>2, <2>3, <2>4
<1>6. QED
  BY <1>3, <1>4, <1>5

(* An action that leaves the error and the place of the run as they are,   *)
(* or takes it to the finally hooks, preserves what is known of the error. *)
LEMMA StartedQuietly ==
  ASSUME SizesAssumption, ErrorInv, NEW s \in Stages, Start(s), err' = err,
         failed' \subseteq failed \cup {s}, failed \subseteq failed', s \in Strict => failed' = failed,
         place' \in {place} \cup Closing, panicked' \in {panicked, s}
  PROVE  ErrorInv'
<1> USE StagesKnown DEF ErrorInv
<1>1. place = s
  BY Started
<1>2. TypeOK'
  BY Started, StartedKnowing DEF TypeOK, Places, Closing
<1>3. ErrorSoFar'
  <2>1. failed' \cap Strict = failed \cap Strict
    OBVIOUS
  <2>2. QED
    BY <1>1, <2>1, StartedKnowing DEF ErrorSoFar, Closing
<1>4. NotYetTold'
  <2> SUFFICES ASSUME place' \in Main \cup {"lock"}, NEW t \in OnFailure \cup Finally
               PROVE  told'[t] = {}
    BY DEF NotYetTold
  <2>1. place = s /\ s \in Main /\ t # s
    BY <1>1 DEF Closing
  <2>2. QED
    BY <2>1, Started DEF NotYetTold
<1>5. QED
  BY <1>2, <1>3, <1>4, StartedKnowing

LEMMA ErrorStep ==
  ASSUME SizesAssumption, ErrorInv, NEW s \in Stages, Step(s)
  PROVE  ErrorInv'
<1> USE StagesKnown
<1>1. CASE Succeed(s)
  BY <1>1, StartedQuietly DEF Succeed
<1>2. CASE Fail(s)
  <2>1. Start(s) /\ s \in Strict /\ failed' = failed \cup {s} /\ err' = s /\ place' = "sendAfterFail" /\ panicked' = panicked
    BY <1>2 DEF Fail
  <2>2. place = s /\ err = NoError
    BY <2>1, Started, StartedKnowing DEF ErrorInv
  <2>3. place' \in OnFailure
    BY <2>1 DEF OnFailure
  <2>4. TypeOK'
    BY <2>1, <2>3, Started, StartedKnowing DEF ErrorInv, TypeOK, Places
  <2>5. ErrorSoFar'
    BY <2>1, <2>3 DEF ErrorSoFar
  <2>6. NotYetTold'
    BY <2>3 DEF NotYetTold
  <2>7. ToldTheFailure'
    <3> SUFFICES ASSUME NEW t \in Stages
                 PROVE  told'[t] \subseteq IF t \in OnFailure \cup Finally THEN {s} ELSE {NoError}
      BY <2>1 DEF ToldTheFailure
    <3>1. CASE t = s
      BY <3>1, <2>1, <2>2, Started DEF ErrorInv, ToldTheFailure
    <3>2. CASE t # s
      BY <3>2, <2>1, <2>2, Started DEF ErrorInv, ToldTheFailure, NotYetTold
    <3>3. QED
      BY <3>1, <3>2
  <2>8. QED
    BY <2>4, <2>5, <2>6, <2>7 DEF ErrorInv
<1>3. CASE FailInFailureHook(s)
  <2>1. s \notin Strict /\ place' \in Closing
    BY <1>3 DEF FailInFailureHook, Strict, Closing, Finally
  <2>2. QED
    BY <1>3, <2>1, StartedQuietly DEF FailInFailureHook
<1>4. CASE Tolerate(s)
  <2>1. s \notin Strict
    BY <1>4 DEF Tolerate, Strict, Lenient, Finally
  <2>2. QED
    BY <1>4, <2>1, StartedQuietly DEF Tolerate
<1>5. CASE Panic(s)
  <2>1. place' \in {place} \cup Closing
    BY <1>5 DEF Panic, Closing, Finally
  <2>2. QED
    BY <1>5, <2>1, StartedQuietly DEF Panic
<1>6. CASE Advance(s)
  <2>1. place = s /\ UNCHANGED <<size, locking, held, done, err, told, failed, panicked>>
    BY <1>6 DEF Advance, config
  <2>2. /\ s \in Main => place' \in Main \cup {"sectionFinally"}
        /\ s \in OnFailure => place' \in OnFailure \cup {"sectionFinally"}
        /\ s \in Finally => place' \in Finally \cup {"unlock"}
    BY <1>6, AfterMain, AfterHooks DEF Advance, OnFailure, Finally, Main, Strict, Lenient
  <2>3. "sectionFinally" \in Finally
    BY DEF Finally
  <2>4. TypeOK'
    BY <2>1, <2>2, <2>3 DEF ErrorInv, TypeOK, Places
  <2>5. ErrorSoFar'
    BY <2>1, <2>2, <2>3 DEF ErrorInv, ErrorSoFar, Closing
  <2>6. NotYetTold' /\ ToldTheFailure'
    BY <2>1, <2>2, <2>3 DEF ErrorInv, NotYetTold, ToldTheFailure
  <2>7. QED
    BY <2>4, <2>5, <2>6 DEF ErrorInv
<1>7. QED
  BY <1>1, <1>2, <1>3, <1>4, <1>5, <1>6 DEF Step

(* How far the hooks for failures and for every end have come, whatever    *)
(* becomes of the action that starts: only the list at hand grows.         *)
LEMMA HookStep ==
  ASSUME SizesAssumption, ErrorInv, HookInv, NEW s \in Stages, Step(s)
  PROVE  HookInv'
<1> USE StagesKnown
<1>a. ASSUME Start(s)
      PROVE  /\ place = s /\ s \notin {"unlock", "end"}
             /\ done[s] # size[s]
             /\ \A t \in Stages \ {s} : done'[t] = done[t] /\ (AllDone(t)' <=> AllDone(t))
             /\ s \in OnFailure => err \notin {NoError, "lock"}
             /\ s \in Main => err = NoError
  <2>1. /\ place = s /\ done[s] # size[s] /\ size' = size
        /\ \A t \in Stages \ {s} : done'[t] = done[t]
    BY <1>a, Started DEF ErrorInv
  <2>2. \A t \in Stages \ {s} : AllDone(t)' <=> AllDone(t)
    BY <2>1 DEF AllDone
  <2>3. (s \in OnFailure => err \notin {NoError, "lock"}) /\ (s \in Main => err = NoError)
    BY <1>a, StartedKnowing
  <2>4. QED
    BY <2>1, <2>2, <2>3
<1>b. {"sendAfterFail", "sectionFail", "profileFail"} = OnFailure
  BY DEF OnFailure
<1>c. {"sectionFinally", "profileFinally", "sendFinally"} = Finally
  BY DEF Finally
<1>1. CASE Succeed(s)
  <2>1. Start(s) /\ UNCHANGED <<place, err, failed, panicked>>
    BY <1>1 DEF Succeed
  <2>2. FailureSoFar'
    BY <2>1, <1>a, <1>b, <1>c DEF HookInv, FailureSoFar, Closing
  <2>3. FinallySoFar'
    BY <2>1, <1>a, <1>b, <1>c DEF HookInv, FinallySoFar
  <2>4. QED
    BY <2>2, <2>3 DEF HookInv
<1>2. CASE Fail(s)
  <2>1. Start(s) /\ s \in Strict /\ failed' = failed \cup {s} /\ err' = s /\ place' = "sendAfterFail"
    BY <1>2 DEF Fail
  <2>2. FailureSoFar'
    BY <2>1, <1>a, <1>b, <1>c DEF HookInv, FailureSoFar, Closing
  <2>3. FinallySoFar'
    BY <2>1, <1>c, <1>b DEF FinallySoFar
  <2>4. QED
    BY <2>2, <2>3 DEF HookInv
<1>3. CASE FailInFailureHook(s)
  <2>1. /\ Start(s) /\ s \in {"sectionFail", "profileFail"} /\ failed' = failed \cup {s}
        /\ place' = "sectionFinally" /\ UNCHANGED <<err, panicked>>
    BY <1>3 DEF FailInFailureHook
  <2>2. FailureSoFar'
    BY <2>1, <1>a, <1>b, <1>c DEF HookInv, FailureSoFar, Closing
  <2>3. FinallySoFar'
    BY <2>1 DEF FinallySoFar
  <2>4. QED
    BY <2>2, <2>3 DEF HookInv
<1>4. CASE Tolerate(s)
  <2>1. /\ Start(s) /\ s \notin {"sectionFail", "profileFail"} /\ failed' = failed \cup {s}
        /\ UNCHANGED <<place, err, panicked>>
    BY <1>4 DEF Tolerate, Lenient, Finally
  <2>2. FailureSoFar'
    BY <2>1, <1>a, <1>b, <1>c DEF HookInv, FailureSoFar, Closing
  <2>3. FinallySoFar'
    BY <2>1, <1>a, <1>b, <1>c DEF HookInv, FinallySoFar
  <2>4. QED
    BY <2>2, <2>3 DEF HookInv
<1>5. CASE Panic(s)
  <2>1. /\ Start(s) /\ panicked' # NoError /\ UNCHANGED <<err, failed>>
        /\ IF s \in Main \cup OnFailure THEN place' = "sectionFinally"
           ELSE IF s = "sendFinally" THEN place' = "unlock" ELSE place' = place
    BY <1>5 DEF Panic, Main
  <2>2. FailureSoFar'
    BY <2>1, <1>a, <1>b, <1>c DEF HookInv, FailureSoFar, Closing
  <2>3. FinallySoFar'
    BY <2>1, <1>a, <1>b, <1>c DEF HookInv, FinallySoFar
  <2>4. QED
    BY <2>2, <2>3 DEF HookInv
<1>6. CASE Advance(s)
  <2>1. /\ place = s /\ AllDone(s) /\ UNCHANGED <<size, done, err, failed, panicked>>
        /\ \A t \in Stages : AllDone(t)' <=> AllDone(t)
    BY <1>6 DEF Advance, config, AllDone
  <2>2. /\ s \in Main => place' \in Main \cup {"sectionFinally"} /\ err = NoError
        /\ s = "sendAfterFail" => place' = "sectionFail"
        /\ s = "sectionFail" => place' = "profileFail"
        /\ s = "profileFail" => place' = "sectionFinally"
        /\ s = "sectionFinally" => place' = "profileFinally"
        /\ s = "profileFinally" => place' \in {"sendFinally", "unlock"}
        /\ s = "sendFinally" => place' = "unlock"
    <3>1. s \in Main => err = NoError
      BY <2>1 DEF ErrorInv, ErrorSoFar, TypeOK, Closing
    <3>2. QED
      BY <1>6, <3>1, AfterMain, AfterHooks DEF Advance
  <2>3. FailureSoFar'
    BY <2>1, <2>2, <1>b, <1>c DEF HookInv, FailureSoFar, Closing
  <2>4. FinallySoFar'
    BY <2>1, <2>2, <1>b, <1>c DEF HookInv, FinallySoFar
  <2>5. QED
    BY <2>3, <2>4 DEF HookInv
<1>7. QED
  BY <1>1, <1>2, <1>3, <1>4, <1>5, <1>6 DEF Step

-----------------------------------------------------------------------------
LEMMA LockStep ==
  ASSUME SizesAssumption, TypeOK, LockSoFar, NEW s \in Stages, Step(s)
  PROVE  LockSoFar' /\ (done' # done => held = locking /\ held' = locking)
<1>1. place = s /\ UNCHANGED <<locking, held>>
  BY DEF Step, Succeed, Fail, FailInFailureHook, Tolerate, Panic, Advance, Start, Pending, config
<1>2. QED
  BY <1>1 DEF LockSoFar

LEMMA RunStep ==
  ASSUME SizesAssumption, RunInv, [Next]_vars
  PROVE  RunInv'
<1> USE StagesKnown
<1>1. CASE Lock
  <2>1. /\ place = "lock" /\ place' = "profileBefore" /\ held' = locking
        /\ UNCHANGED <<size, locking, done, err, told, failed, panicked>>
    BY <1>1 DEF Lock, config
  <2>2. "profileBefore" \in Main /\ place' \notin {"sendAfterFail", "sectionFail", "profileFail"}
    BY <2>1 DEF Main, Strict
  <2>3. TypeOK'
    BY <2>1, <2>2 DEF RunInv, ErrorInv, TypeOK, Places
  <2>4. ErrorSoFar' /\ NotYetTold' /\ ToldTheFailure'
    BY <2>1, <2>2 DEF RunInv, ErrorInv, ErrorSoFar, NotYetTold, ToldTheFailure, Closing
  <2>5. HookInv' /\ LockSoFar'
    BY <2>1, <2>2 DEF RunInv, HookInv, FailureSoFar, FinallySoFar, LockSoFar, AllDone, Closing, Finally
  <2>6. QED
    BY <2>3, <2>4, <2>5 DEF RunInv, ErrorInv
<1>2. CASE LockRefused
  <2>1. /\ place = "lock" /\ place' = "end" /\ err' = "lock"
        /\ UNCHANGED <<size, locking, held, done, told, failed, panicked>>
    BY <1>2 DEF LockRefused, config
  <2>2. err = NoError
    BY <2>1 DEF RunInv, ErrorInv, ErrorSoFar, TypeOK, Closing
  <2>3. "lock" # NoError
    BY DEF NoError
  <2>4. TypeOK'
    BY <2>1 DEF RunInv, ErrorInv, TypeOK, Places
  <2>5. ErrorSoFar' /\ NotYetTold'
    BY <2>1, <2>3 DEF ErrorSoFar, NotYetTold
  <2>6. ToldTheFailure'
    BY <2>1 DEF RunInv, ErrorInv, NotYetTold, ToldTheFailure
  <2>7. HookInv' /\ LockSoFar'
    BY <2>1, <2>2, <2>3 DEF RunInv, HookInv, FailureSoFar, FinallySoFar, LockSoFar, AllDone, Closing
  <2>8. QED
    BY <2>4, <2>5, <2>6, <2>7 DEF RunInv, ErrorInv
<1>3. CASE Unlock
  <2>1. /\ place = "unlock" /\ place' = "end" /\ held' = FALSE
        /\ UNCHANGED <<size, locking, done, err, told, failed, panicked>>
    BY <1>3 DEF Unlock, config
  <2>2. TypeOK'
    BY <2>1 DEF RunInv, ErrorInv, TypeOK, Places
  <2>3. ErrorSoFar' /\ NotYetTold' /\ ToldTheFailure'
    BY <2>1 DEF RunInv, ErrorInv, ErrorSoFar, NotYetTold, ToldTheFailure, Closing
  <2>4. HookInv' /\ LockSoFar'
    BY <2>1 DEF RunInv, HookInv, FailureSoFar, FinallySoFar, LockSoFar, AllDone, Closing
  <2>5. QED
    BY <2>2, <2>3, <2>4 DEF RunInv, ErrorInv
<1>4. ASSUME NEW s \in Stages, Step(s) PROVE RunInv'
  BY <1>4, ErrorStep, HookStep, LockStep DEF RunInv, ErrorInv
<1>5. CASE UNCHANGED vars
  BY <1>5 DEF vars, RunInv, ErrorInv, HookInv, TypeOK, ErrorSoFar, NotYetTold, ToldTheFailure,
              FailureSoFar, FinallySoFar, LockSoFar, AllDone
<1>6. QED
  BY <1>1, <1>2, <1>3, <1>4, <1>5 DEF Next

LEMMA RunsKeep ==
  ASSUME SizesAssumption
  PROVE  Spec => []RunInv
<1>1. Init => RunInv
  BY InitInv
<1>2. RunInv /\ [Next]_vars => RunInv'
  BY RunStep
<1>3. QED
  BY <1>1, <1>2, PTL DEF Spec

-----------------------------------------------------------------------------
(* Every variable keeps its type: no list runs past its end.               *)
THEOREM RunTypes ==
  ASSUME SizesAssumption
  PROVE  Spec => []TypeOK
<1>1. RunInv => TypeOK
  BY DEF RunInv, ErrorInv
<1>2. QED
  BY <1>1, RunsKeep, PTL

(* The run reports an error exactly when a command it minds failed, and    *)
(* the hooks that report are told this error and no other                  *)
(* (runOnFailure and runFinal, wrapper.go).                                *)
THEOREM RightError ==
  ASSUME SizesAssumption
  PROVE  Spec => []ErrorPassedOn
<1>1. RunInv => ErrorPassedOn
  BY StagesKnown DEF RunInv, ErrorInv, ErrorPassedOn, ErrorReported, ErrorSoFar, TypeOK
<1>2. QED
  BY <1>1, RunsKeep, PTL

(* Failure hooks run exactly after a failure, in their order and up to a   *)
(* failure of their own; finally hooks run all, in every run that got the  *)
(* lock, whatever fails or panics.                                         *)
THEOREM RightHooks ==
  ASSUME SizesAssumption
  PROVE  Spec => []HooksRun
<1>1. RunInv => FinallyRuns
  BY DEF RunInv, HookInv, FinallySoFar, FinallyRuns, Ended
<1>2. RunInv => FailureHooks
  BY DEF RunInv, HookInv, FailureSoFar, FailureHooks, Ended, Closing
<1>3. QED
  BY <1>1, <1>2, RunsKeep, PTL DEF HooksRun

(* Nothing starts without the lock, in a run that has one to take: its     *)
(* release is deferred before all other deferred functions (lockRun).      *)
THEOREM RightLock ==
  ASSUME SizesAssumption
  PROVE  Spec => LockSpansRun
<1>1. RunInv /\ [Next]_vars => [done' # done /\ locking => held /\ held']_vars
  <2> SUFFICES ASSUME RunInv, Next, done' # done, locking
               PROVE  held /\ held'
    OBVIOUS
  <2>1. PICK s \in Stages : Step(s)
    BY DEF Next, Lock, LockRefused, Unlock
  <2>2. QED
    BY <2>1, LockStep DEF RunInv, ErrorInv
<1>2. QED
  BY <1>1, RunsKeep, PTL DEF Spec, LockSpansRun
-----------------------------------------------------------------------------
(* Truncating a duration to a positive unit does not exceed it.            *)
LEMMA TruncateBound ==
  ASSUME NEW t \in Nat, NEW m \in Nat \ {0}
  PROVE  (t \div m) * m \in 0 .. t
<1>1. t \div m \in Nat
  OBVIOUS
<1>2. (t \div m) * m >= 0
  OBVIOUS
<1>3. m * (t \div m) <= t
  OBVIOUS
<1>4. QED
  BY <1>1, <1>2, <1>3

(* What prepareCommand leaves to restic: nothing, or so much that the      *)
(* retry interval and the least delay still fit in what remains.           *)
LEMMA RetryLockBound ==
  ASSUME DurationAssumption, OptionAssumption,
         elapsed \in Nat, executionTime \in Nat
  PROVE  /\ Remaining \in Nat
         /\ RetryLock \in 0 .. MaxArgument
         /\ RetryLock > 0 => /\ Enabled
                             /\ RetryLock + RetryAfter + MinDelay
                                  <= LockWait - elapsed + executionTime
<1> DEFINE time == Smaller(Remaining - RetryAfter - MinDelay, MaxArgument)
<1>1. Remaining \in Nat /\ (Remaining > 0 => Remaining = LockWait - elapsed + executionTime)
  BY DEF Remaining, Larger, DurationAssumption
<1>2. time \in Int /\ time <= MaxArgument /\ time <= Remaining - RetryAfter - MinDelay
  BY <1>1 DEF Smaller, DurationAssumption
<1>3. CASE Enabled /\ FilterArguments /\ time >= Minute
  <2>1. time \in Nat
    BY <1>2, <1>3 DEF DurationAssumption
  <2>2. RetryLock = (time \div Minute) * Minute
    BY <1>3 DEF RetryLock
  <2>3. RetryLock \in 0 .. time
    BY <2>1, <2>2, TruncateBound DEF DurationAssumption
  <2>4. QED
    BY <1>1, <1>2, <1>3, <2>1, <2>3 DEF DurationAssumption
<1>4. CASE ~(Enabled /\ FilterArguments /\ time >= Minute)
  BY <1>1, <1>4 DEF RetryLock, DurationAssumption
<1>5. QED
  BY <1>3, <1>4

-----------------------------------------------------------------------------
(* The invariant.  TimeAccounted bounds every sleep: it is no longer than  *)
(* what is left of the lock wait once the time slept is taken out.  While  *)
(* restic waits, the room for another try is what RetryLock left; a        *)
(* failure moves it into what remains.                                     *)
SleepInv ==
  /\ TimeAccounted
  /\ SleepBounded

UnlockInv ==
  /\ UnlockedOnce
  /\ pc = "unlock" => unlocks = 0 /\ doneTryUnlock /\ ForceLock

Room == LockWait - elapsed + executionTime - RetryAfter - MinDelay

RoomInv ==
  retryLock > 0 /\ UserRetryLock[commands] = 0 =>
    /\ pc = "running" => Enabled /\ retryLock <= Room
    /\ pc = "decide" /\ reported \in 1 .. retryLock => Enabled /\ 0 <= Room

CommandInv == pc \in {"ready", "running", "decide", "unlock"} => commands < MaxCommands

RetryInv == RetryTypeOK /\ CommandInv /\ SleepInv /\ UnlockInv /\ RoomInv

LEMMA RetryInvInit == RetryInit => RetryInv
<1> USE DEF RetryInit
<1> SUFFICES ASSUME RetryInit PROVE RetryInv
  OBVIOUS
<1>1. RetryTypeOK
  <2>1. doneTryUnlock \in BOOLEAN
    OBVIOUS
  <2>2. 0 \in 0 .. MaxCommands /\ Silent \in Reports
    BY OptionAssumption DEF OptionAssumption, Reports
  <2>3. QED
    BY <2>1, <2>2 DEF RetryTypeOK
<1>2. SleepInv
  BY DurationAssumption DEF SleepInv, TimeAccounted, SleepBounded, DurationAssumption
<1>3. CommandInv /\ UnlockInv /\ RoomInv
  BY DEF CommandInv, UnlockInv, UnlockedOnce, RoomInv
<1>4. QED
  BY <1>1, <1>2, <1>3 DEF RetryInv

(* The --retry-lock that prepareCommand computes leaves room, if it is any. *)
LEMMA StartRoom ==
  ASSUME RetryInv
  PROVE  RetryLock \in Nat /\ (RetryLock > 0 => Enabled /\ RetryLock <= Room)
<1>1. elapsed \in Nat /\ executionTime \in Nat
  BY DEF RetryInv, RetryTypeOK
<1>2. /\ RetryLock \in 0 .. MaxArgument
      /\ RetryLock > 0 => /\ Enabled
                          /\ RetryLock + RetryAfter + MinDelay
                               <= LockWait - elapsed + executionTime
  BY <1>1, RetryLockBound, DurationAssumption, OptionAssumption
<1>3. QED
  BY <1>1, <1>2, DurationAssumption DEF Room, DurationAssumption

(* The wait that restic reports moves from what it was told to wait into    *)
(* what remains, however long the attempt took.                            *)
LEMMA RoomAfterFailure ==
  ASSUME RetryInv, FailOnLock
  PROVE  RoomInv'
<1>1. PICK duration \in 0 .. retryLock + MaxDuration, report \in Reports :
        /\ elapsed' = elapsed + duration
        /\ executionTime' = ExecutionWithout(duration, report)
        /\ reported' = report
  BY DEF FailOnLock
<1>2. pc = "running" /\ pc' = "decide" /\ UNCHANGED <<commands, retryLock>>
  BY DEF FailOnLock
<1>3. /\ retryLock \in Nat /\ executionTime \in Nat /\ elapsed \in Nat /\ duration \in Nat
      /\ MaxDuration \in Nat
  BY <1>1, DurationAssumption DEF RetryInv, RetryTypeOK, DurationAssumption
<1>4. SUFFICES ASSUME retryLock > 0, UserRetryLock[commands] = 0, report \in 1 .. retryLock
               PROVE  Enabled /\ 0 <= Room'
  BY <1>1, <1>2 DEF RoomInv, Enabled
<1>5. Enabled /\ retryLock <= Room
  BY <1>2, <1>4 DEF RetryInv, RoomInv
<1>6. /\ executionTime' \in Nat
      /\ executionTime' >= (executionTime + duration) - report
  BY <1>1, <1>3, <1>4 DEF ExecutionWithout, Larger, Silent
<1>7. 0 <= Room'
  <2>1. /\ Room = LockWait - elapsed + executionTime - RetryAfter - MinDelay
        /\ Room' = LockWait - elapsed' + executionTime' - RetryAfter - MinDelay
    BY DEF Room
  <2>2. LockWait \in Nat /\ RetryAfter \in Nat /\ MinDelay \in Nat
    BY DurationAssumption DEF DurationAssumption
  <2>3. QED
    BY <1>1, <1>3, <1>4, <1>5, <1>6, <2>1, <2>2
<1>8. QED
  BY <1>5, <1>7

(* What fits in the time elapsed fits in it when more has elapsed.         *)
LEMMA TimePasses ==
  ASSUME NEW before \in Nat, NEW after \in Nat, before <= after,
         NEW time \in Nat, NEW spent \in Nat, time \in 0 .. before - spent
  PROVE  time \in 0 .. after - spent
OBVIOUS

LEMMA RetryInvStep == RetryInv /\ [RetryNext]_retryVars => RetryInv'
<1> USE DurationAssumption, OptionAssumption
    DEF RetryInv, RetryTypeOK, CommandInv, SleepInv, UnlockInv, RoomInv, TimeAccounted,
        SleepBounded, UnlockedOnce, Room
<1> SUFFICES ASSUME RetryInv, [RetryNext]_retryVars PROVE RetryInv'
  OBVIOUS
<1>1. CASE WaitForLockfile
  BY <1>1 DEF WaitForLockfile, Smaller, DurationAssumption
<1>2. CASE LockfileTakenOrNot
  BY <1>2 DEF LockfileTakenOrNot
<1>3. CASE Hook
  <2>1. /\ elapsed' \in elapsed .. elapsed + MaxDuration /\ pc' = "ready"
        /\ commands < MaxCommands
        /\ UNCHANGED <<executionTime, doneTryUnlock, commands, retryLock, reported, slept,
                       resticWaited, unlocks, attempts>>
    BY <1>3 DEF Hook
  <2>2. elapsed' \in Nat /\ elapsed <= elapsed'
    BY <2>1 DEF DurationAssumption
  <2>3. RetryTypeOK'
    BY <2>1, <2>2
  <2>4. SleepInv'
    <3>1. executionTime \in 0 .. elapsed' - slept
      BY <2>2, TimePasses
    <3>2. UNCHANGED <<executionTime, slept>>
      BY <2>1
    <3>3. QED
      BY <3>1, <3>2
  <2>5. CommandInv' /\ UnlockInv' /\ RoomInv'
    BY <2>1
  <2>6. QED
    BY <2>3, <2>4, <2>5
<1>4. CASE StartRestic
  <2>1. RetryLock \in Nat /\ (RetryLock > 0 => Enabled /\ RetryLock <= Room)
    BY StartRoom
  <2>2. /\ RetryLockOf(commands) \in Nat
        /\ UserRetryLock[commands] = 0 => RetryLockOf(commands) = RetryLock
    BY <2>1 DEF RetryLockOf, OptionAssumption
  <2>3. RetryTypeOK'
    BY <1>4, <2>2 DEF StartRestic, Reports
  <2>4. CommandInv' /\ SleepInv' /\ UnlockInv'
    BY <1>4 DEF StartRestic
  <2>5. RoomInv'
    <3>1. /\ retryLock' = RetryLockOf(commands) /\ pc' = "running"
          /\ UNCHANGED <<elapsed, executionTime, commands>>
      BY <1>4 DEF StartRestic
    <3>2. Room' = Room /\ (Enabled => Enabled')
      BY <3>1 DEF Enabled
    <3> HIDE DEF Room
    <3>3. QED
      BY <2>1, <2>2, <3>1, <3>2
  <2>6. QED
    BY <2>3, <2>4, <2>5
<1>5. CASE ResticSucceeds
  BY <1>5 DEF ResticSucceeds, Took, DurationAssumption, OptionAssumption
<1>6. CASE FailOtherwise
  BY <1>6 DEF FailOtherwise, Took, DurationAssumption
<1>7. CASE FailOnLock
  <2>1. PICK duration \in 0 .. retryLock + MaxDuration, report \in Reports :
          /\ elapsed' = elapsed + duration
          /\ executionTime' = ExecutionWithout(duration, report)
          /\ reported' = report
    BY <1>7 DEF FailOnLock
  <2>2. /\ pc = "running" /\ pc' = "decide" /\ attempts' = Smaller(attempts + 1, MaxAttempts)
        /\ UNCHANGED <<doneTryUnlock, commands, retryLock, slept, resticWaited, unlocks>>
    BY <1>7 DEF FailOnLock
  <2>3. duration \in Nat /\ report \in Int /\ (report # Silent => report \in Nat)
    BY <2>1 DEF Reports, Silent, DurationAssumption
  <2>4. /\ executionTime' \in 0 .. executionTime + duration
        /\ report \in 1 .. retryLock =>
             executionTime' >= (executionTime + duration) - report
    BY <2>1, <2>3 DEF ExecutionWithout, Larger, Silent
  <2>5. RetryTypeOK'
    BY <2>1, <2>2, <2>3, <2>4 DEF Smaller
  <2>6. CommandInv' /\ SleepInv' /\ UnlockInv'
    BY <2>1, <2>2, <2>3, <2>4
  <2>7. RoomInv'
    BY <1>7, RoomAfterFailure
  <2>8. QED
    BY <2>5, <2>6, <2>7
<1>8. CASE UnlockStale
  BY <1>8 DEF UnlockStale
<1>9. CASE RunUnlock
  BY <1>9 DEF RunUnlock, Took, DurationAssumption
<1>10. CASE SleepAndRetry
  BY <1>10 DEF SleepAndRetry, RetryDelay, Remaining, Smaller, Larger,
    DurationAssumption
<1>11. CASE GiveUp
  BY <1>11 DEF GiveUp
<1>12. CASE Finish
  BY <1>12 DEF Finish
<1>13. CASE UNCHANGED retryVars
  BY <1>13 DEF retryVars
<1>14. QED
  BY <1>1, <1>2, <1>3, <1>4, <1>5, <1>6, <1>7, <1>8, <1>9, <1>10, <1>11,
     <1>12, <1>13 DEF RetryNext

LEMMA RetryInvariant == RetrySpec => []RetryInv
BY RetryInvInit, RetryInvStep, PTL DEF RetrySpec

(* Failed attempts and sleeps.  Only an attempt that was decided on, but   *)
(* not yet slept or unlocked for, is without its price.                    *)
Unpaid == IF pc \in {"decide", "unlock", "failed"} THEN 1 ELSE 0

PaidInv == (attempts - unlocks - Unpaid) * MinDelay <= slept

(* The price of fewer attempts is no higher; that of one more is higher by *)
(* the least delay.                                                        *)
LEMMA Price ==
  ASSUME NEW a \in Int, NEW b \in Int, NEW d \in Nat
  PROVE  /\ a <= b => a * d <= b * d
         /\ (a + 1) * d = a * d + d
OBVIOUS

LEMMA PaidInvStep == RetryInv /\ PaidInv /\ [RetryNext]_retryVars => PaidInv'
<1> SUFFICES ASSUME RetryInv, PaidInv, [RetryNext]_retryVars PROVE PaidInv'
  OBVIOUS
<1> DEFINE owed == attempts - unlocks - Unpaid
<1>1. /\ MinDelay \in Nat /\ MinDelay > 0 /\ LocalSleep \in Nat /\ LockWait \in Nat
      /\ MaxAttempts \in Nat
  BY DurationAssumption, OptionAssumption DEF DurationAssumption, OptionAssumption
<1>2. /\ attempts \in Nat /\ unlocks \in Nat /\ slept \in Nat /\ owed \in Int
      /\ Unpaid \in Int
  BY DEF RetryInv, RetryTypeOK, Unpaid
<1>3. ASSUME owed' \in Int, owed' <= owed, slept' \in Int, slept <= slept'
      PROVE  PaidInv'
  <2>1. owed' * MinDelay <= owed * MinDelay
    BY <1>1, <1>2, <1>3, Price
  <2> HIDE DEF owed
  <2>2. owed * MinDelay \in Int /\ owed' * MinDelay \in Int
    BY <1>1, <1>2, <1>3
  <2>3. owed * MinDelay <= slept
    BY DEF PaidInv, owed
  <2>4. owed' * MinDelay <= slept'
    BY <1>2, <1>3, <2>1, <2>2, <2>3
  <2>5. QED
    BY <2>4 DEF PaidInv, owed
<1>4. CASE SleepAndRetry
  <2>1. RetryDelay >= MinDelay /\ slept' = slept + RetryDelay /\ owed' = owed + 1
    BY <1>2, <1>4 DEF SleepAndRetry, Unpaid
  <2>2. RetryDelay \in Nat
    BY <1>2, DurationAssumption DEF RetryDelay, Remaining, Smaller, Larger, DurationAssumption,
      RetryInv, RetryTypeOK
  <2> HIDE DEF owed
  <2>3. owed' * MinDelay = owed * MinDelay + MinDelay /\ owed * MinDelay \in Int
    BY <1>1, <1>2, <2>1, Price
  <2>4. owed * MinDelay <= slept
    BY DEF PaidInv, owed
  <2>5. owed' * MinDelay <= slept'
    BY <1>1, <1>2, <2>1, <2>2, <2>3, <2>4
  <2>6. QED
    BY <2>5 DEF PaidInv, owed
<1>5. CASE WaitForLockfile
  <2>1. slept' = slept + Smaller(LocalSleep, LockWait) /\ UNCHANGED <<pc, attempts, unlocks>>
    BY <1>5 DEF WaitForLockfile
  <2>2. QED
    BY <1>1, <1>2, <1>3, <2>1 DEF Unpaid, Smaller
<1>6. CASE LockfileTakenOrNot \/ Hook \/ StartRestic \/ ResticSucceeds \/ FailOtherwise \/ UnlockStale
           \/ GiveUp \/ Finish \/ UNCHANGED retryVars
  <2>1. /\ UNCHANGED <<attempts, unlocks, slept>>
        /\ pc \in {"decide", "unlock", "failed"} => pc' \in {"decide", "unlock", "failed"}
    BY <1>6 DEF LockfileTakenOrNot, Hook, StartRestic, ResticSucceeds, FailOtherwise, UnlockStale,
      GiveUp, Finish, retryVars
  <2>2. owed' \in Int /\ owed' <= owed
    BY <1>2, <2>1 DEF Unpaid
  <2>3. QED
    BY <1>2, <1>3, <2>1, <2>2
<1>7. CASE FailOnLock
  <2>1. /\ attempts' = Smaller(attempts + 1, MaxAttempts) /\ UNCHANGED <<unlocks, slept>>
        /\ Unpaid' = 1 /\ Unpaid = 0
    BY <1>7 DEF FailOnLock, Unpaid
  <2>2. QED
    BY <1>1, <1>2, <1>3, <2>1 DEF Smaller
<1>8. CASE RunUnlock
  <2>1. unlocks' = unlocks + 1 /\ pc = "unlock" /\ UNCHANGED <<attempts, slept>>
    BY <1>8 DEF RunUnlock
  <2>2. owed' \in Int /\ owed' <= owed
    BY <1>2, <2>1 DEF Unpaid
  <2>3. QED
    BY <1>2, <1>3, <2>1, <2>2
<1>9. QED
  BY <1>4, <1>5, <1>6, <1>7, <1>8 DEF RetryNext

(* Every variable keeps its type.                                          *)
THEOREM RetryTypes == RetrySpec => []RetryTypeOK
BY RetryInvariant, PTL DEF RetryInv

(* The execution time and the time slept always fit in the elapsed time.   *)
THEOREM RetryTime == RetrySpec => []TimeAccounted
BY RetryInvariant, PTL DEF RetryInv, SleepInv

(* resticprofile never sleeps longer than --lock-wait, but for the last    *)
(* sleep of lockRun.                                                       *)
THEOREM RetrySleep == RetrySpec => []SleepBounded
BY RetryInvariant, PTL DEF RetryInv, SleepInv

(* Neither too much sleep, nor attempts without any: every attempt after a *)
(* failed one was bought with a sleep of at least MinResticLockRetryDelay  *)
(* or with the one unlock (canRetryAfterRemoteLockFailure, wrapper.go).    *)
THEOREM RetrySleeps == RetrySpec => []SleepsMeasured
<1>1. RetryInit => PaidInv
  BY DurationAssumption DEF RetryInit, PaidInv, Unpaid, DurationAssumption
<1>2. RetrySpec => []PaidInv
  BY <1>1, RetryInvariant, PaidInvStep, PTL DEF RetrySpec
<1>3. RetryInv /\ PaidInv => SleepsMeasured
  <2> SUFFICES ASSUME RetryInv, PaidInv PROVE AttemptsPaid
    BY DEF RetryInv, SleepInv, SleepsMeasured
  <2> DEFINE owed == attempts - unlocks - Unpaid
             price == attempts - 1 - unlocks
  <2>1. owed \in Int /\ price \in Int /\ price <= owed /\ MinDelay \in Nat /\ slept \in Nat
    BY DurationAssumption DEF RetryInv, RetryTypeOK, Unpaid, DurationAssumption
  <2>2. owed * MinDelay <= slept
    BY DEF PaidInv
  <2> HIDE DEF owed, price
  <2>3. price * MinDelay <= owed * MinDelay
    BY <2>1, Price
  <2>4. price * MinDelay <= slept
    BY <2>1, <2>2, <2>3
  <2>5. QED
    BY <2>4 DEF AttemptsPaid, price
<1>4. QED
  BY <1>2, <1>3, RetryInvariant, PTL

(* At most one restic unlock in a run, and only with force-inactive-lock.  *)
THEOREM RetryUnlock == RetrySpec => []UnlockedOnce
BY RetryInvariant, PTL DEF RetryInv, UnlockInv

(* When restic has waited in vain, there is time for another try, if the   *)
(* maximal delay admits it.                                                *)
THEOREM RetryRoom == RetrySpec => []RoomForRetry
<1>1. RetryInv => RoomForRetry
  BY DurationAssumption DEF RetryInv, RetryTypeOK, RoomInv, Room, RoomForRetry,
    Remaining, RetryDelay, Smaller, Larger, DurationAssumption
<1>2. QED
  BY <1>1, RetryInvariant, PTL
=============================================================================
