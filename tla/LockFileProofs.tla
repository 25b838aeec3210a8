--------------------------- MODULE LockFileProofs ---------------------------
(***************************************************************************)
(* For any number of runs, of commands and of sleeps: the types of         *)
(* LockFile; what is left of mutual exclusion with force-inactive-lock,    *)
(* where a run may be taken for one that crashed while it is between two   *)
(* commands; and when no run uses force-inactive-lock, mutual exclusion    *)
(* and the refinement of ExclusiveRun.                                     *)
(***************************************************************************)
EXTENDS LockFile, TLAPS

(* Every variable keeps its type, whatever options the runs have.          *)
THEOREM TypeCorrect == Spec => []TypeOK
<1> USE RunAssumption, BoundAssumption
<1>1. Init => TypeOK
  BY DEF Init, TypeOK, Places, NothingRead
<1>2. TypeOK /\ [Next]_vars => TypeOK'
  <2> SUFFICES ASSUME TypeOK, [Next]_vars PROVE TypeOK'
    OBVIOUS
  <2> USE DEF TypeOK, Places, Goto, childVars, waitVars, Final
  <2>1. ASSUME NEW p \in Run, Acquire(p) PROVE TypeOK'
    <3>1. CASE RunWithoutLock(p) BY <3>1 DEF RunWithoutLock
    <3>2. CASE FirstTry(p)
      <4>1. CASE Create(p) BY <3>2, <4>1 DEF FirstTry, Create
      <4>2. CASE CreateFails(p, "who") BY <3>2, <4>2 DEF FirstTry, CreateFails
      <4>3. QED BY <3>2, <4>1, <4>2 DEF FirstTry
    <3>3. CASE Who(p) BY <3>3 DEF Who
    <3>4. CASE Try(p) BY <3>4 DEF Try, Create, CreateFails
    <3>5. CASE ReadLastPID(p) BY <3>5 DEF ReadLastPID, LastPID
    <3>6. CASE CheckPID(p) BY <3>6 DEF CheckPID
    <3>7. CASE RemoveStale(p) BY <3>7 DEF RemoveStale
    <3>8. CASE Recreate(p) BY <3>8 DEF Recreate, Create, CreateFails
    <3>9. CASE GiveUp(p) BY <3>9 DEF GiveUp
    <3>10. CASE Sleep(p) BY <3>10 DEF Sleep
    <3>11. CASE WaitOver(p) BY <3>11 DEF WaitOver
    <3>12. QED
      BY <2>1, <3>1, <3>2, <3>3, <3>4, <3>5, <3>6, <3>7, <3>8, <3>9, <3>10, <3>11
      DEF Acquire
  <2>2. ASSUME NEW p \in Run, Execute(p) PROVE TypeOK'
    <3>1. CASE StartChild(p) BY <3>1 DEF StartChild
    <3>2. CASE SetPID(p) BY <3>2 DEF SetPID
    <3>3. CASE ChildWaited(p) BY <3>3 DEF ChildWaited
    <3>4. CASE ScanFails(p) BY <3>4 DEF ScanFails
    <3>5. CASE Release(p) BY <3>5 DEF Release
    <3>6. QED BY <2>2, <3>1, <3>2, <3>3, <3>4, <3>5 DEF Execute
  <2>3. ASSUME NEW p \in Run, ChildEnds(p) \/ Crash(p) PROVE TypeOK'
    <3>1. CASE ChildEnds(p) BY <3>1 DEF ChildEnds
    <3>2. CASE Crash(p) BY <3>2 DEF Crash
    <3>3. QED BY <2>3, <3>1, <3>2
  <2>4. Next => TypeOK'
    BY <2>1, <2>2, <2>3 DEF Next
  <2>5. UNCHANGED vars => TypeOK'
    BY DEF vars
  <2>6. QED BY <2>4, <2>5
<1>3. QED
  BY <1>1, <1>2, PTL DEF Spec

-----------------------------------------------------------------------------
(* With force-inactive-lock: what is in the files, and what a run that     *)
(* forces its way has read from one.                                       *)
Files ==
  /\ lockfile # NoFile => lockfile \notin Unlocked
  /\ \A p \in Run : lastPID[p] <= started[p]

Readings ==
  \A f \in Run :
    /\ pc[f] \in {"read", "check", "remove", "recreate"} => f \in Forcing \ Unlocked
    /\ pc[f] = "check" => /\ reading[f][1] \in Run \ Unlocked
                          /\ reading[f][2] \in 1 .. started[reading[f][1]]

(* No run is about to remove a file, and who believes to hold the lock     *)
(* does.                                                                   *)
Orderly ==
  \A p \in Run :
    /\ pc[p] \notin {"remove", "recreate"}
    /\ locked[p] => lockfile = p

Aloof == \A p \in Unlocked : pc[p] \in {"begin", "run", "wait", "done", "crashed"}

Shared == Forcing \ Unlocked # {} /\ SomeCommandOver
ForceInv == TypeOK /\ Aloof /\ Files /\ Readings /\ (Orderly \/ Shared)

(* A command that is over stays so.                                        *)
LEMMA OverForGood ==
  ASSUME TypeOK, TypeOK', SomeCommandOver,
         \A p \in Run : \/ started'[p] = started[p] /\ (child'[p] => child[p])
                        \/ started'[p] = started[p] + 1
  PROVE  SomeCommandOver'
<1> PICK r \in Run \ Unlocked : \E n \in 1 .. started[r] : ~PIDExists(r, n)
  BY DEF SomeCommandOver
<1>1. PICK n \in 1 .. started[r] : ~PIDExists(r, n)
  OBVIOUS
<1>2. started[r] \in Nat /\ started'[r] \in Nat
  BY BoundAssumption DEF TypeOK
<1>3. n \in 1 .. started'[r] /\ ~PIDExists(r, n)'
  BY <1>1, <1>2 DEF PIDExists
<1>4. QED
  BY <1>3 DEF SomeCommandOver

LEMMA ForceStep ==
  ASSUME ForceInv, TypeOK', [Next]_vars
  PROVE  ForceInv'
<1> USE RunAssumption, BoundAssumption
<1>1. /\ \A p \in Run : started[p] \in Nat /\ lastPID[p] \in Nat
      /\ TypeOK /\ Aloof /\ Files /\ Readings
  BY DEF ForceInv, TypeOK
<1>2. \A p \in Run : \/ started'[p] = started[p] /\ (child'[p] => child[p])
                    \/ started'[p] = started[p] + 1
  BY <1>1 DEF TypeOK, Next, Acquire, Execute, RunWithoutLock, FirstTry, Who, Try, ReadLastPID, CheckPID,
     RemoveStale, Recreate, GiveUp, Sleep, WaitOver, StartChild, SetPID, ChildWaited, ScanFails,
     Release, ChildEnds, Crash, childVars, vars
<1>3. Shared => Shared'
  BY <1>1, <1>2, OverForGood DEF Shared
<1> DEFINE Kept == Aloof' /\ Files' /\ Readings' /\ (Orderly => Orderly' \/ Shared')
<1>4. Kept => ForceInv'
  BY <1>3 DEF ForceInv
<1> USE DEF TypeOK, Aloof, Files, Orderly, Goto, childVars, waitVars
<1>5. ASSUME NEW p \in Run, Acquire(p) PROVE Kept
  <2>1. CASE RunWithoutLock(p) BY <1>1, <2>1 DEF RunWithoutLock, Readings
  <2>2. CASE FirstTry(p) BY <1>1, <2>2 DEF FirstTry, Create, CreateFails, Readings
  <2>3. CASE Who(p) BY <1>1, <2>3 DEF Who, Readings
  <2>4. CASE Try(p)
    <3>1. CASE Create(p) BY <1>1, <2>4, <3>1 DEF Try, Create, Readings
    <3>2. CASE CreateFails(p, IF p \in Forcing THEN "read" ELSE "retry")
      BY <1>1, <2>4, <3>2 DEF Try, CreateFails, Readings
    <3>3. QED BY <2>4, <3>1, <3>2 DEF Try
  <2>5. CASE ReadLastPID(p) BY <1>1, <2>5 DEF ReadLastPID, LastPID, Readings
  <2>6. CASE CheckPID(p) /\ ~PIDExists(reading[p][1], reading[p][2])
    <3>1. /\ p \in Forcing \ Unlocked /\ reading[p][1] \in Run \ Unlocked
          /\ reading[p][2] \in 1 .. started[reading[p][1]]
      BY <1>1, <2>6 DEF CheckPID, Readings
    <3>2. Shared
      BY <2>6, <3>1 DEF Shared, SomeCommandOver
    <3>3. Aloof' /\ Files' /\ Readings'
      BY <1>1, <2>6, <3>1 DEF CheckPID, Readings
    <3>4. QED BY <1>3, <3>2, <3>3
  <2>7. CASE CheckPID(p) /\ PIDExists(reading[p][1], reading[p][2])
    BY <1>1, <2>7 DEF CheckPID, Readings
  <2>8. CASE RemoveStale(p) BY <1>1, <2>8 DEF RemoveStale, Readings
  <2>9. CASE Recreate(p) BY <1>1, <2>9 DEF Recreate, Create, CreateFails, Readings
  <2>10. CASE GiveUp(p) BY <1>1, <2>10 DEF GiveUp, Readings
  <2>11. CASE Sleep(p) BY <1>1, <2>11 DEF Sleep, Readings
  <2>12. CASE WaitOver(p) BY <1>1, <2>12 DEF WaitOver, Readings
  <2>13. QED
    BY <1>5, <2>1, <2>2, <2>3, <2>4, <2>5, <2>6, <2>7, <2>8, <2>9, <2>10, <2>11, <2>12 DEF Acquire
<1>6. ASSUME NEW p \in Run, Execute(p) PROVE Kept
  <2>1. CASE StartChild(p) BY <1>1, <2>1 DEF StartChild, Readings
  <2>2. CASE SetPID(p) BY <1>1, <2>2 DEF SetPID, Readings
  <2>3. CASE ChildWaited(p) BY <1>1, <2>3 DEF ChildWaited, Readings
  <2>4. CASE ScanFails(p) BY <1>1, <2>4 DEF ScanFails, Readings
  <2>5. CASE Release(p) BY <1>1, <2>5 DEF Release, Readings
  <2>6. QED BY <1>6, <2>1, <2>2, <2>3, <2>4, <2>5 DEF Execute
<1>7. ASSUME NEW p \in Run, ChildEnds(p) PROVE Kept
  BY <1>1, <1>7 DEF ChildEnds, Readings
<1>8. ASSUME NEW p \in Run, Crash(p) PROVE Kept
  BY <1>1, <1>8 DEF Crash, Final, Readings
<1>9. ASSUME UNCHANGED vars PROVE Kept
  BY <1>1, <1>9 DEF vars, Readings
<1>10. Kept
  <2> HIDE DEF Kept
  <2> QED BY <1>5, <1>6, <1>7, <1>8, <1>9 DEF Next
<1>11. QED
  BY <1>4, <1>10

(* Whatever the options of the runs, how many there are, and how many of   *)
(* them force their way: two hold the lock together only after a lockfile  *)
(* was found whose last command was over (ForceAcquire in lock/lock.go).   *)
THEOREM SharedLock == Spec => []SharedOnlyWhenStale
<1>1. Init => ForceInv
  BY RunAssumption, BoundAssumption
  DEF Init, ForceInv, TypeOK, Aloof, Files, Readings, Orderly, Places, NothingRead
<1>2. ForceInv /\ TypeOK' /\ [Next]_vars => ForceInv'
  BY ForceStep
<1>3. ForceInv => SharedOnlyWhenStale
  BY DEF ForceInv, Orderly, Shared, SharedOnlyWhenStale
<1>4. QED
  BY <1>1, <1>2, <1>3, TypeCorrect, PTL DEF Spec

-----------------------------------------------------------------------------
(* A run is in a place of ForceAcquire only if it forces its way; a run    *)
(* that believes to hold the lock is running its profile and has its file  *)
(* at the path; a run that uses the lockfile runs its profile only if it   *)
(* believes to hold the lock.  A run that uses none never contends.        *)
Quiet == \A p \in Run : pc[p] \notin {"read", "check", "remove", "recreate"}

LockedRuns ==
  \A p \in Run :
    /\ locked[p] => p \notin Unlocked /\ pc[p] \in {"run", "wait"} /\ lockfile = p
    /\ p \notin Unlocked /\ pc[p] \in {"run", "wait"} => locked[p]

LockInv == TypeOK /\ Quiet /\ Aloof /\ LockedRuns

LEMMA LockInvInductive ==
  ASSUME Forcing = {}
  PROVE  LockInv /\ TypeOK' /\ [Next]_vars => LockInv'
<1> USE RunAssumption
<1> SUFFICES ASSUME LockInv, TypeOK', [Next]_vars PROVE Quiet' /\ Aloof' /\ LockedRuns'
  BY DEF LockInv
<1> USE DEF LockInv, TypeOK, Quiet, Aloof, LockedRuns, Goto, childVars, waitVars
<1>1. ASSUME NEW p \in Run, Acquire(p) PROVE Quiet' /\ Aloof' /\ LockedRuns'
  <2>1. CASE RunWithoutLock(p) BY <2>1 DEF RunWithoutLock
  <2>2. CASE FirstTry(p) BY <2>2 DEF FirstTry, Create, CreateFails
  <2>3. CASE Who(p) BY <2>3 DEF Who
  <2>4. CASE Try(p)
    <3>1. CASE Create(p) BY <2>4, <3>1 DEF Try, Create
    <3>2. CASE CreateFails(p, "retry") BY <2>4, <3>2 DEF Try, CreateFails
    <3>3. QED BY <2>4, <3>1, <3>2 DEF Try
  <2>5. CASE GiveUp(p) BY <2>5 DEF GiveUp
  <2>6. CASE Sleep(p) BY <2>6 DEF Sleep
  <2>7. CASE WaitOver(p) BY <2>7 DEF WaitOver
  <2>8. CASE ReadLastPID(p) \/ CheckPID(p) \/ RemoveStale(p) \/ Recreate(p)
    BY <2>8 DEF ReadLastPID, CheckPID, RemoveStale, Recreate
  <2>9. QED
    BY <1>1, <2>1, <2>2, <2>3, <2>4, <2>5, <2>6, <2>7, <2>8 DEF Acquire
<1>2. ASSUME NEW p \in Run, Execute(p) PROVE Quiet' /\ Aloof' /\ LockedRuns'
  <2>1. CASE StartChild(p) BY <2>1 DEF StartChild
  <2>2. CASE SetPID(p) BY <2>2 DEF SetPID
  <2>3. CASE ChildWaited(p) BY <2>3 DEF ChildWaited
  <2>4. CASE ScanFails(p) BY <2>4 DEF ScanFails
  <2>5. CASE Release(p) BY <2>5 DEF Release
  <2>6. QED BY <1>2, <2>1, <2>2, <2>3, <2>4, <2>5 DEF Execute
<1>3. ASSUME NEW p \in Run, ChildEnds(p) PROVE Quiet' /\ Aloof' /\ LockedRuns'
  BY <1>3 DEF ChildEnds
<1>4. ASSUME NEW p \in Run, Crash(p) PROVE Quiet' /\ Aloof' /\ LockedRuns'
  BY <1>4 DEF Crash, Final
<1>5. CASE UNCHANGED vars
  BY <1>5 DEF vars
<1>6. QED
  BY <1>1, <1>2, <1>3, <1>4, <1>5 DEF Next

LEMMA LockInvInvariant ==
  ASSUME Forcing = {}
  PROVE  Spec => []LockInv
<1>1. Init => LockInv
  BY RunAssumption, BoundAssumption
  DEF Init, LockInv, TypeOK, Quiet, Aloof, LockedRuns, Places, NothingRead
<1>2. LockInv /\ TypeOK' /\ [Next]_vars => LockInv'
  BY LockInvInductive
<1>3. QED
  BY <1>1, <1>2, TypeCorrect, PTL DEF Spec

(* Without force-inactive-lock, a run that believes to hold the lock has   *)
(* its own file at the path.                                               *)
THEOREM LockedOnDisk ==
  ASSUME Forcing = {}
  PROVE  Spec => []HasLockedMatchesDisk
<1>1. LockInv => HasLockedMatchesDisk
  BY DEF LockInv, LockedRuns, HasLockedMatchesDisk
<1>2. QED
  BY <1>1, LockInvInvariant, PTL

(* Without force-inactive-lock, two runs never hold the lock together.     *)
THEOREM Exclusion ==
  ASSUME Forcing = {}
  PROVE  Spec => []MutualExclusion
<1>1. LockInv => MutualExclusion
  BY DEF LockInv, LockedRuns, MutualExclusion
<1>2. QED
  BY <1>1, LockInvInvariant, PTL

(* Without force-inactive-lock, only the run that made the lockfile takes  *)
(* it off the path, when its profile has ended.                            *)
THEOREM OnlyTheOwner ==
  ASSUME Forcing = {}
  PROVE  Spec => OnlyOwnerRemoves
<1>1. LockInv /\ [Next]_vars
        => [lockfile # NoFile /\ lockfile' # lockfile
              => locked[lockfile] /\ pc'[lockfile] = "done"]_vars
  <2> SUFFICES ASSUME LockInv, Next, lockfile # NoFile, lockfile' # lockfile
               PROVE  locked[lockfile] /\ pc'[lockfile] = "done"
    OBVIOUS
  <2> USE DEF LockInv, TypeOK, Quiet, Aloof, LockedRuns, Goto
  <2>1. PICK p \in Run : Acquire(p) \/ Execute(p) \/ ChildEnds(p) \/ Crash(p)
    BY DEF Next
  <2>2. ~Acquire(p)
    BY DEF Acquire, RunWithoutLock, FirstTry, Who, Try, ReadLastPID, CheckPID,
      RemoveStale, Recreate, GiveUp, Sleep, WaitOver, Create, CreateFails
  <2>3. Release(p)
    BY <2>1, <2>2 DEF Execute, StartChild, SetPID, ChildWaited, ScanFails,
      ChildEnds, Crash
  <2>4. QED
    BY <2>3 DEF Release
<1>2. QED
  BY <1>1, LockInvInvariant, PTL DEF Spec, OnlyOwnerRemoves

-----------------------------------------------------------------------------
(* What a step of LockFile is in ExclusiveRun, run by run.                 *)
Phases == [p \in Run \ Unlocked |-> PhaseOf(pc[p])]

LEMMA PhaseOfPlaces ==
  /\ \A place \in {"run", "wait"} : PhaseOf(place) = "running"
  /\ PhaseOf("done") = "ended"
  /\ PhaseOf("failed") = "failed"
  /\ PhaseOf("crashed") = "crashed"
  /\ \A place \in {"begin", "who", "try", "read", "check", "remove", "recreate", "retry"} :
       PhaseOf(place) = "contending"
BY DEF PhaseOf

LEMMA GotoPhases ==
  ASSUME TypeOK, NEW p \in Run, NEW place, Goto(p, place)
  PROVE  /\ p \in Unlocked \/ PhaseOf(place) = PhaseOf(pc[p]) => Phases' = Phases
         /\ p \notin Unlocked => Phases' = [Phases EXCEPT ![p] = PhaseOf(place)]
BY DEF TypeOK, Goto, Phases

LEMMA StepRefines ==
  ASSUME LockInv, [Next]_vars, Forcing = {}
  PROVE  [Promise!Next]_(Promise!vars)
<1> DEFINE Step == [Promise!Next]_(Promise!vars)
<1> USE PhaseOfPlaces
<1>0. Phases' = Phases /\ lockfile' = lockfile => Step
  BY DEF Promise!vars, Phases
<1>1. TypeOK
  BY DEF LockInv
<1>2. ASSUME NEW p \in Run \ Unlocked, Phases[p] = "contending",
             lockfile = NoFile, lockfile' = p, Goto(p, "run")
      PROVE  Step
  <2>1. Phases' = [Phases EXCEPT ![p] = "running"]
    BY <1>1, <1>2, GotoPhases
  <2>2. Promise!Acquire(p)
    BY <1>2, <2>1 DEF Promise!Acquire, Phases
  <2>3. QED BY <2>2 DEF Promise!Next
<1>3. ASSUME NEW p \in Run \ Unlocked, Phases[p] = "contending",
             lockfile' = lockfile, Goto(p, "failed")
      PROVE  Step
  <2>1. Phases' = [Phases EXCEPT ![p] = "failed"]
    BY <1>1, <1>3, GotoPhases
  <2>2. Promise!GiveUp(p)
    BY <1>3, <2>1 DEF Promise!GiveUp, Phases
  <2>3. QED BY <2>2 DEF Promise!Next
<1>4. ASSUME NEW p \in Run, lockfile' = lockfile, NEW place, Goto(p, place),
             p \in Unlocked \/ PhaseOf(place) = PhaseOf(pc[p])
      PROVE  Step
  BY <1>0, <1>1, <1>4, GotoPhases
<1>5. ASSUME NEW p \in Run, Acquire(p) PROVE Step
  <2> USE DEF LockInv, Quiet, Aloof
  <2>1. CASE RunWithoutLock(p)
    BY <1>4, <2>1 DEF RunWithoutLock
  <2>2. CASE FirstTry(p)
    BY <1>2, <1>4, <2>2 DEF FirstTry, Create, CreateFails, Phases
  <2>3. CASE Who(p)
    BY <1>3, <1>4, <2>3 DEF Who, Phases
  <2>4. CASE Try(p)
    BY <1>2, <1>4, <2>4 DEF Try, Create, CreateFails, Phases
  <2>5. CASE GiveUp(p)
    BY <1>3, <2>5 DEF GiveUp, Phases
  <2>6. CASE Sleep(p) \/ WaitOver(p)
    BY <1>4, <2>6 DEF Sleep, WaitOver
  <2>7. CASE ReadLastPID(p) \/ CheckPID(p) \/ RemoveStale(p) \/ Recreate(p)
    BY <2>7 DEF ReadLastPID, CheckPID, RemoveStale, Recreate
  <2>8. QED
    BY <1>5, <2>1, <2>2, <2>3, <2>4, <2>5, <2>6, <2>7 DEF Acquire
<1>6. ASSUME NEW p \in Run, Execute(p) PROVE Step
  <2>1. CASE StartChild(p) \/ ChildWaited(p) \/ ScanFails(p)
    BY <1>4, <2>1 DEF StartChild, ChildWaited, ScanFails
  <2>2. CASE SetPID(p)
    BY <1>0, <2>2 DEF SetPID, Phases
  <2>3. CASE Release(p) /\ p \in Unlocked
    BY <1>4, <2>3 DEF Release, LockInv, LockedRuns
  <2>4. CASE Release(p) /\ p \notin Unlocked
    <3>1. Phases' = [Phases EXCEPT ![p] = "ended"]
      BY <1>1, <2>4, GotoPhases DEF Release
    <3>2. locked[p] /\ lockfile = p /\ Phases[p] = "running"
      BY <2>4 DEF Release, Phases, LockInv, LockedRuns
    <3>3. Promise!End(p)
      BY <2>4, <3>1, <3>2 DEF Promise!End, Release, Phases
    <3>4. QED BY <2>4, <3>3 DEF Promise!Next
  <2>5. QED
    BY <1>6, <2>1, <2>2, <2>3, <2>4 DEF Execute
<1>7. ASSUME NEW p \in Run, ChildEnds(p) PROVE Step
  BY <1>0, <1>7 DEF ChildEnds, Phases
<1>8. ASSUME NEW p \in Run, Crash(p) PROVE Step
  <2>1. CASE p \in Unlocked
    BY <1>4, <1>8, <2>1 DEF Crash
  <2>2. CASE p \notin Unlocked
    <3>1. PhaseOf(pc[p]) \in {"contending", "running"}
      BY <1>1, <1>8 DEF Crash, Final, Places, TypeOK
    <3>2. Phases' = [Phases EXCEPT ![p] = "crashed"]
      BY <1>1, <1>8, <2>2, GotoPhases DEF Crash
    <3>3. Promise!Crash(p)
      BY <1>8, <2>2, <3>1, <3>2 DEF Promise!Crash, Crash, Phases
    <3>4. QED BY <2>2, <3>3 DEF Promise!Next
  <2>3. QED BY <2>1, <2>2
<1>9. CASE UNCHANGED vars
  BY <1>0, <1>9 DEF vars, Phases
<1>10. QED
  BY <1>5, <1>6, <1>7, <1>8, <1>9 DEF Next

(* Without force-inactive-lock, the lockfile implements ExclusiveRun: each *)
(* step of lockRun is an abstract step of the same run, or none.           *)
THEOREM Refinement ==
  ASSUME Forcing = {}
  PROVE  Spec => KeepsPromise
<1>1. Init => Promise!Init
  BY PhaseOfPlaces, RunAssumption DEF Init, Promise!Init
<1>2. LockInv /\ [Next]_vars => [Promise!Next]_(Promise!vars)
  BY StepRefines
<1>3. QED
  BY <1>1, <1>2, LockInvInvariant, PTL DEF Spec, KeepsPromise, Promise!Spec
=============================================================================
