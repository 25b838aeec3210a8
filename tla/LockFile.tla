------------------------------ MODULE LockFile ------------------------------
(***************************************************************************)
(* The local lock of resticprofile: several runs of the same profile, each *)
(* a process of its own, contend for one lockfile (lock/lock.go) through   *)
(* lockRun (wrapper.go), and write the PID of every child they start into  *)
(* it (shell/command.go) so that a later run started with                  *)
(* force-inactive-lock can tell a stale lock from a live one.              *)
(*                                                                         *)
(* A run creates the file at most once, so the inode is named by the run   *)
(* that created it: lockfile is the creator of the file the path leads to, *)
(* or NoFile.  An inode outlives its path, as an open file does: SetPID    *)
(* writes through the handle, Release removes by path.                     *)
(*                                                                         *)
(* Time is abstracted to the number of sleeps of the wait loop.            *)
(*                                                                         *)
(* Definitions whose comment begins with "If" or "Without" are deviations: *)
(* what a plausible slip would make of the definition they precede.  None  *)
(* is part of Spec; each is there to be put in its place.                  *)
(***************************************************************************)
EXTENDS Integers

CONSTANTS
  Run,          \* the resticprofile processes running the profile
  Unlocked,     \* those with no lockfile: --no-lock, dry-run, failed mkdir
  Forcing,      \* those with force-inactive-lock
  Waiting,      \* those with --lock-wait
  Scanning,     \* those that scan the output of their children (backups)
  IOErrors,     \* whether an unreadable file or a failing PID lookup occurs
  MaxSleeps,    \* sleeps that make up a whole lock wait
  MaxCommands,  \* restic and shell commands one run starts
  NoFile        \* nothing at the lockfile's path

ASSUME RunAssumption ==
  /\ Unlocked \subseteq Run
  /\ Forcing \subseteq Run
  /\ Waiting \subseteq Run
  /\ Scanning \subseteq Run
  /\ IOErrors \in BOOLEAN
  /\ NoFile \notin Run

ASSUME BoundAssumption ==
  /\ MaxSleeps \in Nat
  /\ MaxCommands \in Nat

VARIABLES
  pc,        \* where a run is in lockRun
  lockfile,  \* the run whose file is at the path, or NoFile
  locked,    \* Lock.locked
  lastPID,   \* last PID in the file a run created, 0 when it holds none
  started,   \* the number of children a run has started
  child,     \* whether its last child is alive
  reading,   \* the owner and PID that ForceAcquire read from the file
  lockWait,  \* lockWait # nil
  slept      \* sleeps so far

vars == <<pc, lockfile, locked, lastPID, started, child, reading, lockWait, slept>>

Places == {"begin", "who", "try", "read", "check", "remove", "recreate",
           "retry", "run", "wait", "done", "failed", "crashed"}

Final == {"done", "failed", "crashed"}

\* The n-th child of run p is the process <<p, n>>.  Its PID exists until it ends.
PIDExists(p, n) == n = started[p] /\ child[p]

NothingRead == <<NoFile, 0>>

Init ==
  /\ pc = [p \in Run |-> "begin"]
  /\ lockfile = NoFile
  /\ locked = [p \in Run |-> FALSE]
  /\ lastPID = [p \in Run |-> 0]
  /\ started = [p \in Run |-> 0]
  /\ child = [p \in Run |-> FALSE]
  /\ reading = [p \in Run |-> NothingRead]
  /\ lockWait = [p \in Run |-> p \in Waiting]
  /\ slept = [p \in Run |-> 0]

Goto(p, place) == pc' = [pc EXCEPT ![p] = place]

childVars == <<lastPID, started, child>>
waitVars == <<lockWait, slept>>

\* Without O_EXCL, an existing file would be taken over.
CreateShared(p) ==
  /\ lockfile' = p
  /\ locked' = [locked EXCEPT ![p] = TRUE]
  /\ Goto(p, "run")

\* lock(): O_CREATE|O_EXCL, atomic in the file system.
Create(p) ==
  /\ lockfile = NoFile
  /\ lockfile' = p
  /\ locked' = [locked EXCEPT ![p] = TRUE]
  /\ Goto(p, "run")

CreateFails(p, place) ==
  /\ lockfile # NoFile
  /\ Goto(p, place)
  /\ UNCHANGED <<lockfile, locked>>

-----------------------------------------------------------------------------
(* lockRun                                                                 *)

\* No lockfile to take: the profile runs without one.
RunWithoutLock(p) ==
  /\ pc[p] = "begin"
  /\ p \in Unlocked
  /\ Goto(p, "run")
  /\ UNCHANGED <<lockfile, locked, reading, childVars, waitVars>>

FirstTry(p) ==
  /\ pc[p] = "begin"
  /\ p \notin Unlocked
  /\ Create(p) \/ CreateFails(p, "who")
  /\ UNCHANGED <<reading, childVars, waitVars>>

\* Who() only names the owner; but an unreadable file ends the run.
Who(p) ==
  /\ pc[p] = "who"
  /\ \/ Goto(p, "try")
     \/ IOErrors /\ lockfile # NoFile /\ Goto(p, "failed")
  /\ UNCHANGED <<lockfile, locked, reading, childVars, waitVars>>

\* TryAcquire, or the attempt ForceAcquire begins with.
Try(p) ==
  /\ pc[p] = "try"
  /\ Create(p) \/ CreateFails(p, IF p \in Forcing THEN "read" ELSE "retry")
  /\ UNCHANGED <<reading, childVars, waitVars>>

\* LastPID(): 0 stands for its errors, no file and no PID in the file.
LastPID == IF lockfile = NoFile THEN 0 ELSE lastPID[lockfile]

\* If a file with no PID in it yet counted as stale.
ReadLastPIDOrStale(p) ==
  /\ pc[p] = "read"
  /\ reading' = [reading EXCEPT ![p] = <<lockfile, LastPID>>]
  /\ Goto(p, IF LastPID > 0 THEN "check" ELSE "remove")
  /\ UNCHANGED <<lockfile, locked, childVars, waitVars>>

\* ForceAcquire: LastPID() reads the file that is at the path by now.
ReadLastPID(p) ==
  /\ pc[p] = "read"
  /\ \/ /\ LastPID > 0
        /\ reading' = [reading EXCEPT ![p] = <<lockfile, LastPID>>]
        /\ Goto(p, "check")
     \/ /\ LastPID = 0
        /\ Goto(p, "retry")
        /\ UNCHANGED reading
  /\ UNCHANGED <<lockfile, locked, childVars, waitVars>>

\* If the outcome of the lookup were taken the wrong way round.
CheckPIDInverted(p) ==
  /\ pc[p] = "check"
  /\ Goto(p, IF PIDExists(reading[p][1], reading[p][2]) THEN "remove" ELSE "retry")
  /\ UNCHANGED <<lockfile, locked, reading, childVars, waitVars>>

\* ForceAcquire: process.PidExists.  A PID the system gave to another process
\* since, or a failing lookup, counts as running.
CheckPID(p) ==
  /\ pc[p] = "check"
  /\ \/ ~PIDExists(reading[p][1], reading[p][2]) /\ Goto(p, "remove")
     \/ /\ PIDExists(reading[p][1], reading[p][2]) \/ IOErrors
        /\ Goto(p, "retry")
  /\ UNCHANGED <<lockfile, locked, reading, childVars, waitVars>>

\* ForceAcquire: os.Remove takes away whatever file is at the path by now.
RemoveStale(p) ==
  /\ pc[p] = "remove"
  /\ lockfile' = NoFile
  /\ Goto(p, IF lockfile = NoFile THEN "retry" ELSE "recreate")
  /\ UNCHANGED <<locked, reading, childVars, waitVars>>

Recreate(p) ==
  /\ pc[p] = "recreate"
  /\ Create(p) \/ CreateFails(p, "retry")
  /\ UNCHANGED <<reading, childVars, waitVars>>

\* If Release were deferred before the lock is acquired.
GiveUpReleasing(p) ==
  /\ pc[p] = "retry"
  /\ ~lockWait[p]
  /\ Goto(p, "failed")
  /\ lockfile' = NoFile
  /\ UNCHANGED <<locked, reading, childVars, waitVars>>

\* Not acquired: give up, sleep, or make the try after this one the last.
GiveUp(p) ==
  /\ pc[p] = "retry"
  /\ ~lockWait[p]
  /\ Goto(p, "failed")
  /\ UNCHANGED <<lockfile, locked, reading, childVars, waitVars>>

Sleep(p) ==
  /\ pc[p] = "retry"
  /\ lockWait[p]
  /\ slept[p] < MaxSleeps
  /\ slept' = [slept EXCEPT ![p] = @ + 1]
  /\ Goto(p, "who")
  /\ UNCHANGED <<lockfile, locked, reading, lockWait, childVars>>

\* If lockWait were not reset before the last try.
WaitOverAgain(p) ==
  /\ pc[p] = "retry"
  /\ lockWait[p]
  /\ Goto(p, "who")
  /\ UNCHANGED <<lockfile, locked, reading, waitVars, childVars>>

\* time.Since(start) may exceed the sum of the sleeps at any point.
WaitOver(p) ==
  /\ pc[p] = "retry"
  /\ lockWait[p]
  /\ lockWait' = [lockWait EXCEPT ![p] = FALSE]
  /\ Goto(p, "who")
  /\ UNCHANGED <<lockfile, locked, reading, slept, childVars>>

-----------------------------------------------------------------------------
(* The profile: commands in sequence, and the gaps between them            *)

\* Command.Run: cmd.Start and, a step later, SetPID.
StartChild(p) ==
  /\ pc[p] = "run"
  /\ started[p] < MaxCommands
  /\ started' = [started EXCEPT ![p] = @ + 1]
  /\ child' = [child EXCEPT ![p] = TRUE]
  /\ Goto(p, "wait")
  /\ UNCHANGED <<lockfile, locked, lastPID, reading, waitVars>>

SetPID(p) ==
  /\ pc[p] = "wait"
  /\ locked[p]
  /\ lastPID[p] # started[p]
  /\ lastPID' = [lastPID EXCEPT ![p] = started[p]]
  /\ UNCHANGED <<pc, lockfile, locked, started, child, reading, waitVars>>

\* The child ends by itself, whatever became of its parent.
ChildEnds(p) ==
  /\ child[p]
  /\ child' = [child EXCEPT ![p] = FALSE]
  /\ UNCHANGED <<pc, lockfile, locked, lastPID, started, reading, waitVars>>

\* cmd.Wait returns.
ChildWaited(p) ==
  /\ pc[p] = "wait"
  /\ ~child[p]
  /\ locked[p] => lastPID[p] = started[p]
  /\ Goto(p, "run")
  /\ UNCHANGED <<lockfile, locked, reading, childVars, waitVars>>

\* ScanStdout fails (a line too long for its scanner): Run returns without
\* waiting for the child.
ScanFails(p) ==
  /\ pc[p] = "wait"
  /\ p \in Scanning
  /\ locked[p] => lastPID[p] = started[p]
  /\ Goto(p, "run")
  /\ UNCHANGED <<lockfile, locked, reading, childVars, waitVars>>

\* If Release only closed the file.
ReleaseClosing(p) ==
  /\ pc[p] = "run"
  /\ Goto(p, "done")
  /\ locked' = [locked EXCEPT ![p] = FALSE]
  /\ UNCHANGED <<lockfile, reading, childVars, waitVars>>

\* The deferred Release removes the file at the path, then clears locked.
Release(p) ==
  /\ pc[p] = "run"
  /\ Goto(p, "done")
  /\ lockfile' = IF locked[p] THEN NoFile ELSE lockfile
  /\ locked' = [locked EXCEPT ![p] = FALSE]
  /\ UNCHANGED <<reading, childVars, waitVars>>

\* The process is killed, or the machine goes down: the file stays, and the
\* child may outlive its parent.  The Lock value is gone with the process.
Crash(p) ==
  /\ pc[p] \notin Final
  /\ Goto(p, "crashed")
  /\ locked' = [locked EXCEPT ![p] = FALSE]
  /\ UNCHANGED <<lockfile, reading, childVars, waitVars>>

-----------------------------------------------------------------------------
Acquire(p) ==
  \/ RunWithoutLock(p) \/ FirstTry(p) \/ Who(p) \/ Try(p)
  \/ ReadLastPID(p) \/ CheckPID(p) \/ RemoveStale(p) \/ Recreate(p)
  \/ GiveUp(p) \/ Sleep(p) \/ WaitOver(p)

Execute(p) ==
  \/ StartChild(p) \/ SetPID(p) \/ ChildWaited(p) \/ ScanFails(p) \/ Release(p)

Next == \E p \in Run : Acquire(p) \/ Execute(p) \/ ChildEnds(p) \/ Crash(p)

Spec == Init /\ [][Next]_vars

\* The scheduler runs every process, and children end.  Nothing forces a crash.
Fairness == \A p \in Run : WF_vars(Acquire(p) \/ Execute(p)) /\ WF_vars(ChildEnds(p))

FairSpec == Spec /\ Fairness

-----------------------------------------------------------------------------
(* The promise: ExclusiveRun, over the runs that use the lockfile          *)

PhaseOf(place) ==
  CASE place \in {"run", "wait"} -> "running"
    [] place = "done" -> "ended"
    [] place \in {"failed", "crashed"} -> place
    [] OTHER -> "contending"

Promise == INSTANCE ExclusiveRun WITH
  Run <- Run \ Unlocked,
  NoRun <- NoFile,
  phase <- [p \in Run \ Unlocked |-> PhaseOf(pc[p])],
  holder <- lockfile

\* The lockfile keeps its promise: every step is a step of ExclusiveRun or
\* leaves its variables alone.
KeepsPromise == Promise!Spec

-----------------------------------------------------------------------------
TypeOK ==
  /\ pc \in [Run -> Places]
  /\ lockfile \in Run \cup {NoFile}
  /\ locked \in [Run -> BOOLEAN]
  /\ lastPID \in [Run -> 0 .. MaxCommands]
  /\ started \in [Run -> 0 .. MaxCommands]
  /\ child \in [Run -> BOOLEAN]
  /\ reading \in [Run -> (Run \cup {NoFile}) \X (0 .. MaxCommands)]
  /\ lockWait \in [Run -> BOOLEAN]
  /\ slept \in [Run -> 0 .. MaxSleeps]

\* lockRun "is making sure the function is only run once by putting a lockfile
\* on the disk" (wrapper.go:862): no two runs of the profile that use the
\* lockfile are between acquiring and releasing it.
MutualExclusion ==
  \A p, q \in Run : locked[p] /\ locked[q] => p = q

\* Lock.locked tells what the disk tells: "this instance (and only this one)
\* has locked the file" (lock/lock.go:95).  A run that believes to hold the
\* lock still has its own file at the path.
HasLockedMatchesDisk ==
  \A p \in Run : locked[p] => lockfile = p

\* The lock is there "for the duration of the profile" (docs, usage/locks): a
\* run that ended its profile leaves no child of it running.
LockCoversChildren ==
  \A p \in Run \ Unlocked : pc[p] = "done" => ~child[p]

\* A command that a run which uses the lockfile has started is over.
SomeCommandOver ==
  \E r \in Run \ Unlocked : \E n \in 1 .. started[r] : ~PIDExists(r, n)

\* Two runs hold the lock together only if some run came with force-inactive-lock
\* and some command of a run with the lockfile is over: as long as each lockfile
\* has no PID in it yet, or that of a first command that still runs, none is ever
\* taken for stale (ForceAcquire, lock/lock.go:45), however runs and sleeps meet.
SharedOnlyWhenStale ==
  \A p, q \in Run :
    locked[p] /\ locked[q] /\ p # q => Forcing \ Unlocked # {} /\ SomeCommandOver

\* A run that gives up leaves the lock of another one alone, and a crashed
\* run's lock stays: only the owner takes its file off the path.
OnlyOwnerRemoves ==
  [][lockfile # NoFile /\ lockfile' # lockfile
       => locked[lockfile] /\ pc'[lockfile] = "done"]_vars

\* With --lock-wait or without, with force-inactive-lock or without, every run
\* ends: the wait loop gives up and the lock is never waited for forever.
EveryRunEnds == \A p \in Run : <>(pc[p] \in Final)

Stale(p) ==
  /\ lockfile = p
  /\ pc[p] = "crashed"
  /\ lastPID[p] > 0
  /\ ~PIDExists(p, lastPID[p])

\* force-inactive-lock "will detect and remove stale locks" (docs,
\* usage/locks): a run started when the lock is stale clears it, unless it
\* is killed in turn.
StaleLockCleared ==
  \A p \in Run : \A f \in Forcing \ Unlocked :
    Stale(p) /\ pc[f] = "begin" ~> lockfile # p \/ pc[f] = "crashed"
=============================================================================
