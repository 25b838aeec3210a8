---------------------------- MODULE ExclusiveRun ----------------------------
(***************************************************************************)
(* What the lockfile promises the runs of one profile that use it (docs,   *)
(* usage/locks): one of them at a time has the profile, from acquiring the *)
(* lock until its profile ends; a killed one keeps it, until another finds *)
(* that it is stale and takes it away.                                     *)
(***************************************************************************)
CONSTANTS Run, NoRun

VARIABLES phase, holder

vars == <<phase, holder>>

Init ==
  /\ phase = [p \in Run |-> "contending"]
  /\ holder = NoRun

Acquire(p) ==
  /\ phase[p] = "contending"
  /\ holder = NoRun
  /\ phase' = [phase EXCEPT ![p] = "running"]
  /\ holder' = p

GiveUp(p) ==
  /\ phase[p] = "contending"
  /\ phase' = [phase EXCEPT ![p] = "failed"]
  /\ UNCHANGED holder

End(p) ==
  /\ phase[p] = "running"
  /\ holder = p
  /\ phase' = [phase EXCEPT ![p] = "ended"]
  /\ holder' = NoRun

Crash(p) ==
  /\ phase[p] \in {"contending", "running"}
  /\ phase' = [phase EXCEPT ![p] = "crashed"]
  /\ UNCHANGED holder

\* A contending run clears the lock of a crashed one.
ClearStale(p) ==
  /\ phase[p] = "contending"
  /\ holder # NoRun
  /\ phase[holder] = "crashed"
  /\ holder' = NoRun
  /\ UNCHANGED phase

Next ==
  \E p \in Run : Acquire(p) \/ GiveUp(p) \/ End(p) \/ Crash(p) \/ ClearStale(p)

Spec == Init /\ [][Next]_vars

\* One run at a time has the profile.
AtMostOne == \A p, q \in Run : phase[p] = "running" /\ phase[q] = "running" => p = q
=============================================================================
