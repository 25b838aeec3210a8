----------------------------- MODULE MCLockFile -----------------------------
(***************************************************************************)
(* Small instances of LockFile.  The runs are model values named for the   *)
(* options each was started with.                                          *)
(***************************************************************************)
EXTENDS LockFile, TLC

\* Runs with the same options are interchangeable, in the safety runs.
Waiters == Permutations(Waiting)
=============================================================================
