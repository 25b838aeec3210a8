---------------------------- MODULE MCResticRetry ---------------------------
(***************************************************************************)
(* Small instances of ResticRetry.  The durations keep the order of those  *)
(* of the program (Minute a multiple of the least delay, --retry-lock well *)
(* below the lock wait); all options vary between the runs.                *)
(***************************************************************************)
EXTENDS ResticRetry

\* The second command has a --retry-lock of its own, longer than the others.
OneOfItsOwn == [command \in 0 .. MaxCommands |-> IF command = 1 THEN 7 ELSE 0]
=============================================================================
