---------------------------- MODULE MCCommandRun ----------------------------
(***************************************************************************)
(* Small instances of CommandRun: a section that is run at every match, at *)
(* most once, and one that is run at every second match.                   *)
(***************************************************************************)
EXTENDS CommandRun

MCMinMatches == [p \in Pattern |-> IF p = 1 THEN 0 ELSE 2]
MCMaxRuns == [p \in Pattern |-> IF p = 1 THEN 1 ELSE 0]
=============================================================================
