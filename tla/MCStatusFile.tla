---------------------------- MODULE MCStatusFile ----------------------------
(***************************************************************************)
(* Small instances of StatusFile: one run for each profile, the first of   *)
(* which has no-error-on-warning, the second no backup section.            *)
(***************************************************************************)
EXTENDS StatusFile

CONSTANTS home, work

MCProfile == {home, work}
MCRun == {1, 2}
MCProfileOf == [r \in MCRun |-> IF r = 1 THEN home ELSE work]
MCTolerant == {home}
MCSectionless == {work}
MCErrors == {"open", "write"}
=============================================================================
