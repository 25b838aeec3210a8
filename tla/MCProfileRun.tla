---------------------------- MODULE MCProfileRun ----------------------------
(***************************************************************************)
(* Small instances of ProfileRun.  A configuration is a function from      *)
(* stages to list sizes; MaxHooks is the longest list.                     *)
(***************************************************************************)
EXTENDS ProfileRun

Single == {"initialize", "initializeCopy", "checkBefore", "retentionBefore",
           "command", "retentionAfter", "checkAfter"}
Hooks == Stages \ Single

Sized(hooks, length, single) ==
  [s \in Stages |-> IF s \in Single THEN IF s \in single THEN 1 ELSE 0
                    ELSE IF s \in hooks THEN length ELSE 0]

\* backup with check and retention, copy, and any other command; each with one
\* hook of every kind, or with two hooks of one kind, of the failure hooks, of
\* the finally hooks, or with none.
BackupSteps == Single \ {"initializeCopy"}
CommandSteps == {BackupSteps, {"initialize", "initializeCopy", "command"}, {"command"}}
HookChoices == {{}, OnFailure, Finally, OnFailure \cup Finally} \cup {{h} : h \in Hooks}

MCSizes ==
  {Sized(Hooks, 1, single) : single \in CommandSteps}
    \cup {Sized(hooks, MaxHooks, single) : hooks \in HookChoices, single \in CommandSteps}
=============================================================================
