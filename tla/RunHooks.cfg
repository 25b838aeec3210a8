\* Backup, copy and other commands with many combinations of hooks.
CONSTANTS
  MaxHooks = 2
  Panics = TRUE
  Sizes <- MCSizes
SPECIFICATION Spec
INVARIANTS HooksRun ErrorPassedOn
PROPERTY LockedThroughout
CHECK_DEADLOCK FALSE
