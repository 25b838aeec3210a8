\* Groups of up to two profiles, a stdin-command that logs, errors of the log file.
CONSTANTS
  Groups <- MCGroups
  Nesting = 2
  MayPanic = TRUE
  MaxLines = 1
  Capacity = 1
  DrainMax = 4
  KeepOpen = TRUE
  Errors <- MCErrors
SPECIFICATION FairSpec
INVARIANTS ExitTells Directories LogKept
PROPERTY ProcessEnds
CHECK_DEADLOCK FALSE
