\* Two stdin-commands, restic, a hook, and an interrupt at any time.
CONSTANTS
  Sources = 2
  Hooks = 1
  Timely = TRUE
  MaxInterrupts = 1
SPECIFICATION FairSpec
INVARIANTS FailureReported InterruptsMeet
PROPERTY AllEnd
CHECK_DEADLOCK FALSE
