\* No force-inactive-lock: a plain run, two runs with --lock-wait, one unlocked.
CONSTANTS
  plain = plain  waiter1 = waiter1  waiter2 = waiter2  unlocked = unlocked
  Run = {plain, waiter1, waiter2, unlocked}
  Unlocked = {unlocked}
  Forcing = {}
  Waiting = {waiter1, waiter2}
  Scanning = {plain}
  IOErrors = TRUE
  MaxSleeps = 1
  MaxCommands = 2
  NoFile = NoFile
SYMMETRY Waiters
SPECIFICATION Spec
INVARIANTS MutualExclusion HasLockedMatchesDisk
PROPERTY KeepsPromise
CHECK_DEADLOCK FALSE
