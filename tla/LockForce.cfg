\* A run with force-inactive-lock among two without, the lock stale or not.
CONSTANTS
  plain = plain  forcing = forcing  waiter = waiter
  Run = {plain, forcing, waiter}
  Unlocked = {}
  Forcing = {forcing}
  Waiting = {forcing, waiter}
  Scanning = {}
  IOErrors = FALSE
  MaxSleeps = 1
  MaxCommands = 2
  NoFile = NoFile
SPECIFICATION FairSpec
INVARIANT SharedOnlyWhenStale
PROPERTIES EveryRunEnds StaleLockCleared
CHECK_DEADLOCK FALSE
