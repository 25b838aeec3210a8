\* Three commands on a repository that others lock, with every way of waiting.
CONSTANTS
  LockWait = 13
  RetryAfter = 4
  MinDelay = 3
  MaxDelay = 5
  MaxArgument = 7
  Minute = 3
  LocalSleep = 4
  StaleLockAge = TRUE
  ForceLock = TRUE
  FilterArguments = TRUE
  UserRetryLock <- OneOfItsOwn
  MaxReport = 8
  MaxCommands = 2
  MaxAttempts = 5
  MaxDuration = 1
SPECIFICATION RetrySpec
INVARIANTS TimeAccounted SleepsMeasured RoomForRetry
PROPERTY RetriesEnd
CHECK_DEADLOCK FALSE
