\* A command with two sections of stream-error, long lines and two interrupts.
CONSTANTS
  Patterns = 2
  MinMatches <- MCMinMatches
  MaxRuns <- MCMaxRuns
  PipeSize = 1
  MaxOut = 1
  MaxErr = 3
  LongLines = TRUE
  Timely = TRUE
  MaxInterrupts = 2
SPECIFICATION FairSpec
INVARIANTS ReturnsClean RunsExact
PROPERTY RunResponds
CHECK_DEADLOCK FALSE
