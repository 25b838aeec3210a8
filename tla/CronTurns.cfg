\* Names that are no prefixes of each other; schedules come and go.
CONSTANTS
  Process = {p1}
  Profile = {"home", "lab"}
  Beginnings <- NoPrefixes
  Section = {"backup", "check"}
  Declarable <- ThreeJobs
  Schedules <- MCSchedules
  Foreign = {line1}
  Start = Start  End = End  Blank = Blank  NoSection = NoSection  p1 = p1  line1 = line1
  TakeTurns = TRUE
  Redeclaring = TRUE
  MaxForeign = 1
  MaxDamage = 1
SPECIFICATION Spec
INVARIANT CrontabKept
PROPERTY Unscheduled
CHECK_DEADLOCK FALSE
