\* Every text, parsed and given to every scheduler.
CONSTANTS
  Dates <- MCDates
  Week = 3
  HoursADay = 4
  MinutesAnHour = 2
  MaxTriggers = 3
  Texts <- MCTexts
  Times <- MCTimes
  NoEvent = NoEvent  NoTime = NoTime  NoJob = NoJob  Hung = Hung
SPECIFICATION TimesSpec
INVARIANTS CrondOnTime LaunchdOnTime WindowsOnTime NormalForm
CHECK_DEADLOCK FALSE
