\* Commands against each scheduler, with everything that may go wrong.
CONSTANTS
  None = None  Torn = Torn
  KeyOf <- MCKeyOf
  Schedulable = {"backup", "retention"}
  Systems = {"systemd", "launchd", "windows"}
  Configs <- MCConfigs
  Requests <- MCRequests
  MaxCommands = 3
SPECIFICATION Spec
INVARIANTS SuccessMeansScheduled SuccessMeansRemoved NothingDangles CollectsFirst
PROPERTY CommandEnds
