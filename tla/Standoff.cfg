SPECIFICATION Spec
CONSTANTS
  TotalRolloutSteps = 4
  PendingCap = 2
  ServerCap = 2
  RequiredSamples = 1
  TriggerSteps = 2
  StaleNum = 1
  StaleDen = 2
  TestFreq = 0
  PartialModes = {FALSE}
  Failures = {}
  ValBeforeTrain = {TRUE, FALSE}
CHECK_DEADLOCK FALSE
INVARIANTS
  NoStandoff
