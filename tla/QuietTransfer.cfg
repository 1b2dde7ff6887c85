SPECIFICATION Spec
CONSTANTS
  TotalRolloutSteps = 3
  PendingCap = 2
  ServerCap = 2
  RequiredSamples = 1
  TriggerSteps = 1
  StaleNum = 1
  StaleDen = 1
  TestFreq = 0
  PartialModes = {FALSE}
  Failures = {}
  ValBeforeTrain = {TRUE, FALSE}
CHECK_DEADLOCK FALSE
INVARIANTS
  QuietTransfer
