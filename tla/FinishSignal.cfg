SPECIFICATION FairSpec
CONSTANTS
  TotalRolloutSteps = 3
  PendingCap = 4
  ServerCap = 2
  RequiredSamples = 1
  TriggerSteps = 1
  StaleNum = 0
  StaleDen = 1
  TestFreq = 0
  PartialModes = {FALSE}
  Failures = {"merge"}
  ValBeforeTrain = {TRUE, FALSE}
CHECK_DEADLOCK FALSE
PROPERTIES
  FinishIsSent
