SPECIFICATION FairSpec
CONSTANTS
  TotalRolloutSteps = 5
  PendingCap = 2
  ServerCap = 2
  RequiredSamples = 2
  TriggerSteps = 2
  StaleNum = 0
  StaleDen = 1
  TestFreq = 1
  PartialModes = {TRUE}
  Failures = {"generate", "merge"}
  ValBeforeTrain = {TRUE}
CHECK_DEADLOCK FALSE
INVARIANTS
  OnPolicy
  NothingInterrupted
  StalenessCovers
  ConcurrencyBound
PROPERTIES
  Termination
