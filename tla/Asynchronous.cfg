SPECIFICATION FairSpec
CONSTANTS
  TotalRolloutSteps = 3
  PendingCap = 2
  ServerCap = 2
  RequiredSamples = 1
  TriggerSteps = 1
  StaleNum = 1
  StaleDen = 1
  TestFreq = 0
  PartialModes = {TRUE, FALSE}
  Failures = {}
  ValBeforeTrain = {FALSE}
CHECK_DEADLOCK FALSE
INVARIANTS
  TypeOK
  NoGenerationInTransfer
  AnnouncedIsInstalled
  Drained
  LossIsCounted
PROPERTIES
  ImplementsPipeline
  ImplementsVersionSync
  SyncCompletes
