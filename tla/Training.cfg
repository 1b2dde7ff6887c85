SPECIFICATION FairSpec
CONSTANTS
  UseCritic = TRUE
  KeepActor = 2
  KeepCritic = 3
  Ranks = {r0, r1}
  MaxStep = 8
  BatchesPerEpoch = 3
  EpochChoices = {1, 2}
  SaveFreq = 2
  TestFreq = 1
  CriticWarmup = 2
  PromptBatch = 2
  GenBatch = 2
  MaxGenBatches = 2
  Esi = TRUE
  MaxCrashes = 2
CHECK_DEADLOCK FALSE
INVARIANTS
  TypeOK
  LatestIsLoadable
  KeptBounded
  BatchesInOrder
  PolicyLag
PROPERTIES
  Completes
  ImplementsRecovery
