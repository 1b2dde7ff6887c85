SPECIFICATION Spec
CONSTANTS
  UseCritic = FALSE
  KeepActor = 1
  KeepCritic = 1
  Ranks = {r0, r1}
  MaxStep = 4
  BatchesPerEpoch = 2
  EpochChoices = {1}
  SaveFreq = 1
  TestFreq = 1
  CriticWarmup = 0
  PromptBatch = 2
  GenBatch = 2
  MaxGenBatches = 3
  Esi = FALSE
  MaxCrashes = 1
CHECK_DEADLOCK FALSE
INVARIANTS
  AutoResume
