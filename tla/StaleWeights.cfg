SPECIFICATION Spec
CONSTANTS
  Servers = {s0, s1}
  NoServer = none
  Configs <- SmallConfigs
  MaxCacheSize = 2
  PromptLength = 2
  PromptLen = 1
  ResponseLength = 4
  MaxAssistantTurns = 0
  MaxUserTurns = 0
  MaxNew = 3
  MaxObservation = 2
  Plan <- SmallPlan
  FreeCacheEngine = FALSE
CHECK_DEADLOCK FALSE
INVARIANTS
  OnPolicyRollout
