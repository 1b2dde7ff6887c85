SPECIFICATION Spec
CONSTANTS
  Copies = {r1, r2}
  Servers = {s1, s2}
  MaxTokens = 3
  ResponseLength = 2
  MaxSyncs = 2
CHECK_DEADLOCK FALSE
INVARIANTS
  TypeOK
  Seamless
  CompleteWhenEnded
  LabelsBracket
  ServersQuiet
PROPERTIES
  GrowsAtTheEnd
  PauseCompletes
