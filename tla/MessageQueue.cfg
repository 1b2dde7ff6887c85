SPECIFICATION Spec
CONSTANTS
  Consumers = {c1, c2}
  MaxQueueSize = 2
  MaxConcurrency = 3
  MaxPut = 5
  MaxVersion = 1
  MaxVal = 1
INVARIANTS
  TypeOK
  HoldsTheNewest
  Accounting
  NoLostWakeup
PROPERTIES
  InOrder
  ShutdownAnswers
  ImplementsChannel
CHECK_DEADLOCK FALSE
