SPECIFICATION Spec
CONSTANTS
  i1 = i1
  i2 = i2
  m1 = m1
  Instances <- MCInstances
  NoInstance = NoInstance
  Messages <- MCMessages
  NoAnswer = NoAnswer
  PoolSize = 1
  MaxStarts = 1
  FailureCodes = TRUE
  UserDrops = FALSE
INVARIANTS
  SendOkIsStored
CHECK_DEADLOCK FALSE
