SPECIFICATION FairSpec
CONSTANTS
  i1 = i1
  i2 = i2
  m1 = m1
  Instances <- MCInstances
  NoInstance = NoInstance
  Messages <- MCMessages
  NoAnswer = NoAnswer
  PoolSize = 2
  MaxStarts = 2
  FailureCodes = FALSE
  UserDrops = TRUE
INVARIANTS
  TypeOK
  RefCount
  OneJob
  LifecycleJobsLive
  ExitOnlyWhenIdle
  SendOkIsStored
PROPERTIES
  ImplementsInstanceContract
  EveryCallSettles
  EverySendAnswered
CHECK_DEADLOCK FALSE
