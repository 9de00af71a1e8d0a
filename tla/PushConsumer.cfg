SPECIFICATION FairSpec
CONSTANTS
  i1 = i1
  i2 = i2
  a1 = a1
  a2 = a2
  c1 = c1
  c2 = c2
  Instances <- MCInstances
  NoInstance = NoInstance
  Addresses <- MCAddresses
  NoAddress = NoAddress
  Calls <- MCCalls
  Unset = Unset
  PoolSize = 3
  MaxStarts = 1
  FailureCodes = FALSE
  UserDrops = TRUE
  ListenerUsesPool = TRUE
ACTION_CONSTRAINT InOrder
INVARIANTS
  TypeOK
  MapFindsConsumer
  CallsHaveConsumer
  ShutdownDrains
  StatusTellsNative
PROPERTIES
  EveryMessageAnswered
  OnlyOwnMessagesBlock
CHECK_DEADLOCK FALSE
