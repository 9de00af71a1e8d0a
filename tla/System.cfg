SPECIFICATION SystemSpec
CONSTANTS
  i1 = i1
  p1 = p1
  a1 = a1
  c1 = c1
  c2 = c2
  Instances <- MCInstances
  Producers <- MCProducers
  NoInstance = NoInstance
  Addresses <- MCAddresses
  NoAddress = NoAddress
  Calls <- MCCalls
  Unset = Unset
  NoAnswer = NoAnswer
  PoolSize = 2
  MaxStarts = 1
  FailureCodes = FALSE
  UserDrops = TRUE
  ListenerUsesPool = FALSE
ACTION_CONSTRAINT DropsUnderSend
INVARIANTS
  ExitLosesNothing
  NoDeadlock
PROPERTIES
  PoolSuffices
  SendersAnswer
CHECK_DEADLOCK FALSE
