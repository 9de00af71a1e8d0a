SPECIFICATION PosixSpec
CONSTANTS
  c1 = c1
  c2 = c2
  Calls <- MCCalls
  Unset = Unset
INVARIANTS
  ReturnsOnlyAfterAck
CHECK_DEADLOCK FALSE
