SPECIFICATION Spec
CONSTANTS
  c1 = c1
  c2 = c2
  c3 = c3
  Calls <- ThreeCalls
  Unset = Unset
  NoCall = NoCall
  ThreadCount = 2
  MaxInserts = 1
  AsyncInitRace = TRUE
  MapRace = TRUE
SYMMETRY MCSymmetry
INVARIANTS
  TypeOK
  ParamAlive
  UnansweredBounded
PROPERTIES
  UsesAckProtocol
CHECK_DEADLOCK FALSE
