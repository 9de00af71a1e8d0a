SPECIFICATION Spec
CONSTANTS
  MaxMajor = 20
  AbortedEnds = FALSE
INVARIANTS
  TypeOK
  SuccessMeansLibraries
CHECK_DEADLOCK FALSE
