SPECIFICATION Spec
CONSTANTS
  MaxMajor = 20
  AbortedEnds = TRUE
INVARIANTS
  BuildHasLibraries
CHECK_DEADLOCK FALSE
