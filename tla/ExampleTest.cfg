SPECIFICATION Spec
CONSTANTS
  MessageCount = 3
  MaxCalls = 4
  Unset = Unset
  Failures = TRUE
  Redelivery = TRUE
INVARIANTS
  PassMeansConsumed
  WhyAssertionsFail
PROPERTIES
  TestEnds
CHECK_DEADLOCK FALSE
