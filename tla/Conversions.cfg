SPECIFICATION Spec
CONSTANTS
  MaxInt = 7
  DefaultLogFileSize = 6
  MaxText = 2
INVARIANTS
  OptionsArrive
  MessageArrives
CHECK_DEADLOCK FALSE
