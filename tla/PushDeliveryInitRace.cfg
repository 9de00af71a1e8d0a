SPECIFICATION FairSpec
CONSTANTS
  c1 = c1
  c2 = c2
  c3 = c3
  Calls <- TwoCalls
  Unset = Unset
  NoCall = NoCall
  ThreadCount = 2
  MaxInserts = 1
  AsyncInitRace = TRUE
  MapRace = FALSE
PROPERTIES
  EveryMessageOffered
CHECK_DEADLOCK FALSE
