SPECIFICATION FairSpec
CONSTANTS
  NWords = 18
  Requests <- TestedRequests
INVARIANTS
  MemoryAgrees
  StallLength
PROPERTIES
  StubIsASlave
  EachLoopEnds
CHECK_DEADLOCK FALSE
