SPECIFICATION FairSpec
CONSTANTS
  DataBits = 1
  PrescaleInit = 1
  Accesses <- Either
  Timeout = 4
INVARIANTS TypeOK EveryCharacterArrives LossIsRemembered ValidUntilRead
PROPERTIES WritesEnd
