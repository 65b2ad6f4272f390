SPECIFICATION FairSpec
CONSTANTS
  WordSize = 16
  NReg = 4
  Or <- MCOr
  AndNot <- MCAndNot
  ResetPc = 0
  DmemSize = 2
  MaxResets = 1
  Programs <- LivePrograms
  DmemInit <- ZeroMem
INVARIANT FetchPaired
PROPERTY ImplementsIsaForever InterruptTaken
