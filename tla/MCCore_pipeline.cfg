SPECIFICATION Spec
CONSTANTS
  WordSize = 16
  NReg = 4
  Or <- MCOr
  AndNot <- MCAndNot
  ResetPc = 0
  DmemSize = 2
  MaxResets = 0
  Programs <- HazardAndTrapPrograms
  DmemInit <- ZeroMem
INVARIANTS TypeOK OperandsCurrent FetchPaired InterruptPcPrecise
PROPERTY ImplementsIsa
