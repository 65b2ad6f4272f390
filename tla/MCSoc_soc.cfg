SPECIFICATION Spec
CONSTANTS
  XLEN = 32
  Timeout = 4
  Half = 2
  MemIndexes = {0, 1}
  Devices <- MCDevices
  Base <- MCBase
  Size <- MCSize
  NWords = 20
  Requests <- MCRequests
  MemInit <- MCMemInit
  MaxAccesses = 2
  MaxResets = 1
  PinValues <- MCPins
INVARIANTS EachWordOnce LoadsReturnWhatWasRead
PROPERTIES FabricIsASlave MemoryIsAtomic EachAccessCompletes
