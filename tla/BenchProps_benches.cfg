SPECIFICATION Spec
CONSTANTS
  XLEN = 32
  WordIndexes = {0, 1, 2, 3, 4, 5, 6, 8, 16, 1024, 16383}
  MemIndexes = {0, 1, 2, 25, 26, 50}
  Half = 4096
  Timeout = 4
  AnySeed = FALSE
INVARIANTS DatapathAgrees DecoderIsTheCores CsrAgrees RegisterFileAgrees MemoriesAgree
           PeripheralsAgree UartAgrees NeverGivesUp
CHECK_DEADLOCK FALSE
