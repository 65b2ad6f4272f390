SPECIFICATION FairSpec
CONSTANTS
  NWords = 2
  Requests <- AllLanes
  MemInit <- MCMemInit
  MaxAccesses = 2
  MaxResets = 1
INVARIANTS TypeOK OneTransactionPerWord
PROPERTIES ChannelStable ImplementsMemPort EachAccessCompletes
