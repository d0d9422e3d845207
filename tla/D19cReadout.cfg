SPECIFICATION FairSpec
CONSTANTS
  EventSize = 2
  Boards <- AllBoards
  Ops <- AllOps
  NEvents <- MCNEvents
  cNTriesMax = 2
  MaxLost = 1
  FifoDepth = 4
  MaxEvents = 16
  MaxRestarts = 2
  MaxCalls = 2
CHECK_DEADLOCK FALSE
INVARIANTS Delivered OnceInOrder SavedIsReturned
PROPERTIES CallReturns
