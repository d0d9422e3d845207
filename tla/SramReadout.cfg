SPECIFICATION FairSpec
CONSTANTS
    Boards <- BothBoards
    Packet = 2
    NEvents <- OneOrTwo
    MaxBlocks = 7
    MaxAttempts = 2
    MaxCalls = 6
INVARIANTS BlocksInTurn EventsAreFresh
PROPERTIES CallReturns
CHECK_DEADLOCK FALSE
