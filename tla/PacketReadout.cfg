SPECIFICATION FairSpec
CONSTANTS
    Boards <- AllBoards
    Fes = {0, 1}
    MaxPacket = 3
    NEvents = {2, 5}
    UserPacket = 2
    UserCycle = 0
    Words = 2
    Depth = 10
    MaxPolls = 2
    MaxCalls = 2
    Cbc = {1, 2}
    FeOf <- EachOnItsOwn
    Registers <- ShortAndLong
    Values = {1}
    fReplyBufferSize = 6
    cMaxWriteAttempts = 2
    TooMany = 3
    MaxNacks = 3
INVARIANTS NEventsRight RepliesFit WritesHeal
PROPERTIES CallReturns
CHECK_DEADLOCK FALSE
