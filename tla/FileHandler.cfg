SPECIFICATION FairSpec
CONSTANTS
    p1 = p1
    p2 = p2
    d1 = d1
    d2 = d2
    Producers <- TwoProducers
    Payload <- BlocksOrEmpty
    Empty = Empty
    Free = Free
    Writer = Writer
    MaxSets = 3
PROPERTIES LogSpec EventuallyStored CloseReturns
CHECK_DEADLOCK FALSE
