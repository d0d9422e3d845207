SPECIFICATION FairSpec
CONSTANTS
    Hybrids <- AllHybrids
    HybridCbc = 2
    PadsOfCbc = 3
    NGroups = 3
    Reach = 100
    MaxNumShorts = 1
    cMaxVcth = 15
    Coarse = 4
    AllOnes = 2
    Byte = 8
    Word = 32
    Nevents = 2
    FifoSize = 2
    Modules = 2
    SweepCbc = 2
    BiasBits = 3
    FieldBits = 1
    StepSizes = {1, 3}
    NGroupsStub = 4
    Turns = 4
    MaskWidth = 4
    fReadBackAttempts = 2
    Strips = 3
    MaxEvents = 2
INVARIANTS ShortsReported CurveComplete EventsAtSetting OnlyThePair
PROPERTIES Ends
CHECK_DEADLOCK FALSE
