SPECIFICATION FairSpec
CONSTANTS
    Boards <- TwoBoards
    Type <- Types
    Sizes <- ZSSizes
    FixedSize = 2
    BadSize = 10
    MaxEvents = 3
    MaxBlocks = 3
INVARIANTS Fetched DisciplineSuffices
PROPERTIES CallReturns
CHECK_DEADLOCK FALSE
