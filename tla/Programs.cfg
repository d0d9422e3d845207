SPECIFICATION Spec
CONSTANTS
    Images = {golden, new}
    Golden = golden
    PipeSize = 5
    TotalSize = 4
    Hundred = 3
    Every = 2
    GoodWord = GoodWord
    WrongWord = WrongWord
    BadWord = BadWord
    TextWord = TextWord
    MaxFaults = 2
    SdBoards <- AllSd
    MaxOps = 3
    GlibBoards <- AllGlib
    Files = {3, 5, 9}
    HigherGolden = 4
    LowerGolden = 3
    HigherUser = 2
    LowerUser = 1
    Ela = 2
    max_write_buffer = 2
    Attempts = 2
    MaxFlashFaults = 2
    MaxFlashOps = 2
    MaxResets = 2
INVARIANTS ImagesRight TransfersFit FlashRight BitesInTime
CHECK_DEADLOCK FALSE
