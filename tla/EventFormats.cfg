SPECIFICATION Spec
CONSTANTS
    WORDSIZE = 64
    Formats = {"Cbc2", "Cbc3", "D19cCbc3", "D19cCbc3ZS", "D19cMPA"}
    Boards <- SomeBoards
    Contents <- AllContents
    Modes = {"SUMMARY", "ERROR", "FULL"}
    CondData = {0, 2}
INVARIANTS ChipsAreOwn ViewsAgree SLinkReads
CHECK_DEADLOCK FALSE
