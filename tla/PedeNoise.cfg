SPECIFICATION NoiseSpec
CONSTANTS
    Board = {"be0"}
    Cbc = {"c1", "c2"}
    Channel = {1, 2}
    BoardOf <- OneBoard
    GroupOf <- ByParity
    Nbits = 2
    VcthBits = 3
    TargetOffset = 2
    TargetVcth = 2
    Points <- SomePoints
    MinBreakCount = 2
    Amplitudes = {0, 1}
    Raise = 2
INVARIANTS SearchIsExact MeasuredAlone SCurveComplete
CHECK_DEADLOCK FALSE
