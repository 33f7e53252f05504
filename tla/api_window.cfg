SPECIFICATION Spec
CONSTANTS
    Spacing = 3
    MaxTick = 10
    Positions <- SomePositions
    WordBits = 2
    SwapTicks <- SomeTicks
    MaxLiquidity = 2
    Pool = "pool"
    OtherLogs <- SomeLogs
    Offsets = {0, 1, 43, 127}
    DefaultOffset = 2
    IntSize = 128
    WordSize = 512
INVARIANT WindowIsCentred
