SPECIFICATION FairSpec
CONSTANTS
    PoolSizes = {2}
    FromHeights = {0, 3}
    MaxHeight = 3
    MaxReorg = 1
    MaxLives = 2
    Wrap = 16
PROPERTIES DispatchedIsHandled CrashCostsNothing StopEnds
