SPECIFICATION Spec
CONSTANTS
    PoolSizes = {1, 2}
    FromHeights = {0, 4}
    MaxHeight = 5
    MaxReorg = 1
    MaxLives = 2
    Wrap = 16
INVARIANTS TypeOK NothingOnTheWayIsLost BackPressure NoMissedWakeup ClosedIsQuiet
PROPERTIES FeedSpec
