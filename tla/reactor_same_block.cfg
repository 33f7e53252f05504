SPECIFICATION Spec
CONSTANTS
    p1 = p1
    p2 = p2
    t1 = t1
    t2 = t2
    Pools = {p1}
    Ticks = {t1, t2}
    Blocks <- OnePoolBlocks
    MaxHeight = 3
    MaxBlockEvents = 2
    Handlers = {}
    FromHeights = {0}
    MaxLag = 0
    MaxCrashes = 0
    WriteErrors = FALSE
INVARIANT ReplicaMatchesChain
