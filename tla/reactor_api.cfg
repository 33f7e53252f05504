SPECIFICATION Spec
CONSTANTS
    p1 = p1
    p2 = p2
    t1 = t1
    t2 = t2
    Pools = {p1}
    Ticks = {t1, t2}
    Blocks <- OnePoolBlocks
    MaxHeight = 3
    MaxBlockEvents = 2
    Handlers = {h1}
    FromHeights = {0}
    MaxLag = 1
    MaxCrashes = 1
    WriteErrors = FALSE
INVARIANTS TypeOK ReplicaExact NothingLost PendingIsNext UntrackedIsEmpty
PROPERTY ReplicaSpec
