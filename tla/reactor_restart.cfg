SPECIFICATION Spec
CONSTANTS
    p1 = p1
    p2 = p2
    t1 = t1
    t2 = t2
    Pools = {p1}
    Ticks = {t1, t2}
    Blocks <- OnePoolBlocks
    MaxHeight = 3
    MaxBlockEvents = 2
    Handlers = {}
    FromHeights = {0, 3}
    MaxLag = 1
    MaxCrashes = 2
    WriteErrors = TRUE
INVARIANTS ReplicaExact NothingLost PendingIsNext UntrackedIsEmpty
PROPERTIES ReplicaSpec FedInOrder
