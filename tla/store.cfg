SPECIFICATION Spec
CONSTANTS
    Pools = {1, 2}
    Clients = {c1, c2}
    Ops <- SomeOps
    MaxTick = 1
    IntSize = 8
INVARIANTS TypeOK MutualExclusion ReadsAreStable
PROPERTY StoreSpec
