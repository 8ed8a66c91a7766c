SPECIFICATION Spec
CONSTANTS
    Nodes = {n1, n2, n3}
    Concurrency = 1
    TTL = 0
    MaxNow = 1
    Events = {"api"}
INVARIANTS
    MutualExclusion
    LockInv
PROPERTIES
    SlotsSpec
