SPECIFICATION Spec
CONSTANTS
    n1 = n1
    n2 = n2
    n3 = n3
    Nodes = {n1, n2, n3}
    Versions = {1, 2}
    TTL = 3
    MaxNow = 4
    MaxSkew = 1
    Offset <- Ahead
SYMMETRY OnTimeSymmetry
INVARIANTS
    RolloutInv
    HoldersBounded
PROPERTIES
    YoungEntryKept
