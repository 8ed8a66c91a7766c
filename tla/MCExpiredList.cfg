SPECIFICATION Spec
CONSTANTS
    n1 = n1
    n2 = n2
    n3 = n3
    Nodes = {n1, n2, n3}
    Versions = {1, 2}
    TTL = 1
    MaxNow = 2
    MaxSkew = 1
    Offset <- Ahead
INVARIANTS
    LockExpires
