SPECIFICATION Spec
CONSTANTS
    Nodes = {n1, n2}
    Concurrency = 2
    TTL = 1
    MaxNow = 1
    Events = {"api", "cancel", "admin"}
    ForceReboot = FALSE
    AnnotateNodes = FALSE
    UseTaint = FALSE
    UseLabels = FALSE
SYMMETRY NodeSymmetry
INVARIANTS
    WithinCapacity
PROPERTIES
    LiveEntryKept
