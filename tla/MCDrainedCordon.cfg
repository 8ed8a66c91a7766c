SPECIFICATION Spec
CONSTANTS
    Nodes = {n1, n2}
    Concurrency = 1
    TTL = 0
    MaxNow = 0
    Events = {"drain", "cordoned"}
    ForceReboot = FALSE
    AnnotateNodes = FALSE
    UseTaint = FALSE
    UseLabels = FALSE
INVARIANTS
    AdminCordonKept
