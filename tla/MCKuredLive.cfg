SPECIFICATION LiveSpec
CONSTANTS
    Nodes = {n1, n2}
    Concurrency = 1
    TTL = 0
    MaxNow = 0
    Events = {"drain"}
    ForceReboot = FALSE
    AnnotateNodes = TRUE
    UseTaint = TRUE
    UseLabels = TRUE
INVARIANTS
    CordonAccounted
PROPERTIES
    EveryRebootHappens
    Converges
