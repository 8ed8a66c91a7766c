SPECIFICATION LiveSpec
CONSTANTS
    Nodes = {n1, n2}
    Concurrency = 1
    TTL = 0
    MaxNow = 0
    Events = {"api"}
    ForceReboot = TRUE
    AnnotateNodes = FALSE
    UseTaint = FALSE
    UseLabels = FALSE
PROPERTIES
    UncordonedAfter
