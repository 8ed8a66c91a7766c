SPECIFICATION Spec
CONSTANTS
    Nodes = {n1, n2}
    Concurrency = 1
    TTL = 0
    MaxNow = 0
    Events = {"api", "drain", "noreboot", "stuck", "update", "cordoned"}
    ForceReboot = FALSE
    AnnotateNodes = TRUE
    UseTaint = TRUE
    UseLabels = FALSE
INVARIANTS
    RebootsBounded
    RebootsCordoned
    MarkAccounted
