SPECIFICATION Spec
CONSTANTS
    Nodes = {n1, n2}
    Concurrency = 1
    TTL = 0
    MaxNow = 0
    Events = {"api", "crash", "drain", "noreboot", "badlabel", "stuck", "update", "cordoned"}
    ForceReboot = TRUE
    AnnotateNodes = TRUE
    UseTaint = TRUE
    UseLabels = TRUE
SYMMETRY NodeSymmetry
INVARIANTS
    KuredInv
    DisruptionBounded
    CordonAccounted
    AdminCordonKept
    MetadataTruthful
    MarkedInProgress
PROPERTIES
    ClientSpec
    SchedulingUnderLock
    ReleaseFreesSlot
    UncordonedAtRelease
