SPECIFICATION Spec
CONSTANTS
    OtherTaints = {t1, t2, t3}
    SameKey = {clash}
    MaxTaints = 4
    ApiFails = TRUE
SYMMETRY TaintSymmetry
INVARIANTS
    TaintInv
PROPERTIES
    ForeignKept
    SwitchSpec
