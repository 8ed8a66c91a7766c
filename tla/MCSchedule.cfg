SPECIFICATION Spec
CONSTANTS
    DayUnits = 6
    Period = 4
    Scenarios <- AllScenarios
INVARIANTS
    TypeOK
    Rhythm
    BurstBounded
    AttemptsInWindow
    BlockersRespected
PROPERTIES
    WindowNotMissed
