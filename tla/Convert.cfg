SPECIFICATION Spec
CONSTANTS
    Scenarios <- AllScenarios
    NsPerUs = 2
    UsPerSecond = 2
    MaxUnmatched = 2
CHECK_DEADLOCK FALSE
INVARIANTS
    TypeOK
    RequestsAreScoped
    LatencyIsScoped
    EveryPacketAccounted
    ReadBackExact
    RotationExact
    WrittenIsSelected
    IsoStatsScoped
