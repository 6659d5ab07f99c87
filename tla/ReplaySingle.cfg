SPECIFICATION Spec
CONSTANTS
    Ids = {1}
    MaxLength = 5
    MaxPending = 1
    Hole = Hole
    Records <- SingleRecords
    CountLimits = {0}
    MaxRecords = 7
CHECK_DEADLOCK FALSE
INVARIANTS
    TypeOK
    RangesExact
    CompleteIsWhole
PROPERTIES
    BytesNeverChange
