SPECIFICATION Spec
CONSTANTS
    Ids = {1, 2, 3}
    MaxLength = 2
    MaxPending = 2
    Hole = Hole
    Records <- MixedRecords
    CountLimits = {0, 2}
    MaxRecords = 8
CHECK_DEADLOCK FALSE
INVARIANTS
    Conservation
