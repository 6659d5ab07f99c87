SPECIFICATION Spec
CONSTANTS
    RingSize = 3
    BatchSize = 2
    CountLimit = 2
    Archive = TRUE
    FailOnLoss = TRUE
    MaxCount = 2
CHECK_DEADLOCK FALSE
INVARIANTS
    TypeOK
    ReportIsFinal
    SuccessMeansAll
PROPERTIES
    StopsWhenAsked
