SPECIFICATION Spec
CONSTANTS
    Texts <- AllTexts
    Urbs <- SomeUrbs
    Outcomes <- SomeOutcomes
    BusOptions = {0, 1}
    DeviceOptions <- SomeDevices
    MAX_KERNEL_PREDICATES = 2
    AllOnes = 255
    MaxDepth = 4
CHECK_DEADLOCK FALSE
INVARIANTS
    PrefilterIsSound
    VerdictIsCertain
    LatencyWhenNeeded
    ParserIsGrammar
    ParsedMeaning
