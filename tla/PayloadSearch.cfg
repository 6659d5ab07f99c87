SPECIFICATION Spec
CONSTANTS
    Needles <- AllNeedles
    Payloads <- AllPayloads
    Layouts <- SomeLayouts
    BufferSize = 2
CHECK_DEADLOCK FALSE
INVARIANTS
    TableIsExact
    NothingForgotten
    AnswerIsExact
