SPECIFICATION Spec
CONSTANTS
    Scenarios <- OneSided
    NsPerUs = 2
    UsPerSecond = 2
    MaxUnmatched = 2
CHECK_DEADLOCK FALSE
INVARIANT
    OutputIsReadable
