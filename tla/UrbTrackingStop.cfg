SPECIFICATION Spec
CONSTANTS
    Urbs = {u1, u2}
    Statuses <- MCStatuses
    Errors <- MCErrors
    Callers <- MCCallers
    GivebackStart = 2
    GivebackEnd = 3
    MaxInflight = 2
    Faults = {}
    MaxId = 4
    MaxLosses = 0
SYMMETRY AnyUrb
CHECK_DEADLOCK FALSE
INVARIANTS
    StopIsNotLoss
