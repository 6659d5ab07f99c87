SPECIFICATION Spec
CONSTANTS
    Urbs = {u1, u2}
    Statuses <- MCStatuses
    Errors <- MCErrors
    Callers <- MCCallers
    GivebackStart = 2
    GivebackEnd = 3
    MaxInflight = 1
    Faults = {"urb_read", "status_read", "insert", "ring", "context_read"}
    MaxId = 4
    MaxLosses = 1
SYMMETRY AnyUrb
CHECK_DEADLOCK FALSE
INVARIANTS
    TypeOK
    CompletionAfterSync
    OneLifecycle
    HonestPairing
    InFlightReport
    NothingVanishes
