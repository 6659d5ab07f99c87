SPECIFICATION FairSpec
CONSTANTS
    Ids = {1, 2}
    MaxLength = 3
    MaxPending = 2
    Hole = Hole
    Cpus = {c1, c2}
    Shapes <- MixedShapes
    CHUNK_SIZE = 2
    RingSize = 4
    ChunkWeight = 2
    MaxLoops = 7
    Faults = {"urb_read", "iso_read", "payload_read", "sg_read"}
    MaxFaults = 1
    MaxEvents = 2
CHECK_DEADLOCK FALSE
INVARIANTS
    LossesAreCounted
PROPERTIES
    StreamIsAccepted
    EventuallySettled
    ImplementsChannel
