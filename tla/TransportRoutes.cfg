SPECIFICATION Spec
CONSTANTS
    Ids = {1, 2}
    MaxLength = 15
    MaxPending = 1
    Hole = Hole
    Cpus = {c1}
    Shapes <- AllShapes
    CHUNK_SIZE = 2
    RingSize = 4
    ChunkWeight = 2
    MaxLoops = 7
    Faults = {"urb_read", "iso_read", "payload_read", "sg_read"}
    MaxFaults = 1
    MaxEvents = 2
CHECK_DEADLOCK FALSE
INVARIANTS
    TypeOK
    DeliveredExact
    LossesHaveCauses
PROPERTIES
    StreamIsAccepted
