SPECIFICATION ReaderSpec
CONSTANTS
    Instances = {i1, i2}
    Recoverers = {r1}
    Nobody = Nobody
    None = None
    Keys = {k1, k2}
    Bodies = {b1, b2}
    Times = {1}
    EventCounts = {1}
    RequestsLimit = 2
SYMMETRY Symmetry
INVARIANTS
    AcknowledgedIsRecorded
    LocklessReadVerifies
PROPERTIES
    ImplementsLedger
CHECK_DEADLOCK FALSE
