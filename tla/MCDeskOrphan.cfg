SPECIFICATION Spec
CONSTANTS
    Instances = {i1, i2}
    Recoverers = {r1}
    Nobody = Nobody
    None = None
    Keys = {k1, k2}
    Bodies = {b1}
    Times = {1}
    EventCounts = {1, 2}
    RequestsLimit = 2
INVARIANTS
    LedgerReadsBack
CHECK_DEADLOCK FALSE
