SPECIFICATION FairSpec
CONSTANTS
    Instances = {i1, i2}
    Recoverers = {r1, r2}
    Nobody = Nobody
    None = None
    Keys = {k1}
    Bodies = {b1}
    Times = {1}
    EventCounts = {1}
    RequestsLimit = 2
INVARIANTS
    OneWriter
PROPERTIES
    RecoveryOnlyOfTheDead
    CallsReturn
CHECK_DEADLOCK FALSE
