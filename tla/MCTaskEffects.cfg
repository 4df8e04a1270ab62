SPECIFICATION FairSpec
CONSTANTS
    Tasks = {t}
    Paths = {p}
    Asked = {}
    Placements = {"shared"}
    Leads = {l}
    Workers = {w}
    Seats = {}
    Sends = {m, n}
    Archives = {v}
    Runners = {r, q}
    None = None
    MaxAttempts = 1
    MaxRev = 1
    MaxBrief = 1
    MaxOwnership = 1
INVARIANTS
    CallsOnce
    ObservedHappened
    StoppedNeverWorked
PROPERTIES
    NoWorkAfterTheEnd
    PendingSeatBinds
CHECK_DEADLOCK FALSE
