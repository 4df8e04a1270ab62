SPECIFICATION Spec
CONSTANTS
    Tasks = {t, u}
    Paths = {p}
    Asked = {t, u}
    Placements = {"isolated"}
    Leads = {l, k}
    Workers = {w}
    Seats = {w}
    Sends = {}
    Archives = {}
    Runners = {r}
    None = None
    MaxAttempts = 1
    MaxRev = 2
    MaxBrief = 2
    MaxOwnership = 2
SYMMETRY Symmetry
CONSTRAINT OneChange
INVARIANTS
    OneWriter
    OneAttemptPerWorker
CHECK_DEADLOCK FALSE
