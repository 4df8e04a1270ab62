CONSTANTS
    a1 = a1
    s1 = s1  s2 = s2  p1 = p1  p2 = p2
    None = None
    Actions = {a1}
    Paths = {p1, p2}
    StageKinds = {"git-worktree", "content-dir"}
    Required = FALSE
    Slots = {s1, s2}
    MaxReqs = 3
    MaxRetries = 1
    MaxEdits = 1
    MaxMoves = 1
    MaxCrashes = 1
    MaxFaults = 1
SPECIFICATION MCSpec
SYMMETRY Perms
INVARIANTS RecoverableTarget FreedMeansClean
PROPERTIES SettledStaysSettled
CHECK_DEADLOCK FALSE
