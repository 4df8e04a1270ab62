CONSTANTS
    Lead = l
    Peer = p
    s = s
    r = r
    h = h
    t = t
    None = None
    Supervisors = {s, r}
    PeerTurns = {h}
    LeadTurns = {t}
    Sends <- MCSends
    Anchors <- MCAnchors
    History = {h}
    Routes <- MCRoutes
    MaxQueue = 3
    MaxSpent = 1
    MaxAssessments = 2
    MaxAttempts = 3
SPECIFICATION MCFairSpec
INVARIANTS AlertedOnce HeldBodiesAreWanted RoomIsLater
PROPERTIES AnswersFitTheirEvidence AlertsAreCurrent EveryCaseCloses
CHECK_DEADLOCK FALSE
