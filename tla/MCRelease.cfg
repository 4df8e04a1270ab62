SPECIFICATION MCSpec
CONSTANTS
    l = l  k = k  a = a  c = c  bare = bare  s = s  u = u  p = p  x = x
    roll = roll  q = q  id = id  log = log
    Leads = {l, k}
    Founder = l
    Seats = {a}
    Attached = {l, k}
    Revocable = {a}
    Editors = {a}
    Snapshots = {c, bare}
    Delivered <- MCDelivered
    None = None
    MaxBrief = 1
    MaxOwnership = 1
    MaxHandbacks = 1
    MaxCaptures = 1
    Scopes = {s, u}
    FormsOf <- MCForms
    MaxDecls <- MCDecls
    MaxMoves <- MCMoves
    MaxReviews = 1
    Rollouts = {roll}
    Checks = {q}
    Definitions <- MCDefinitions
    Pins <- MCPins
    CheckRequests = {id}
    MaxDefs = 1
    MaxRollouts = 2
    MaxJobs = 2
    MaxRuns = 2
    Claims <- MCClaims
    Transcripts = {log}
    SettleRequests = {id}
    MaxSettlements = 3
    MaxRecorders = 2
INVARIANTS
    LedgerReads
PROPERTIES
    RowsAreTimely
CONSTRAINT InStory
CHECK_DEADLOCK FALSE
