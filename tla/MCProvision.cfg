SPECIFICATION Spec
CONSTANTS
  Calls = {c1, c2}
  linked = linked
  opened = opened
  tree = tree
  job = job
  Shapes <- MCShapes
  MaxEpoch = 2
  None = None
  Publishers = {p1, p2}
  Files = 2
  MaxOutages = 1
  Nothing = Nothing
  Families <- MCFamilies
  Codex = "codex"
  Antigravity = "antigravity"
  Bases = {}
  Requests <- MCRequests
  Routings <- MCRoutings
  UserProfiles <- MCUserProfiles
  Documents <- MCDocuments
  MaxOperations = 3
  MaxEdits = 2
  Unset = Unset
INVARIANTS FormedOnce ReceiptsTellTheTruth ConfigIsSound
PROPERTIES PublicationHolds PatchesAreSafe
CHECK_DEADLOCK FALSE
SYMMETRY MCSymmetry
