SPECIFICATION Spec
CONSTANTS
  a = a  b = b
  Plugins = {a, b}
  Nobody = Nobody
  Host <- MCHost
  BridgePin <- MCPin
  MaxPolls = 1
  MaxEpochs = 2
  MaxCommits = 1
  Ids = {1, 2}
  MaxFrames = 3
  OutCap = 2
  WireCap = 2
  MaxInFlight = 2
INVARIANTS AnswersAreHonest OneListener
PROPERTIES EveryRequestEnds StopsClean
CHECK_DEADLOCK FALSE
