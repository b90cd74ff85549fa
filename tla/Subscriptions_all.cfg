SPECIFICATION FairSpec
CONSTANTS
  n1 = n1
  n2 = n2
  p1 = p1
  p2 = p2
  Nodes = {n1}
  Publishers = {p1, p2}
  Calls = {c1, c2}
  Local = Local
  Loop = Loop
  None = None
  NodeOf <- RemoteAndLocal
  Url <- OwnUrl
INVARIANTS TypeOK OnlyLateOnesAreMissed
PROPERTIES NewPublishersAreConnected LaunchedPublishersAreConnected
