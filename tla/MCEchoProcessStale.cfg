CONSTANTS
  HeaderLen = 1
  FdLimit = 5
  Conns = {c1, c2}
  Sizes = {1}
  Ports = {p9000, p9001}
  SelectPort = p9000
  EPollPort = p9001
  Disturbed = {p9000, p9001}
  MaxTaps = 2
  MaxOthers = 1
  BacklogLimit = 10
  None = None
SPECIFICATION Spec
INVARIANT ClosesItsClients
CHECK_DEADLOCK FALSE
