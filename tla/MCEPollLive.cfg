CONSTANTS
  HeaderLen = 1
  FdLimit = 4
  Conns = {c1, c2}
  Sizes = {1}
  Ports = {p9000}
  Port = p9000
  BacklogLimit = 1
  None = None
SPECIFICATION FairSpec
INVARIANT NobodyIsCheated
PROPERTIES ImplementsEchoService AcceptedIsServed ConnectedIsServed
CHECK_DEADLOCK FALSE
