CONSTANTS
  HeaderLen = 1
  FdLimit = 4
  Conns = {c1, c2}
  Sizes = {0, 1}
  Ports = {p9000}
  Port = p9000
  BacklogLimit = 1
  None = None
SPECIFICATION FairSpec
INVARIANTS TypeOK OwnsItsClients EchoesInOrder NobodyIsCheated LeavesOpen
PROPERTIES ImplementsEchoService ConnectedIsServed
CHECK_DEADLOCK FALSE
