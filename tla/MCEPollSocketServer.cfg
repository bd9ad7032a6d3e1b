CONSTANTS
  HeaderLen = 1
  FdLimit = 4
  Conns = {c1, c2, c3}
  Sizes = {1}
  Ports = {p9000}
  Port = p9000
  BacklogLimit = 1
  None = None
SPECIFICATION Spec
INVARIANTS NoClientForgotten WatchesItsClients
SYMMETRY Symmetry
CHECK_DEADLOCK FALSE
