CONSTANTS
  Conns = {c1, c2}
  HeaderLen = 2
  Sizes = {0, 1}
SPECIFICATION Spec
INVARIANTS OneConversation EchoOfWhatArrived
CHECK_DEADLOCK FALSE
