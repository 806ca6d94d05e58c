SPECIFICATION FairSpec
CONSTANTS
  Clients = {c1}
  Workers = {w1}
  NoClient = none
  Kinds = {"keep", "post", "last", "odd"}
  HeadLen = 2
  BodyLen = 1
  ResponseLen = 2
  BufLen = 3
  KeepAliveMax = 2
  MaxRequests = 3
  Faults = TRUE
INVARIANTS ResponsesInOrder KeepAliveEnds
PROPERTY AnsweredOrClosed
CHECK_DEADLOCK FALSE
