SPECIFICATION FairSpec
CONSTANTS
  Clients = {c1}
  MaxThreads = 1
PROPERTIES
  ShutdownReturns
CHECK_DEADLOCK FALSE
