SPECIFICATION FairSpec
CONSTANTS
  Clients = {c1, c2, c3}
  MaxThreads = 2
INVARIANTS
  OneOwner
PROPERTIES
  EachOncePerPass
  PendingAccepted
  ServedAgain
CHECK_DEADLOCK FALSE
