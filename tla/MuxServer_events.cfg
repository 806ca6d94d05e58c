SPECIFICATION FairSpec
CONSTANTS
  Clients = {c1, c2}
  Workers = {w1, w2}
  Free = free
  HandlerOps = {"return", "call", "disconnect"}
  RegisterIn = {"connect"}
  MaxPackets = 1
INVARIANTS
  DropIsTold
PROPERTIES
  NoHandlerAfterDisconnect
  BrokenIsDropped
  MutexReleased
CHECK_DEADLOCK FALSE
