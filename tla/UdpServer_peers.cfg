SPECIFICATION Spec
CONSTANTS
  p1 = p1
  p2 = p2
  Peers = {p1, p2}
  Threads = {t1, t2}
  Nobody = nobody
  HeaderLen = 1
  Size <- OneByte
  MaxSent <- TwoOfOne
  NetMax = 3
  MaxArrivals = 3
INVARIANTS
  OneObjectPerPeer
  DeliveredAsArrived
PROPERTIES
  PeerAccepted
  QueueTaken
CHECK_DEADLOCK FALSE
