SPECIFICATION FairSpec
CONSTANTS
  Conns = {c1}
  NoConn = none
  Writers = {w1, w2}
  Readers = {r1, r2}
  H = 2
  Sizes = {0, 1}
  NetMax = 3
  Faults = TRUE
  MaxPackets = 2
INVARIANTS
  TypeOK
  StreamIsFrames
  DeliveredInOrder
PROPERTIES
  ImplementsChannel
  EventuallyDelivered
