SPECIFICATION Spec
CONSTANTS
  Conns = {c1, c2}
  NoConn = none
  Writers = {w1}
  Readers = {r1, r2}
  H = 2
  Sizes = {1}
  NetMax = 3
  Faults = FALSE
  MaxPackets = 1
INVARIANTS
  DeliveredInOrder
