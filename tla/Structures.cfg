SPECIFICATION StructuresSpec
CONSTANTS
  Bytes = {x, y}
  Amounts <- AskedFor
  MaxLength = 4
  RingSizes = {0, 3}
  RingMax = 5
  PacketBytes = {0, 1, 2}
  Capacity = 2
  MaxWritten = 4
  Requests = {r1, r2, r3}
  Cookies = {"", "stale"}
INVARIANTS
  StructuresTypeOK
  RingIsQueue
PROPERTIES
  ImplementsByteQueue
  StepsOfCursor
  NeverReplaced
CHECK_DEADLOCK FALSE
