SPECIFICATION Spec
CONSTANTS
  Servers = {s1, s2}
  Clients = {c1}
  Accepted = {a1}
  MaxSockets = 4
  NoSocket = none
SYMMETRY ServersAlike
INVARIANTS
  DescriptorsOwned
  ModeKept
  KilledUnprotected
CHECK_DEADLOCK FALSE
