SPECIFICATION FairSpec
CONSTANTS
  Clients = {c1}
  Rooms = 3
  MaxLaneCount = 2
  MaxConns = 2
  MaxReconnects = 1
INVARIANTS RegistryOK ServedWhole
PROPERTY EveryLaneSettles
CHECK_DEADLOCK FALSE
