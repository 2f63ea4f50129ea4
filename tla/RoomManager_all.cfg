SPECIFICATION FairSpec
CONSTANTS
  Rooms = {r1, r2}
  Conns = {c1}
INVARIANTS TypeOK ServingHasRoom OnlyLateRoomsLeft
PROPERTIES RoomsComeUp StopEndsAll
CHECK_DEADLOCK FALSE
