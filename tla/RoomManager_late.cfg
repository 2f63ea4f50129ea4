SPECIFICATION Spec
CONSTANTS
  Rooms = {r1, r2}
  Conns = {c1}
INVARIANT StopReleasesAll
CHECK_DEADLOCK FALSE
