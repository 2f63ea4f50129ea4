SPECIFICATION FairSpec
CONSTANTS
  ClientChunks = 0
  ServerChunks = 1
  Limit = 2
  MayBreak = {}
  MayFail = {"server"}
INVARIANTS TypeOK EofHeld EndComplete EndAcked
PROPERTIES ClosesReliably GracefulEnds NoHalfOpen
CHECK_DEADLOCK FALSE
