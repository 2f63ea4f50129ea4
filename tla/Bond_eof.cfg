SPECIFICATION Spec
CONSTANTS
  N = 2
  Breakable = {}
  MayEnd = {"server"}
  LaneCap = 1
  RecvCap = 1
  PendingCap = 2
  MaxUp = 0
  MaxDown = 1
INVARIANT EofComplete
CHECK_DEADLOCK FALSE
