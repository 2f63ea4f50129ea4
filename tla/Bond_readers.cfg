SPECIFICATION FairSpec
CONSTANTS
  N = 2
  Breakable = {}
  MayEnd = {"client"}
  LaneCap = 1
  RecvCap = 1
  PendingCap = 1
  MaxUp = 0
  MaxDown = 2
PROPERTY ClientCleansUp
CHECK_DEADLOCK FALSE
