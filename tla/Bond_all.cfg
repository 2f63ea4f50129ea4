SPECIFICATION Spec
CONSTANTS
  N = 2
  Breakable = {1}
  MayEnd = {"client"}
  LaneCap = 1
  RecvCap = 1
  PendingCap = 1
  MaxUp = 2
  MaxDown = 1
INVARIANTS TypeOK FinComplete BondInv Delivers ServerCleansUp
PROPERTY ReliableSpec
CHECK_DEADLOCK FALSE
