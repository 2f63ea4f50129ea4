SPECIFICATION Spec
CONSTANTS
  Half = 5
  Limit = 2
  RecvWindow = 1
  RxChanCap = 1
  FrontBudget = 1
  DataNackMaxGap = 2
  MaxTransit = 1
  MaxUnackedAge = 2
  Base = 10
  Unacked = {0}
  MaxChunks = 12
  NetCap = 1
INVARIANTS InOrder NoLoss ClassifiedRight IInv
PROPERTY ReliableSpec
CHECK_DEADLOCK FALSE
