SPECIFICATION FairSpec
CONSTANTS
  Half = 5
  Limit = 2
  RecvWindow = 1
  RxChanCap = 1
  FrontBudget = 1
  DataNackMaxGap = 2
  MaxTransit = 0
  MaxUnackedAge = 2
  Base = 9
  Unacked = {}
  MaxChunks = 10
  NetCap = 1
PROPERTY Delivers
CHECK_DEADLOCK FALSE
