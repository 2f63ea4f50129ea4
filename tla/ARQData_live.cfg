SPECIFICATION FairSpec
CONSTANTS
  Half = 5
  Limit = 2
  RecvWindow = 1
  RxChanCap = 1
  FrontBudget = 1
  DataNackMaxGap = 0
  MaxTransit = 0
  MaxUnackedAge = 2
  Base = 9
  Unacked = {8}
  MaxChunks = 10
  NetCap = 1
INVARIANT TypeOK
PROPERTY DrainsOrForgets
CHECK_DEADLOCK FALSE
