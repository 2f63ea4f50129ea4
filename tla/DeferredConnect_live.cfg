SPECIFICATION FairSpec
CONSTANTS
  Streams = {1}
  Fragments = {1, 2}
  Handlers = {h1, h2}
  NWorkers = 2
  QueueLimit = 1
  SessionCap = 2
  MaxStreams = 2
  MaxDups = 0
  Resets = {}
  MaxFailures = 0
  MayClose = TRUE
PROPERTIES SynAnswered SessionDrains
CHECK_DEADLOCK FALSE
