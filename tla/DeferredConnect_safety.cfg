SPECIFICATION Spec
CONSTANTS
  Streams = {1, 2}
  Fragments = {1}
  Handlers = {h1}
  NWorkers = 2
  QueueLimit = 1
  SessionCap = 2
  MaxStreams = 1
  MaxDups = 1
  Resets = {1}
  MaxFailures = 1
  MayClose = TRUE
INVARIANTS TypeOK PendingExact NoLeak MarkedHasTask
CHECK_DEADLOCK FALSE
