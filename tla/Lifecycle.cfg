CONSTANTS
  Handlers = {"http", "grpc", "cli"}
  Documents <- MCDocuments
  Down = Down
  Requests = {r1, r2}
  MaxSignals = 2
SPECIFICATION FairSpec
INVARIANTS
  TypeOK
  NothingIsUsedAfterItsEnd
  AcceptsOnlyConfigured
PROPERTIES
  StoppedServerEnds
  ComesUp
CHECK_DEADLOCK FALSE
