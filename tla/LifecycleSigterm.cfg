CONSTANTS
  Handlers = {"http", "grpc", "cli"}
  Documents <- MCDocuments
  Down = Down
  Requests = {r1, r2}
  MaxSignals = 1
SPECIFICATION Spec
INVARIANT SigtermIsGraceful
CHECK_DEADLOCK FALSE
