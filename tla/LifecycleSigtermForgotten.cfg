CONSTANTS
  Handlers = {"http"}
  Documents <- MCDocuments
  Down = Down
  Requests = {r1, r2}
  MaxSignals = 1
SPECIFICATION FairSpec
PROPERTY SigtermEnds
CHECK_DEADLOCK FALSE
