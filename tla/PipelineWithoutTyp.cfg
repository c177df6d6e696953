CONSTANTS
  t1 = t1
  t2 = t2
  Threads <- MCThreads
  Handlers = {"http", "grpc", "cli"}
  Kids <- MCKids
  Materials <- MCMaterials
  NoToken = NoToken
  KeySets <- MCKeySets
  Segments = {"a", "b"}
  Malformed = Malformed
  Requests <- MCWithoutTyp
  Idle = Idle
  MaxRequests = 2
SPECIFICATION Spec
PROPERTY ValidTokensPass
CHECK_DEADLOCK FALSE
