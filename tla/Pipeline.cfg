CONSTANTS
  t1 = t1
  t2 = t2
  Threads <- MCThreads
  Handlers = {"http", "grpc", "cli"}
  Kids <- MCKids
  Materials <- MCMaterials
  NoToken = NoToken
  KeySets <- MCKeySets
  Segments = {"a", "b"}
  Malformed = Malformed
  Requests <- MCRequests
  Idle = Idle
  MaxRequests = 2
SPECIFICATION Spec
SYMMETRY MCSymmetry
INVARIANTS
  TypeOK
  OnlyGenuineTokensPass
  OkSetCanBeRead
  PutContinuesTheRequest
  NothingStaysActive
  SpanTellsStatus
PROPERTIES
  GenuineTokensPass
CHECK_DEADLOCK FALSE
