SPECIFICATION Spec
CONSTANTS
  Adapters = {"redis", "cloud-storage", "in-memory"}
  Clients = {c1, c2}
  Ids = {e1}
  Values = {v1, v2}
  Absent = Absent
  NoRequest = NoRequest
INVARIANT TypeOK
PROPERTY ImplementsPort
