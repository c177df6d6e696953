SPECIFICATION FairSpec
CONSTANTS
  m1 = m1
  t1 = t1
  t2 = t2
  Managers = {m1}
  Threads = {t1, t2}
  ManagerOf <- OneReplica
  Ids = {e1}
  Values = {v1, v2}
  Absent = Absent
  NoRequest = NoRequest
  NoThread = NoThread
  MaxRetryCount = 1
INVARIANTS TypeOK ExclusiveAccess FailureNeedsFault
PROPERTIES ImplementsPort DrainsWhenIntakeStops
