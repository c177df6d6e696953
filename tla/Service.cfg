SPECIFICATION FairSpec
CONSTANTS
  Threads = {t1, t2}
  Ids = {e1}
  Values = {v1, v2}
  Absent = Absent
  NoEntity = NoEntity
  Notifiers = {"http", "pubsub"}
  MaxRetryCount = 1
  MaxLate = 2
INVARIANTS TypeOK OnlyStoredIsAnnounced OkMeansDelivered AloneAndOkMirrors SilentChangeNeedsFault
PROPERTIES EveryCallIsAnswered
