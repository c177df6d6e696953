SPECIFICATION FairSpec
CONSTANTS
  Messages = {entity, other}
  Entities = {entity}
  NoMessage = NoMessage
  Callbacks = {c1, c2}
  Stoppers = {s1, s2}
  NoOwner = NoOwner
INVARIANTS TypeOK NoLostWakeup NoCallbackOutlivesHandle LossHasACause
PROPERTIES StopEndsHandle
