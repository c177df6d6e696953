SPECIFICATION Spec
CONSTANTS
  Threads = {t1}
  Kids = {k1}
  EmptyKid = EmptyKid
  NoKid = NoKid
  NoThread = NoThread
  Configurations <- Main
  MaxVersions = 2
INVARIANTS FailureMeansUnavailable
