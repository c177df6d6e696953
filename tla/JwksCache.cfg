SPECIFICATION FairSpec
CONSTANTS
  Threads = {t1, t2}
  Kids = {k1, k2}
  EmptyKid = EmptyKid
  NoKid = NoKid
  NoThread = NoThread
  Configurations <- Any
  MaxVersions = 3
INVARIANTS TypeOK WriteExcludesRead NoNeedlessRequest NotFoundIsFresh
PROPERTIES CacheMovesForward DrainsWhenIntakeStops
