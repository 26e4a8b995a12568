CONSTANTS
  Txs = {t1, t2, t3}
  Objects = {o1, o2}
  Footprints <- NoObjects
  Outside = {app}
  NoLock = NoLock
  Settled = Settled
  MaxPoolSize = 2
  CoinBatchSize = 2
  OwnedCoins = 2
  SourceGiven = FALSE
  Faults = {"fetch", "stale", "sign"}
SPECIFICATION Spec
PROPERTIES CacheLockSpec
INVARIANTS PoolAccounted GasIsCurrent NoEquivocation
CHECK_DEADLOCK FALSE
SYMMETRY Alike
