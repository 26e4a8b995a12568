CONSTANTS
  Txs = {t1, t2}
  Objects = {o1, o2}
  Footprints <- NoObjects
  Outside = {}
  NoLock = NoLock
  Settled = Settled
  MaxPoolSize = 1
  CoinBatchSize = 2
  OwnedCoins = 1
  SourceGiven = FALSE
  Faults = {"price"}
SPECIFICATION Spec
INVARIANTS PoolBounded
CHECK_DEADLOCK FALSE
