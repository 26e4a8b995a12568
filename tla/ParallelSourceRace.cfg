CONSTANTS
  Txs = {t1, t2, t3}
  Objects = {o1, o2}
  Footprints <- NoObjects
  Outside = {}
  NoLock = NoLock
  Settled = Settled
  MaxPoolSize = 2
  CoinBatchSize = 1
  OwnedCoins = 1
  SourceGiven = FALSE
  Faults = {"resolve"}
SPECIFICATION Spec
INVARIANTS NoCoinForgotten
CHECK_DEADLOCK FALSE
