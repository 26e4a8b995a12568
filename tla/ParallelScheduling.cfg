CONSTANTS
  Txs = {t1, t2, t3}
  Objects = {o1, o2}
  Footprints <- OneOrBoth
  Outside = {}
  NoLock = NoLock
  Settled = Settled
  MaxPoolSize = 2
  CoinBatchSize = 1
  OwnedCoins = 1
  SourceGiven = FALSE
  Faults = {"prepare"}
SPECIFICATION FairSpec
INVARIANTS NoCoinForgotten
PROPERTIES EveryCallSettles PartsSpec
CHECK_DEADLOCK FALSE
