CONSTANTS
  Txs = {t1, t2}
  Objects = {o1}
  Footprints <- NoObjects
  Outside = {}
  NoLock = NoLock
  Settled = Settled
  MaxPoolSize = 2
  CoinBatchSize = 1
  OwnedCoins = 2
  SourceGiven = TRUE
  Faults = {"prepare", "fetch", "split", "abort", "confirm", "resolve", "sign", "reply", "price"}
SPECIFICATION FairSpec
INVARIANTS OnePlacePerCoin
PROPERTIES EveryCallSettles
CHECK_DEADLOCK FALSE
