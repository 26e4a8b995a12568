SPECIFICATION FairSpec
CONSTANTS
  Txs = {t1, t2, t3}
  Objects = {x1}
  Coins = {c1, c2}
  Footprints = {{x1}}
  App = {"reset", "wait"}
  MaxOutside = 0
  Fates = {"other", "gone", "gasToOther"}
  Faults = {"resolve", "send", "reply", "wait"}
INVARIANTS CacheIsCurrent
PROPERTIES EveryCallSettles
CHECK_DEADLOCK FALSE
