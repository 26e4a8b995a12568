SPECIFICATION Spec
CONSTANTS
  Txs = {t1, t2, t3}
  Objects = {x1, x2}
  Coins = {c1, c2}
  Footprints = {{x1}, {x1, x2}}
  App = {"apply"}
  MaxOutside = 1
  Fates = {"other", "gone"}
  Faults = {"resolve", "send"}
INVARIANTS NeverStale GasIsUsable
PROPERTIES QueueSpec
CHECK_DEADLOCK FALSE
