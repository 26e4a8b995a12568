SPECIFICATION Spec
CONSTANTS
  Txs = {t1, t2, t3}
  Objects = {x1}
  Coins = {c1, c2}
  Footprints = {{x1}}
  App = {}
  MaxOutside = 0
  Fates = {"frozen"}
  Faults = {}
INVARIANTS NeverStale
CHECK_DEADLOCK FALSE
