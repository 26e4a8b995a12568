CONSTANTS
  Tasks = {t1, t2, t3, t4}
  MaxTasks = 2
  BuildTasks = {b1, b2, b3, b4}
  Txs = {x1, x2, x3, x4}
  o1 = o1
  o2 = o2
  o3 = o3
  Objects = {o1, o2, o3}
  Footprints <- MCFootprints
  Callers = {c1, c2, c3, c4}
  Updaters = {c1, c2, c3}
  NoLock = NoLock
  Settled = Settled
  Main = Main
  Thunks = {f1, f2}
  Builds = {d1, d2}
  None = None
  MaxCommands = 2
  Overlap = FALSE
  MaxLength = 4
  MaxBlock = 2
  MaxEdits = 1
SPECIFICATION MCSpec
INVARIANTS HeadRuns Exclusive AdmittedInTurn KeysAreLive NoDeadPromise InProgramOrder ArgumentsKeepTheirMeaning ReferencesKeepTheirMeaning
PROPERTIES ServiceSpec EveryCallReleases EveryBuildEnds
CHECK_DEADLOCK FALSE
