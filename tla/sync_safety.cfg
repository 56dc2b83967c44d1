SPECIFICATION Spec
CONSTANTS
  Token = {t1, t2}
  NoToken = NoToken
  Dispatcher = {d1, d2}
  Worker = {w1, w2}
  MaxRuns = 2
  TimeLimit = 1
  LockTtl = 3
  StaleAfter = 4
  Backlog = TRUE
  MaxFaults = 3
SYMMETRY MCSymmetry
INVARIANTS TypeOK MutualExclusion LiveImportNeverLooksStale
PROPERTIES CreatedOnlyWhenIdle ImplementsSingleWriter
