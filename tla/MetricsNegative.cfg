CONSTANTS
  t1 = t1
  t2 = t2
  tx = tx
  account = account
  Threads = {t1, t2}
  Kinds = {tx, account}
  Window = 2
  MaxTime = 4
  MaxRecords = 2
  Durations = {1, 2, 4}
  Infinity = 3
  Stale = 1
  MaxUpdates = 3
SYMMETRY Symmetry
SPECIFICATION MCSpec
INVARIANTS
  NoTimeBeyond
CHECK_DEADLOCK FALSE
