CONSTANTS
  t1 = t1
  t2 = t2
  t3 = t3
  Threads = {t1, t2, t3}
  Slots = {1, 2, 3, 4}
  Shards <- TwoShards
  MaxSlots = 2
  Batch = 2
  MaxGen = 2
  W = 8
SYMMETRY Alike
SPECIFICATION Spec
INVARIANTS
  IInv
  CountExact
PROPERTIES
  NewestKept
