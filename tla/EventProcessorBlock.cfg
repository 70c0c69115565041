CONSTANTS
  s1 = s1
  s2 = s2
  NoMsg = NoMsg
  Subs = {s1, s2}
  MaxMsgs = 2
  Strategy = "Block"
  Permits = 1
  W = 8
  Poison <- PoisonSecond
SPECIFICATION FairSpec
INVARIANTS
  ExactlyOnePlace
  PendingAccurate
  BacklogBounded
  StreamOrderKept
PROPERTIES
  ImplementsContract
  EverythingSettles
CHECK_DEADLOCK FALSE
