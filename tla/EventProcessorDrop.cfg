CONSTANTS
  s1 = s1
  s2 = s2
  NoMsg = NoMsg
  Subs = {s1, s2}
  MaxMsgs = 2
  Strategy = "Drop"
  Permits = 1
  W = 8
  Poison <- PoisonSecond
SPECIFICATION FairSpec
INVARIANTS
  IInv
  ExactlyOnePlace
PROPERTIES
  ImplementsContract
  DropOnlyUnderLoad
CHECK_DEADLOCK FALSE
