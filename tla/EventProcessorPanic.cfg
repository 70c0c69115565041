CONSTANTS
  s1 = s1
  s2 = s2
  NoMsg = NoMsg
  Subs = {s1}
  MaxMsgs = 2
  Strategy = "Block"
  Permits = 1
  W = 8
  Poison <- PoisonFirst
SPECIFICATION FairSpec
PROPERTIES
  BlockLosesNothing
CHECK_DEADLOCK FALSE
