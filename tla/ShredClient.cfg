CONSTANTS
  c1 = c1
  c2 = c2
  c3 = c3
  s1 = s1
  s2 = s2
  NoSub = NoSub
  Callers = {c1, c2, c3}
  Subs = {s1, s2}
  Permits = 1
  MaxMsgs = 2
SPECIFICATION FairSpec
INVARIANTS
  IInv
  OneWithinReach
PROPERTIES
  StoppedFallsSilent
CHECK_DEADLOCK FALSE
