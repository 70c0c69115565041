CONSTANTS
  c1 = c1
  c2 = c2
  s1 = s1
  s2 = s2
  NoCaller = NoCaller
  NoSub = NoSub
  NoRequest = NoRequest
  Callers = {c1, c2}
  Subs = {s1, s2}
  MaxUpdates = 2
SPECIFICATION FairSpec
INVARIANTS
  IInv
  SingleUnlessRaced
  Stoppable
  UpdatesSettle
PROPERTIES
  StopIsFinal
  EveryCallReturns
