SPECIFICATION FairSpec
CONSTANTS
  Threads = {t1, t2}
  Barriers = {b1}
  k1 = k1  k2 = k2  v1 = v1  v2 = v2
  Keys = {k1, k2}
  Values = {v1, v2}
  KeyLists <- MCKeyLists
  MaxChanges = 4
  MaxSetKeys = 1
  None = None
INVARIANTS TypeOK NoLostChange RetiredInjectorIdle
PROPERTIES SpanStable EventuallyInSync EveryCallReturns
CHECK_DEADLOCK FALSE
