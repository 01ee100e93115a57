SPECIFICATION Spec
CONSTANTS
  Threads = {t1, t2}
  Barriers = {b1}
  k1 = k1
  k2 = k2
  v1 = v1
  v2 = v2
  Keys = {k1, k2}
  Values = {v1}
  KeyLists <- MCKeyLists
  MaxChanges = 3
  MaxSetKeys = 0
  None = None
PROPERTIES
  FiresOncePerState
CHECK_DEADLOCK FALSE
