SPECIFICATION MCFairSpec
CONSTANTS
  Threads = {t1, t2}
  Subscribers = {s1, s2}
  Addresses = {a1, a2, a3}
  Keys = {1, 2, 3}
  Values = {v1, v2}
  MaxFires = 3  MaxChanges = 2
  SharedKeys = {1, 2}  SharedValue = v1  Alone = t1
  None = None
INVARIANTS TypeOK NobodyLost DroppedStaysOut EveryoneCalled StoreIsMap NobodyMissesAChange
PROPERTIES Notifies EveryFireReturns
CHECK_DEADLOCK FALSE
