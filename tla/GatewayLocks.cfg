SPECIFICATION GatewaySpec
CONSTANTS
  Threads = {t1, t2}
  k1 = k1  k2 = k2
  Keys = {k1, k2}
  Values = {v1}
  Barriers <- MCBarriers
  KeyLists <- MCKeyLists
  GateKeys <- MCGateKeys
  Half = 8
  MaxChanges = 3
  MaxSetKeys = 0
  MaxInjects = 8
  None = None
INVARIANTS EmitsOutsideLocks
CHECK_DEADLOCK FALSE
