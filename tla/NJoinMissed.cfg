SPECIFICATION Spec
CONSTANTS
  t1 = t1  t2 = t2  t3 = t3  v1 = v1  v2 = v2
  Half = 4  N = 2  Start = 0  MaxAdds = 2
  Kind0 = "all"  Kind1 = "all"  Dying0 = {}
  Threads <- MCThreads
  Values <- MCValues
  KeyOf <- MCOwnKey
  Policy <- MCPolicy
  Mortal <- MCMortal
  Shrinking = {}
INVARIANTS NoMissedTuple
CHECK_DEADLOCK FALSE
