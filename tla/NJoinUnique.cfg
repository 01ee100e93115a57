SPECIFICATION MCSpec
CONSTANTS
  t1 = t1  t2 = t2  t3 = t3  v1 = v1  v2 = v2
  Half = 4  N = 3  Start = 6  MaxAdds = 4
  Kind0 = "all"  Kind1 = "all_cow"  Dying0 = {}
  Threads <- MCThreads
  Values <- MCValues
  KeyOf <- MCOwnKey
  Policy <- MCPolicy
  Mortal <- MCMortal
  Shrinking = {2}
SYMMETRY MCSymmetry
INVARIANTS TypeOK OwnerIsNewest SettledEmitted OncePerValues
PROPERTIES AtMostOnce Implements
CHECK_DEADLOCK FALSE
