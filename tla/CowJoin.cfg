SPECIFICATION CowSpec
CONSTANTS
  t1 = t1  t2 = t2  v1 = v1  v2 = v2
  Half = 4  N = 2  Start = 5  MaxAdds = 3
  Kind0 = "all"  Kind1 = "by_key_cow"  Dying0 = {v2}
  Threads <- MCThreads
  Values <- MCValues
  KeyOf <- MCOneKey
  Policy <- MCPolicy
  Mortal <- MCMortal
  Shrinking = {0, 1}
  Addresses = {a1, a2, a3, a4}
  Null = Null
SYMMETRY MCSymmetry
INVARIANTS SettledEmitted NoStaleMember OncePerValues MapIsStore HeldIntact
CHECK_DEADLOCK FALSE
