SPECIFICATION PartsSpec
CONSTANTS
  MaxParam = 4
  Layouts <- MCLayouts
  MaxIndices = 3
  MaxArity = 3
  A = A
  B = B
  C = C
  Callbacks <- MCCallbacks
  PolicyLists <- MCPolicyLists
  StorageLists <- MCStorageLists
  AutoPolicy = AutoPolicy
  RetainLatest = RetainLatest
  RetainAll = RetainAll
  NoJoin = NoJoin
  Threads = {t1, t2, t3, t4}
  Users = {u1, u2, u3, u4}
  WriterBit = 8
  MaxSpurious = 2
  Nobody = Nobody
INVARIANTS ViewsCompose CallsInPlace RefinementIsContained JoinAsAsked CallbackFits Exclusion RwExclusion
PROPERTIES ImplementsMutex SomeoneGetsIn ImplementsRwLock WriterGetsIn SomeUserGetsIn
