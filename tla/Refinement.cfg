SPECIFICATION MCSpec
CONSTANTS
  MaxParam = 3
  Layouts <- MCLayouts
  MaxIndices = 3
  MaxArity = 3
  A = A
  B = B
  C = C
  Callbacks <- MCCallbacks
  PolicyLists <- MCPolicyLists
  StorageLists <- MCStorageLists
  AutoPolicy = AutoPolicy
  RetainLatest = RetainLatest
  RetainAll = RetainAll
  NoJoin = NoJoin
INVARIANTS OnlyContainedRefine
CHECK_DEADLOCK FALSE
