SPECIFICATION Spec
CONSTANTS
  t1 = t1  t2 = t2  a = a  b = b  s = s  u = u
  Txns = {t1, t2}
  Accounts = {a, b}
  Sets = {s, u}
  EC = {a, b, s, u}
  Targets <- McTargets
  Members <- McMembers
  InitSubsets <- Nested
  Changes <- NoChanges
  Lockable = {}
  MaxBatch = 2
  MaxCrashes = 1
CHECK_DEADLOCK FALSE
INVARIANTS TypeOK FoldedToCheckpoint FenceCovers SetHoldsItsMembers
PROPERTIES AppliesExactly
