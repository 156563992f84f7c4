SPECIFICATION Spec
CONSTANTS
  t1 = t1  t2 = t2  a = a  b = b  s = s  u = u
  Txns = {t1, t2}
  Accounts = {a, b}
  Sets = {s, u}
  EC = {a, b, s, u}
  Targets <- OneEach
  Members <- McMembers
  InitSubsets <- NoSubsets
  Changes <- Joining
  Lockable = {}
  MaxBatch = 2
  MaxCrashes = 0
CHECK_DEADLOCK FALSE
INVARIANTS SetHoldsItsMembers
