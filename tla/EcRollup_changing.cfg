SPECIFICATION FairSpec
CONSTANTS
  t1 = t1  t2 = t2  a = a  b = b  s = s  u = u
  Txns = {t1, t2}
  Accounts = {a, b}
  Sets = {s, u}
  EC = {a, b, s, u}
  Targets <- OneEach
  Members <- McMembers
  InitSubsets <- NoSubsets
  Changes <- Joining
  Lockable = {s}
  MaxBatch = 2
  MaxCrashes = 1
CHECK_DEADLOCK FALSE
INVARIANTS NeverTwice
PROPERTIES CatchesUp
