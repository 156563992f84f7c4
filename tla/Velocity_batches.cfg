CONSTANTS
  p1 = p1
  p2 = p2
  o1 = o1
  o2 = o2
  x = x
  y = y
  s = s
  c = c
  l = l
  m = m
  w1 = w1
  w2 = w2
  none = none
  Posters = {p1, p2}
  Attachers = {o1, o2}
  Accounts = {x, y}
  Sets = {s}
  Controls = {c}
  Limits = {l, m}
  Windows = {w1, w2}
  NoWindow = none
  Times = {1, 2}
  SetsOf <- MCSetsOf
  Kinds <- MCKinds
  Condition <- MCCondition
  WindowOf <- MCWindowOf
  Ranges <- MCRanges
  Rank <- MCRank
  Batches <- MCBatches
  Attachments <- MCAttachments
  InitLimits <- MCInitLimits
  InitAttached <- MCInitAttached
SPECIFICATION Spec
SYMMETRY Interchangeable
INVARIANTS
  TypeOK
  VelocityExact
  LimitHolds
  BalancesStayFresh
  BatchIsSequential
  NeverDeadlocks
CHECK_DEADLOCK FALSE
