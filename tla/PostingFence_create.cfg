CONSTANTS
  p1 = p1
  p2 = p2
  o1 = o1
  o2 = o2
  a1 = a1
  a2 = a2
  e1 = e1
  n1 = n1
  s1 = s1
  s2 = s2
  s3 = s3
  Posters = {p1, p2}
  Ops = {o1}
  Accounts <- CreateAccounts
  Sets <- CreateSets
  EC <- CreateEC
  Rank <- MCRank
  Live <- CreateLive
  Batches <- CreateBatches
  Plans <- CreatePlans
  InitMembers <- CreateMembers
  InitSubsets <- CreateSubsets
  TemplateMoves = TRUE
  AwaitCreate = TRUE
SPECIFICATION FairSpec
INVARIANTS
  TypeOK
  InlineBalancesExact
  LockBeforeRead
  GuardStillEmpty
  DeadlockNeedsReprepare
PROPERTIES
  Terminates
CHECK_DEADLOCK FALSE
