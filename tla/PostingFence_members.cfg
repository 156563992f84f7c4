CONSTANTS
  p1 = p1
  p2 = p2
  o1 = o1
  o2 = o2
  a1 = a1
  a2 = a2
  e1 = e1
  n1 = n1
  s1 = s1
  s2 = s2
  s3 = s3
  Posters = {p1, p2}
  Ops = {o1, o2}
  Accounts <- MemberAccounts
  Sets <- MemberSets
  EC <- MemberEC
  Rank <- MCRank
  Live <- MemberAccounts
  Batches <- MemberBatches
  Plans <- MemberPlans
  InitMembers <- MemberMembers
  InitSubsets <- MemberSubsets
  TemplateMoves = FALSE
  AwaitCreate = TRUE
SPECIFICATION Spec
SYMMETRY Interchangeable
INVARIANTS
  VersionsDense
  ReadsStayFresh
  GraphStaysValid
PROPERTIES
  MembershipFrozen
CHECK_DEADLOCK FALSE
