CONSTANTS
  r1 = r1
  r2 = r2
  t1 = t1
  t2 = t2
  x = x
  p = p
  q = q
  Resolvers = {r1, r2}
  Tasks = {t1, t2}
  Sets <- MCSets
  InitSets <- Parents
  Edges <- Chain
  InitEdges <- Upper
  Seeds <- One
  MaxEpoch = 2
  MaxErrors = 1
SPECIFICATION FairSpec
INVARIANTS
  TypeOK
  SnapshotIsCommitted
  FencedAnswerLasts
PROPERTIES
  Resolves
  CatchesUp
CHECK_DEADLOCK FALSE
