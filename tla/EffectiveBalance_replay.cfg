CONSTANTS
  settled = settled
  pending = pending
  encumbrance = encumbrance
  p1 = p1
  p2 = p2
  Layers = {settled, pending, encumbrance}
  Days <- MCDays
  Posters = {p1, p2}
  Batches <- MCBatches
  MaxCalls = 3
  MaxTime = 3
  MaxDuration = 1
  Overlap = 1
SPECIFICATION Spec
SYMMETRY Symmetry
INVARIANTS
  TypeOK
  RowsReplay
  NeverPanics
  RangesAddUp
PROPERTIES
  PollerIsCurrent
CHECK_DEADLOCK FALSE
