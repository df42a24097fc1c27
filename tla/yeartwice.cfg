CONSTANTS
  m1 = m1  m2 = m2  s1 = s1  s2 = s2  s3 = s3  s4 = s4
  Members = {m1, m2}
  Sources = {s1, s2, s3, s4}
  Kind <- MixedKind
  Rows <- MixedRows
  Year <- FirstYear
  Cutoff <- OneCutoff
  Dates = {1}
  Ops = {o1}
  Batchers = {}
  Confirmers = {}
  None = None
SPECIFICATION Spec
SYMMETRY Symmetry
CHECK_DEADLOCK FALSE
INVARIANT YearAllocatedOnce
