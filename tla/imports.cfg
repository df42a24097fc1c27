CONSTANTS
  m1 = m1  m2 = m2  s1 = s1  s2 = s2  s3 = s3  s4 = s4
  Members = {m1, m2}
  Sources = {s1, s2, s3, s4}
  Kind <- MixedKind
  Rows <- MixedRows
  Year <- FirstYear
  Cutoff <- OneCutoff
  Dates = {1}
  Ops = {o1, o2}
  Batchers = {w1}
  Confirmers = {w2}
  None = None
  c1 = c1  c2 = c2  k1 = k1  k2 = k2  g1 = g1  g2 = g2  p1 = p1  p2 = p2  b1 = b1  b2 = b2
  Centers = {c1, c2}  Classes = {k1, k2}  Groups = {g1, g2}  ClassOf <- TwoGroups  Standing = {k1, k2, g1}
  Students = {p1, p2}  PostIds = {1}  Merging = TRUE
  r1 = r1  r2 = r2  x1 = x1  x2 = x2  u1 = u1  u2 = u2
  SourceRows = {r1, r2}  Cells = {x1, x2}  RowOf <- RowEach  TotalMissing = {r2}
  Persons = {p1, p2}  NamedIn <- Names  Snapshots = {"roster"}  Staff = {u1, u2}  Posters = {b1}
  Attendees = {p1, p2}  RosterCalls = {b1, b2}
SPECIFICATION Scenes
SYMMETRY Symmetry
CHECK_DEADLOCK FALSE
INVARIANTS ImportsSafe TotalsStated BatchEntriesAreLater RelationsSafe RosterSafe HistorySafe
PROPERTIES CancelledOpeningStays RosterKept
