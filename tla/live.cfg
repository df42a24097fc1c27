CONSTANTS
  Keys = {1, 2}
  Recorded = {1, 2}
  m1 = m1  m2 = m2  w1 = w1  w2 = w2
  Members = {m1, m2}
  Windows = {w1}
  Owner <- PairOwner
  Span <- PairSpan
  Kind <- SingleReading
  Cap = 5
  StepLimit = 1
  Batches = {b1}
  Users = {u1, u2}
  Posters = {p1, p2}
  None = None
  Faults = {"ERROR"}
SPECIFICATION FairSpec

CHECK_DEADLOCK FALSE

PROPERTIES PostingEnds
