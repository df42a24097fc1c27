CONSTANTS
  Keys = {1, 2, 3}
  Recorded = {1, 2, 3}
  m1 = m1  m2 = m2  w1 = w1  w2 = w2
  Members = {m1}
  Windows = {w1, w2}
  Owner <- SameLearner
  Span <- OverlapSpan
  Kind <- ShareKind
  Cap = 2
  StepLimit = 1
  Batches = {b1, b2}
  Users = {u1, u2}
  Posters = {p1, p2}
  None = None
  Faults = {}
SPECIFICATION Spec
SYMMETRY Symmetry
CHECK_DEADLOCK FALSE
INVARIANTS TypeOK ClaimedOnce OnlySanctionedCredits StaleIsRecoverable MonthlyCap
