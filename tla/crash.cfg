CONSTANTS
  Keys = {1, 2}
  Recorded = {1}
  m1 = m1  m2 = m2  reading = reading  session = session
  Members = {m1, m2}
  Windows = {reading, session}
  Owner <- PairOwner
  Span <- PairSpan
  Kind <- PairKind
  Cap = 5
  StepLimit = 1
  Batches = {b1, b2}
  Users = {u1, u2}
  Posters = {p1, p2}
  None = None
  Faults = {"CRASH", "ERROR", "CONTEXT", "REVERSAL"}
SPECIFICATION Spec
ACTION_CONSTRAINT Scenes
SYMMETRY Symmetry
CHECK_DEADLOCK FALSE
INVARIANTS TotalsAgree CreditedOnce
PROPERTIES AppendsOnlyWhilePosting PostedIsForGood KeepsTheLedgersPromise
