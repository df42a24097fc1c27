CONSTANTS
  Batches = {1, 2}
  First = {1}
  Size <- OneDay
  Clients = {c1}
  Runs = {r1, r2}
  None = None
  Faults = {"SLOW", "LOSS", "PAUSE", "PREVIEW", "DIRECT", "CRASH", "ERROR"}
SPECIFICATION Scenes
SYMMETRY Symmetry
CHECK_DEADLOCK FALSE
INVARIANT JobsSafe
PROPERTY StartsByConfirmation
