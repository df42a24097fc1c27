CONSTANTS
  Batches = {1}
  First = {1}
  Size <- OneDayOnly
  Clients = {c1}
  Runs = {r1, r2}
  None = None
  Faults = {"ERROR", "DIRECT"}
SPECIFICATION Served
CHECK_DEADLOCK FALSE
PROPERTY ConfirmedWorkIsDone
