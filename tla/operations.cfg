SPECIFICATION Scenes
CONSTANTS
  None = None
  s1 = s1  s2 = s2  r0 = r0
  Revisions = {r0, r1, r2}  FirstStable = r0
  Centers = 1  Tries = 2  Workers = {w1, w2}  ByHand = 1  Events = 1  Faults = 1
  Tasks = 2  Slots <- TwoSlots  Attempts = 1  Polls = 1  Retries = 1  Reports = {"empty", "full", "partial"}
  e1 = e1  e2 = e2  h1 = h1  h2 = h2
  Envelopes = {e1, e2}  Candidates = {c1, c2}  Handles = {h1, h2}  Grants <- SharedGrants  Grantees = {s1, s2}
  Pupils = {e1, e2}  NameOf <- Namesakes  AccountsOf <- Accounts  Rooms = {h1, h2}  TypeOf <- TwoTypes  RoomOf <- Written
  Workbook <- ThreeBooks  Placements <- ThreeHomes  ReadingCalls = {s1, s2}
CHECK_DEADLOCK FALSE
INVARIANTS ReleasesSafe SyncSafe ReadingsSafe FactsAreBound
PROPERTIES ReportsSafe ReportsSettle
