SPECIFICATION SyncSpec
CONSTANTS
  None = None
  Tasks = 1  Slots = {s1, s2}  Attempts = 1  Polls = 1  Retries = 1  Reports = {"full", "partial"}
CHECK_DEADLOCK FALSE
INVARIANTS SavedIsSubmitted
