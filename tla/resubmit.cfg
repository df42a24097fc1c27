SPECIFICATION Scenes
CONSTANTS
    mA = mA
    mB = mB
    gA = gA
    gB = gB
    c1 = c1
    c2 = c2
    None = None
    Members = {mA, mB}
    Groups = {gA, gB}
    Lists <- AnyOfTwo
    Meetings <- Three
    Changes = 3
    Clerks = {c1, c2}
    Faults = {"CRASH", "ERROR"}
SYMMETRY Symmetry
CHECK_DEADLOCK FALSE
INVARIANTS MeetingsSafe CreditsAreReviewed SettledInFull
