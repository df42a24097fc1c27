SPECIFICATION Scenes
CONSTANTS
    mA = mA
    mB = mB
    gA = gA
    gB = gB
    c1 = c1
    c2 = c2
    None = None
    Members = {mA}
    Groups = {gA}
    Lists <- WithOrWithout
    Meetings <- Two
    Changes = 2
    Clerks = {c1}
    Faults = {}
CHECK_DEADLOCK FALSE
INVARIANT OneCurrentVersion
