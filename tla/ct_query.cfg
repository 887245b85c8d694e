CONSTANTS
    Server = {s1, s2}
    Clerk = {c1, c2}
    c1 = c1  c2 = c2
    None = None
    Script <- ChangesQuery
    MaxLog = 2
    MaxBuffer = 1
    MaxLeads = 2
    MaxTries = 2
    MaxCrashes = 1
SPECIFICATION Spec
INVARIANTS CInv ChangesOnce AckedChosen SameNumbers 
SYMMETRY Symmetry
CHECK_DEADLOCK FALSE
