SPECIFICATION Spec
CONSTANTS
    NumServers = 3
    c1 = c1
    c2 = c2
    Command = {c1}
    Elected <- TwoRounds
    MaxCrashes = 0
    MaxTimer = 0
    Ordered = FALSE
    Lossy = FALSE
INVARIANTS LeaderFenced IInv
PROPERTIES RoundsNeverRegress 
CHECK_DEADLOCK FALSE
