SPECIFICATION Spec
CONSTANTS
    NumServers = 3
    c1 = c1
    c2 = c2
    Command = {c1, c2}
    Elected <- OneRound
    MaxCrashes = 0
    MaxTimer = 0
    Ordered = TRUE
    Lossy = TRUE
SYMMETRY Symmetric
INVARIANTS Agreement
CHECK_DEADLOCK FALSE
