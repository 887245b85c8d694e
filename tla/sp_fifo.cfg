SPECIFICATION Spec
CONSTANTS
    NumServers = 3
    c1 = c1
    c2 = c2
    Command = {c1, c2}
    Elected <- OneRound
    MaxCrashes = 1
    MaxTimer = 0
    Ordered = TRUE
    Lossy = FALSE
SYMMETRY Symmetric
INVARIANTS PromisesKept Agreement FollowersHoldPrefix 
PROPERTIES FreshRounds
CHECK_DEADLOCK FALSE
