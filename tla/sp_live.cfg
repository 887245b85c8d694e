SPECIFICATION FairSpec
CONSTANTS
    NumServers = 3
    c1 = c1
    c2 = c2
    Command = {c1}
    Elected <- OneRound
    MaxCrashes = 0
    MaxTimer = 1
    Ordered = TRUE
    Lossy = FALSE
PROPERTIES ProposalsDecided
CHECK_DEADLOCK FALSE
