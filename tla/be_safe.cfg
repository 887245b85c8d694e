CONSTANTS
    NumServers = 3
    MaxN = 1
    MaxFaults = 2
    Down <- Apart
    Flaky <- OneLink
    Timely = FALSE
SPECIFICATION Spec
INVARIANTS LeaderFollowsItself EInv
PROPERTIES ElectsOffered RoundsFresh
CHECK_DEADLOCK FALSE
