CONSTANTS
    NumServers = 5
    MaxN = 1
    MaxFaults = 0
    Down <- Hub
    Flaky = {}
    Timely = TRUE
SPECIFICATION FairSpec
INVARIANT NumbersSettle
PROPERTY LeaderEmerges
