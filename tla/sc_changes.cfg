CONSTANTS
    NShards = 7
    GID = {1, 2, 3, 4}
    MaxConfigs = 6
    MaxMoves = 2
SPECIFICATION Spec
INVARIANTS Balanced OwnersLive
PROPERTIES FewestMoves OneWay
CHECK_DEADLOCK FALSE
