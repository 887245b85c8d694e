CONSTANTS
    Server = {s1, s2}
    Clerk = {c1, c2}
    c1 = c1  c2 = c2
    k = k    v1 = v1  v2 = v2
    Key = {k}
    NoCommand = NoCommand
    Script <- WriteRead
    MaxLog = 3
    MaxBuffer = 1
    MaxLeads = 2
    MaxFaults = 1
SPECIFICATION Spec
INVARIANTS SessionOrder ReplicasExact KInv
PROPERTY Linearizable
SYMMETRY Symmetry
CHECK_DEADLOCK FALSE
