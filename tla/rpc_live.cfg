CONSTANTS
    Call = {k1, k2}
    End = {e1}
    Stuck = {k2}
    MaxStarts = 2
    MaxChanges = 2
SPECIFICATION FairSpec
INVARIANTS AcksSaved RInv
PROPERTY CallReturns
CHECK_DEADLOCK FALSE
