CONSTANTS
    c1 = c1
    Group = {1, 2}
    Replicas <- One
    Shard = {1}
    Config <- Forth
    Clerk = {c1}
    Script <- AppendThenRead
    None = None
    Paced = TRUE
    MaxLog <- FourAndThree
    MaxFaults = 1
SPECIFICATION Spec
INVARIANTS OneOwner AckedKept AppendedOnce GetsFresh
CHECK_DEADLOCK FALSE
