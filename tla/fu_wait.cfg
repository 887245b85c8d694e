CONSTANTS
    Future = {f1, f2, f3}
    Temperature = {35, 36}
    n = 2
SPECIFICATION FairSpec
INVARIANTS WaitCorrect WInv
PROPERTIES ValuesHandedOver WaitReturns
CHECK_DEADLOCK FALSE
