SPECIFICATION Spec
CONSTANTS
    MaxPreNull = 1
    MaxReads = 6
    Inputs <- MCInputs
    Sizes <- MCSizes
INVARIANT
    OnlyContentIsDelivered
CHECK_DEADLOCK FALSE
