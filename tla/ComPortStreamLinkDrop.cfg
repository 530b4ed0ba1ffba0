SPECIFICATION Spec
CONSTANTS
    MaxPreNull = 1
    MaxReads = 6
    Inputs <- MCInputs
    Sizes <- MCSizes
INVARIANT
    LinkDropIsReported
CHECK_DEADLOCK FALSE
