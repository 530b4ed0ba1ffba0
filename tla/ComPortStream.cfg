SPECIFICATION Spec
CONSTANTS
    MaxPreNull = 1
    MaxReads = 6
    Inputs <- MCInputs
    Sizes <- MCSizes
INVARIANTS
    RxTypeOK
    SuccessDeliversMessage
    OverlongIsReported
CHECK_DEADLOCK FALSE
