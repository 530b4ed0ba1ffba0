SPECIFICATION Spec
CONSTANTS
    Addresses = {a1, a2}
    NoObject = NoObject
    MaxAttempts = 2
    MaxOutside = 1
    MaxOpens = 2
    MaxRestarts = 1
    Chain <- MCChain
    Configs <- MCConfigs
SYMMETRY MCSymmetry
INVARIANTS
    TypeOK
    OneInFlight
    ChainPrecedesToken
    SessionHasHandle
PROPERTIES
    SuccessMeansAccepted
    ImplementsSession
