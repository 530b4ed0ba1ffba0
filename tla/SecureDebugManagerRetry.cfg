SPECIFICATION Spec
CONSTANTS
    Addresses = {a1, a2}
    NoObject = NoObject
    MaxAttempts = 2
    MaxOutside = 0
    MaxOpens = 1
    MaxRestarts = 1
    Chain <- MCChain
    Configs <- MCConfigs
SYMMETRY MCSymmetry
PROPERTY
    OpenForDebug
