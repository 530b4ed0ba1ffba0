SPECIFICATION Spec
CONSTANTS
    Domains = {DBG, SYS}
    MaxDAPPWRACKPolls = 2
    Handles = {h1}
    NoSession = NoSession
    Inputs <- MCInputs
INVARIANTS
    TypeOK
    Nested
    ReleasedOnExit
    HeldAndPowered
    SystemRuns
PROPERTIES
    OpenMeansAccepted
    ResetAfterPowerDown
    SuccessMeansAccessed
    CredentialsEntered
    Exits
CHECK_DEADLOCK FALSE
