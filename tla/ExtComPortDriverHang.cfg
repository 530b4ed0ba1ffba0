SPECIFICATION AllFairSpec
CONSTANTS
    MaxRetries = 1
    MaxPreNull = 1
    RemoteResets = {"NONE", "SYSTEM", "COM"}
    TxModes = {TRUE, FALSE}
    IdLength = 2
    RxLengths = {1}
    TxDepth = 2
    RxDepth = 2
    MaxCalls = 2
    MaxRestarts = 0
    Messages <- MCMessages
    Identification <- MCIdentification
    Response <- MCResponse
PROPERTIES
    CallsReturn
