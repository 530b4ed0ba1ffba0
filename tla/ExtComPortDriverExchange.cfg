SPECIFICATION Spec
CONSTANTS
    MaxRetries = 1
    MaxPreNull = 1
    RemoteResets = {"NONE"}
    TxModes = {FALSE}
    IdLength = 2
    RxLengths = {1}
    TxDepth = 2
    RxDepth = 2
    MaxCalls = 5
    MaxRestarts = 1
    Messages <- MCMessages
    Identification <- MCIdentification
    Response <- MCResponse
PROPERTY
    RxDeliversReply
    ImplementsLink
