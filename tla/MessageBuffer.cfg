SPECIFICATION Spec
CONSTANTS
    BufferWords = 6
    ChallengeWords = 2
    Parts = {0, 2, 4, 5}
    SUCCESS = 0
    NEED_MORE_DATA = 2
    FAILURE = 1
    AUTH_RESPONSE = 3
    MaxMessages = 8
INVARIANTS
    TypeOK
PROPERTIES
    StatusIsOfResponse
    ChallengeIsOfResponse
CHECK_DEADLOCK FALSE
