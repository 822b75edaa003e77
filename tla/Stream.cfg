CONSTANTS
    Request <- MCRequests
    DIGEST_LEN = 1
    MIN_USERNAME_LEN = 1
    MAX_USERNAME_LEN = 2
    Level = {0, 2}
    Contact <- MCContacts
    MaxCalls = 3
SPECIFICATION FairSpec
INVARIANTS
    TypeOK
    Framed
    AnswersMatch
    MalformedOnlyIfSplit
    LevelsAgree

    
CHECK_DEADLOCK FALSE
