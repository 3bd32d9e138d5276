SPECIFICATION Spec
CONSTANTS
    Threads = {t1, t2}
    MaxBlocks = 6
    CIntLimit = 4
    GoIntLimit = 16
    RequestLens <- MCRequestLens
    AnswerLens <- MCAnswerLens
INVARIANT BuffersOwned
PROPERTY ShutdownIsNotBlocked
CHECK_DEADLOCK FALSE
