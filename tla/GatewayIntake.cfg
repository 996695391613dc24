SPECIFICATION Spec
CONSTANTS
    q1 = q1
    q2 = q2
    Requests = {q1, q2}
    Configs <- MCConfigs
    BodyLimit = 1
    Chunks = 2
    MaxClears = 1
INVARIANTS
    OpenTraceIsActive
    TraceTellsAnswer
    BooksBalance
PROPERTY RequestsFinish
CHECK_DEADLOCK FALSE
