SPECIFICATION FairRequestSpec
CONSTANTS
    Fragments <- MCFragments
    MaxResponseBytes = 3
    Listeners = {drain}
    DrainListener = drain
INVARIANTS
    SuccessIsReal
    TraceMatchesSession
    NothingLeftBehind
    OneKindOfAnswer
PROPERTY
    RequestFinishes
CHECK_DEADLOCK FALSE
