SPECIFICATION FairServerSpec
CONSTANTS
    MaxStarts = 3
    Clients = {c1, c2}
INVARIANT
    StateIsTruthful
PROPERTY
    StopReturns
CHECK_DEADLOCK FALSE
