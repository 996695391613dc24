SPECIFICATION Spec
CONSTANTS
    Configs <- MCConfigs
    Edits <- MCEdits
    Transports <- MCTransports
    Environments <- MCEnvironments
    Keys = {"k", "mock", "proto", "other"}
    UnsafeNames = {"proto"}
    MockKeys = {"mock"}
    Sizes = {100, 101}
    Calls = {1}
    MaxChanges = 1
    MaxStarts = 2
INVARIANT AcceptedIsListed
PROPERTY AuthorizationIsExact
CHECK_DEADLOCK FALSE
