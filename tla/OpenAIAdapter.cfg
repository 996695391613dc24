SPECIFICATION AdapterSpec
CONSTANTS
    AdapterCalls <- MCCalls
    Weight <- MCWeight
    Json <- MCJson
    MaxResponse = 24
    BufferCap = 19
    EventCap = 9
INVARIANTS
    FragmentationIsInvisible
    ToolsAreDeclared
    ErrorKeepsCause
\* a call closes once
CHECK_DEADLOCK FALSE
