SPECIFICATION Spec
CONSTANTS
    Routes <- MCRoutes
    Plans <- MCPlans
    Policies <- MCPolicies
    RetryAfters = {0, 3}
    MaxOutcomes = 5
    MaxPlanned = 8
INVARIANTS
    CircuitIsHonest
    GivesUpHonestly
\* a finished simulation has no step left
CHECK_DEADLOCK FALSE
