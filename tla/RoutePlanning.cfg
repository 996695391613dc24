SPECIFICATION RouteSpec
CONSTANTS
    NameOrder <- MCNameOrder
    Questions <- MCQuestions
INVARIANTS
    RoutesMeetRequirements
    ChainIsSpread
    UnknownIsNotBest
    PresetsReachTheirModels
\* a question is resolved once
CHECK_DEADLOCK FALSE
