SPECIFICATION FairSpec
INVARIANT VerdictFollowsSignal
PROPERTIES RequestFinishes ImplementsGovernedCall
\* a finished request has no step left
CHECK_DEADLOCK FALSE
