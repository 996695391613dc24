SPECIFICATION FairSpec
CONSTANTS
    Fragments <- MCFragments
    MaxResponseBytes = 3
    Listeners = {l1, l2}
INVARIANT
    FinalizedIsQuiescent
PROPERTIES
    ListenersHeardOnce
    CredentialEventuallyDestroyed
    ImplementsGovernedCall
CHECK_DEADLOCK FALSE
