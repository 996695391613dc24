SPECIFICATION Spec
CONSTANTS
    Width4 = 3
    Width6 = 8
    Records4 <- MCRecords4
    Records6 <- MCRecords6
    MappedPrefix = 0
    Nat64Prefix = 2
    RecordSets <- MCRecordSets
    Urls <- MCUrls
    Spellings <- MCSpellings
    Addresses <- MCAddresses
    Words <- MCWords
    Padded <- MCPadded
    Quads <- MCQuads
    Dotted <- MCDotted
    MaxRecords = 3
    MaxTtl = 2
    MaxPasses = 3
INVARIANTS
    ApprovedIsWhole
    CarriedIsAllowed
    AcceptedPathIsPlain
    AddressesAreUnderstood
CHECK_DEADLOCK FALSE
