SPECIFICATION Spec
CONSTANTS
    r1 = r1
    k1 = k1
    p1 = p1
    p2 = p2
    v1 = v1
    v2 = v2
    Registries = {r1}
    Releases = {v1, v2}
    Listing = {v1}
    Promising = {v1}
    Blocks <- MCBlocks
    Throwing = {v2}
    KeyIds = {k1}
    Versions = {"a", "b"}
    Policies <- MCPolicies
    Procs = {p1, p2}
    MaxCommands = 3
SYMMETRY Symmetric
INVARIANTS
    LockedIsOneRelease
    RequiredSignatureIsNeverWaived
    VerdictIsAboutLockedManifest
CHECK_DEADLOCK FALSE
