SPECIFICATION APISpec
CONSTANTS
    Requests = {r1, r2, r3}
    MaxServers = 1
    MaxFaults = 1
    Tenant = "alpha"
    Other = "beta"
    Modes <- MCModes
    Enabled = {"oidc", "apikey", "basic"}
    BasicRole = "admin"
    ClaimedRole = "operator"
    Ops <- MCOps
    KeyWishes <- MCKeyWishes
    KeyNames = {k1, k2}
    MaxKeys = 2
    MaxTime = 2
    MaxWrites = 1
    MaxScopings = 1
SYMMETRY MCSymmetry
INVARIANTS
    FinderHardens
    WithinRights
    NoLostUpdate
PROPERTIES
    AcceptedWhileAlive
CHECK_DEADLOCK FALSE
