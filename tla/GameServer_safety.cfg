SPECIFICATION Spec
CONSTANTS
    IdleTimeout = 1
    MaxPatches = 1
    MaxFaults = 1
    MaxCrashes = 1
INVARIANTS
    NothingLeftBehind
PROPERTIES
    ChildrenKept
    IdleRespectsActivity
