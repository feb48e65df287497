SPECIFICATION FairSpec
CONSTANTS
    Execs <- MCOneExec
    Specs <- MCSpecs
    Declared <- MCDeclared
    Concurrency <- MCConcurrency
    Required <- MCRequired
    SuccessTTL = 0
    FailedTTL = 1
    MaxEdits = 2
    MaxFaults = 1
    MaxCrashes = 1
    MaxResyncs = 1
INVARIANTS
    DispatchedOnce
    CountedOnce
    OrphanHasCause
    CleanupOnlyExpired
PROPERTIES
    ImplementsLifecycle
    EventuallySettled
    EventuallyCollected
\* Once every key has been used and its object deleted, nothing is left to do.
CHECK_DEADLOCK FALSE
