SPECIFICATION Spec
CONSTANTS
    Execs <- MCExecs
    Specs <- MCRunSpecs
    Declared <- MCDeclared
    Concurrency <- MCConcurrency
    Required <- MCRequired
    SuccessTTL = 0
    FailedTTL = 0
    MaxEdits = 0
    MaxFaults = 1
    MaxCrashes = 1
    MaxResyncs = 0
INVARIANTS
    AdmittedAlone
\* Once every key has been used and its object deleted, nothing is left to do.
CHECK_DEADLOCK FALSE
