SPECIFICATION FairSpec
CONSTANTS
    Override = FALSE
    MaxFaults = 4
    MaxForgets = 2
    MaxRestarts = 1
INVARIANTS
    RegistersHaveCause
PROPERTIES
    StaysKnown
    StopsWhenTold
\* A registrar that was told to stop may stay stopped.
CHECK_DEADLOCK FALSE
