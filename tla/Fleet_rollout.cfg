SPECIFICATION FairSpec
CONSTANTS
    MaxReplicas = 2
    Sizes = {1, 2}
    Strategies = {"RollingUpdate"}
    MaxUnavailable = 2
    MaxEdits = 1
    MaxTroubles = 1
    MaxSeconds = 0
INVARIANTS
    NeverMoreThanAsked
PROPERTIES
    DeletionCompletes
    ScaleCompletes
    StatusSettles
    SmallUpdateCompletes
\* Once everything asked for is done and collected, nothing is left to do.
CHECK_DEADLOCK FALSE
