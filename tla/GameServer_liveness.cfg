SPECIFICATION FairSpec
CONSTANTS
    IdleTimeout = 0
    MaxPatches = 2
    MaxFaults = 1
    MaxCrashes = 0
PROPERTIES
    StopTakesHold
    StartTakesHold
    DeletionCompletes
