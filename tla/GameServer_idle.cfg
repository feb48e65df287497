SPECIFICATION FairSpec
CONSTANTS
    IdleTimeout = 1
    MaxPatches = 0
    MaxFaults = 0
    MaxCrashes = 0
PROPERTIES
    IdleTakesHold
