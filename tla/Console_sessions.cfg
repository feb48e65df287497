SPECIFICATION FairSpec
CONSTANTS
    Streams = {s1}
    Calls = {c1}
    MaxSent = 3
    MaxFeed = 2
INVARIANTS
    OutputReachesClient
    CommandsInOrder
PROPERTIES
    SessionWindsUp
    ShutdownEndsConsoles
\* Once the session is wound up and the agent has stopped, nothing is left to do.
CHECK_DEADLOCK FALSE
