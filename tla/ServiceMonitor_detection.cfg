SPECIFICATION FairSpec
\* Readable as in the operator that is shipped.
CONSTANTS
    Servers = {g1, g2}
    Readable = FALSE
    CacheTicks = 2
    MaxInstalls = 2
    MaxEdits = 2
    MaxFaults = 1
PROPERTIES
    MonitorsCreated
