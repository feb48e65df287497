SPECIFICATION FairSpec
CONSTANTS
    Schedules = {"none", "cron", "invalid"}
    Count = 1
    Duration = 1
    Period = 2
    Timeout = 2
    MaxVolumes = 2
    MaxEdits = 1
    MaxFaults = 1
    MaxCrashes = 1
INVARIANTS
    ReadyMeansReady
    RecordedOnce
PROPERTIES
    RetentionHasReason
    EntriesKept
    OneShotTaken
    DueIsTaken
