SPECIFICATION FairSpec
CONSTANTS
    Schedules = {"cron"}
    Count = 0
    Duration = 0
    Period = 2
    Timeout = 1
    MaxVolumes = 2
    MaxEdits = 0
    MaxFaults = 0
    MaxCrashes = 0
PROPERTIES
    ScheduleStarts
