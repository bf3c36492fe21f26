SPECIFICATION FairSpec
CONSTANTS
    Files <- ShortPeriods
    DefaultPeriod = 2
    MaxPeriod = 2
    MaxEvents = 0
    MaxFaults = 0
    MaxEdits = 1
PROPERTY WatchedForever
