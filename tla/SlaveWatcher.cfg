SPECIFICATION FairSpec
CONSTANTS
    Files <- SmallFiles
    DefaultPeriod = 2
    MaxPeriod = 2
    MaxEvents = 2
    MaxFaults = 1
    MaxEdits = 1
INVARIANTS OnlyFailedSkipped SettingsCurrent
PROPERTIES CheckComes SlaveRestarted StopEnds
