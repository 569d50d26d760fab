\* Saves that race each other and the reports, keys that expire, a fault.
SPECIFICATION MCSpec
CONSTANTS
    s1 = s1
    s2 = s2
    Scenes = {s1, s2}
    MaxSaves = 2
    MaxEvents = 3
    MaxBusy = 2
    Missing = Missing
    NoTask = NoTask
INVARIANT TypeOK
PROPERTY StaleExpires
PROPERTY EnabledIsListed
CHECK_DEADLOCK FALSE
