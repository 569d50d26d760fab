\* A scene saved as disabled is switched on.
SPECIFICATION MCSpec
CONSTANTS
    s1 = s1
    s2 = s2
    Scenes = {s1, s2}
    MaxSaves = 1
    MaxEvents = 2
    MaxBusy = 2
    Missing = Missing
    NoTask = NoTask
PROPERTY SwitchedOnIsListed
CHECK_DEADLOCK FALSE
