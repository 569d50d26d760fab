\* More tasks wait than one transaction takes.
SPECIFICATION FairSpec
CONSTANTS
    Tasks <- TwoTasks
    Executors <- OneExecutor
    Users <- NoUsers
    Limit = 1
    BusCap = 1
    ResponseCap = 1
    Faults = FALSE
    MayCrash = FALSE
    MaxUserMsgs = 0
    MaxFlips = 1
    MaxAnswers = 0
PROPERTY ReconnectServes
CHECK_DEADLOCK FALSE
