\* A quick reconnect finds the row still locked.
SPECIFICATION FairSpec
CONSTANTS
    Tasks <- OneTask
    Executors <- TwoExecutors
    Users <- NoUsers
    Limit = 1
    BusCap = 1
    ResponseCap = 1
    Faults = FALSE
    MayCrash = FALSE
    MaxUserMsgs = 0
    MaxFlips = 3
    MaxAnswers = 0
PROPERTY ReconnectServes
CHECK_DEADLOCK FALSE
