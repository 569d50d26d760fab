\* Create inserts after the device came online.
SPECIFICATION FairSpec
CONSTANTS
    Tasks <- OneTask
    Executors <- OneExecutor
    Users <- NoUsers
    Limit = 1
    BusCap = 1
    ResponseCap = 1
    Faults = FALSE
    MayCrash = FALSE
    MaxUserMsgs = 0
    MaxFlips = 1
    MaxAnswers = 0
PROPERTY OnlineDrainsPending
CHECK_DEADLOCK FALSE
