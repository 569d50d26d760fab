\* The answer arrives before the transaction commits.
SPECIFICATION Spec
CONSTANTS
    Tasks <- OneTask
    Executors <- OneExecutor
    Users <- NoUsers
    Limit = 1
    BusCap = 1
    ResponseCap = 1
    Faults = FALSE
    MayCrash = FALSE
    MaxUserMsgs = 0
    MaxFlips = 1
    MaxAnswers = 1
INVARIANT TaskFollowsLog
CHECK_DEADLOCK FALSE
