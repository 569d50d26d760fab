\* Database errors and restarts at any step.
SPECIFICATION Spec
CONSTANTS
    Tasks <- OneTask
    Executors <- TwoExecutors
    Users <- OneUser
    Limit = 1
    BusCap = 2
    ResponseCap = 1
    Faults = TRUE
    MayCrash = TRUE
    MaxUserMsgs = 1
    MaxFlips = 3
    MaxAnswers = 1
INVARIANTS SentOnceUnlessLost
CHECK_DEADLOCK FALSE
