\* Two tasks, two executors that overlap, a full bus, no faults.
SPECIFICATION FairSpec
CONSTANTS
    Tasks <- TwoTasks
    Executors <- TwoExecutors
    Users <- NoUsers
    Limit = 2
    BusCap = 1
    ResponseCap = 1
    Faults = FALSE
    MayCrash = FALSE
    MaxUserMsgs = 0
    MaxFlips = 3
    MaxAnswers = 1
INVARIANTS TypeOK SuccessIsOwn
PROPERTIES ImplementsLifecycle CommandsAreReported TakenIsServed
CHECK_DEADLOCK FALSE
