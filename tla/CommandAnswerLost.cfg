\* The handler reports while the answer arrives.
SPECIFICATION Spec
CONSTANTS
    Tasks <- OneTask
    Executors <- OneExecutor
    Users <- OneUser
    Limit = 1
    BusCap = 1
    ResponseCap = 1
    Faults = FALSE
    MayCrash = FALSE
    MaxUserMsgs = 1
    MaxFlips = 0
    MaxAnswers = 1
PROPERTY AnswerSticks
CHECK_DEADLOCK FALSE
