\* Liveness with a database that answers.
SPECIFICATION FairSpec
CONSTANTS
    Series <- MCSeries
    Shapes <- MCShapes
    BatchSize = 2
    ChannelBufferSize = 2
    FlushTimer = TRUE
    InsertMayFail = FALSE
    StopMayTimeOut = FALSE
    MaxTime = 2
    MaxMsgs = 3
INVARIANT CurrentIsBacked
PROPERTIES EveryMessageSettles StopReturns
CHECK_DEADLOCK FALSE
