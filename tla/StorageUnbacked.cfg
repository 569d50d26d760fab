\* A failed batch inserted row by row.
SPECIFICATION Spec
CONSTANTS
    Series <- MCSeries
    Shapes <- MCShapes
    BatchSize = 1
    ChannelBufferSize = 2
    FlushTimer = FALSE
    InsertMayFail = TRUE
    StopMayTimeOut = FALSE
    MaxTime = 1
    MaxMsgs = 2
INVARIANT CurrentIsBacked
CHECK_DEADLOCK FALSE
