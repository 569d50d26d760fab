\* Default configuration: both flushers.
SPECIFICATION Spec
CONSTANTS
    Series <- MCSeries
    Shapes <- MCShapes
    BatchSize = 1
    ChannelBufferSize = 2
    FlushTimer = TRUE
    InsertMayFail = FALSE
    StopMayTimeOut = FALSE
    MaxTime = 2
    MaxMsgs = 3
INVARIANT CurrentIsNewest
CHECK_DEADLOCK FALSE
