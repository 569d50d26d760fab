\* Graceful stop with a non-empty buffer.
SPECIFICATION Spec
CONSTANTS
    Series <- MCSeries
    Shapes <- MCShapes
    BatchSize = 2
    ChannelBufferSize = 2
    FlushTimer = TRUE
    InsertMayFail = FALSE
    StopMayTimeOut = FALSE
    MaxTime = 1
    MaxMsgs = 1
INVARIANT StopFlushesBuffer
CHECK_DEADLOCK FALSE
