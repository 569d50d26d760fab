\* Two goroutines call Shutdown, a Start fails, a Stop hangs.
SPECIFICATION FairSpec
CONSTANTS
    N = 3
    Failing <- Middle
    Hanging <- Middle
    Callers <- TwoCallers
INVARIANTS TypeOK StopsInOrderUnlessSlow RedisOutlivesServices
PROPERTY StopAllReturns
CHECK_DEADLOCK FALSE
