\* The program as main runs it: nobody but main calls Shutdown.
SPECIFICATION Spec
CONSTANTS
    N = 3
    Failing <- Middle
    Hanging <- NoServices
    Callers <- NoCallers
INVARIANT ClosingCleansUp
CHECK_DEADLOCK FALSE
