\* A Stop that takes longer than what is left of the 30 s.
SPECIFICATION Spec
CONSTANTS
    N = 3
    Failing <- Middle
    Hanging <- NoServices
    Callers <- TwoCallers
INVARIANT StopsInOrder
CHECK_DEADLOCK FALSE
