\* A mark that follows a save's clearing.
SPECIFICATION Spec
CONSTANTS
    d1 = d1
    d2 = d2
    Devices = {d1, d2}
    Conds <- TwoConds
    Named <- NamesOne
    OfConfig <- ConfigOnly
    Alarm = Alarm
    Missing = Missing
    MaxUpdates = 1
    Budgets <- OneSave
INVARIANT OnlyHeldAreRaised
CHECK_DEADLOCK FALSE
