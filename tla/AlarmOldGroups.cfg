\* A report under way puts an old group back.
SPECIFICATION Spec
CONSTANTS
    d1 = d1
    d2 = d2
    Devices = {d1, d2}
    Conds <- TwoConds
    Named <- NamesOne
    OfConfig <- ConfigOnly
    Alarm = Alarm
    Missing = Missing
    MaxUpdates = 1
    Budgets <- OneSave
INVARIANT OldGroupsAreForgotten
CHECK_DEADLOCK FALSE
