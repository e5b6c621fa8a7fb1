\* One consumer and the janitor, no fault and no slow owner.
CONSTANTS
    w1 = w1  w2 = w2  op = op
    NoIntent = NoIntent
    Workers = {w1}
    Clis = {}
    Passes = {1, 2, 3, 4}
    SlowOwners = FALSE
    QuietPass4 = FALSE
    MaxFaults = 0
SPECIFICATION Spec
INVARIANT RoutedEntryExists
CHECK_DEADLOCK FALSE
