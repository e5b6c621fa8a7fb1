\* A consumer and an operator; routes are faster than 60 s and pass 4 runs between routes.
CONSTANTS
    w1 = w1  w2 = w2  op = op
    NoIntent = NoIntent
    Workers = {w1, op}
    Clis = {op}
    Passes = {1, 2, 3, 4}
    SlowOwners = FALSE
    QuietPass4 = TRUE
    MaxFaults = 2
SPECIFICATION FairSpec
INVARIANTS RoutedEntryExists LogIndexAgree
PROPERTY LoggedIsRouted
CHECK_DEADLOCK FALSE
