\* Two consumers, every janitor pass at any time, slow owners, one fault.
CONSTANTS
    w1 = w1  w2 = w2  op = op
    NoIntent = NoIntent
    Workers = {w1, w2}
    Clis = {}
    Passes = {1, 2, 3, 4}
    SlowOwners = TRUE
    QuietPass4 = FALSE
    MaxFaults = 1
SPECIFICATION FairSpec
INVARIANT AckedImpliesRouted
 
CHECK_DEADLOCK FALSE
