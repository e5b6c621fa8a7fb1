SPECIFICATION FairSpec
CONSTANTS
    r1 = r1
    r2 = r2
    r3 = r3
    Runs <- AllRuns
    Refused <- RefusedRuns
    MaxCursor = 2
    Repairs = {2}
    MaxRows = 1
    MaxMoves = 2
    MaxFaults = 1
INVARIANTS
    TrailTellsCursor
    

    
CHECK_DEADLOCK FALSE
