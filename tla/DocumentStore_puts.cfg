CONSTANTS
    f1 = f1
    f2 = f2
    f3 = f3
    Puts <- AllPuts
    NoFiling = NoFiling
    Requests <- AllRequests
    Releases = {r1}
    MaxTexts = 2
    MaxFaults = 1
SPECIFICATION FairSpec
INVARIANTS RowsHaveBlobs ChainIsLinear OrphansAreLeaks AuditsTellRows
PROPERTY PutsEnd
CHECK_DEADLOCK FALSE
