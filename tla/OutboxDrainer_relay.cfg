\* Two drainers, every kind of fault, and a row that Redis refuses for ever.
CONSTANTS
    e1 = e1  e2 = e2  e3 = e3  d1 = d1  d2 = d2
    None = None
    PageSize = 1
    Events = {e1, e2, e3}
    Poison = {e1}
    Drainers = {d1, d2}
    BatchSize = 2
    MaxLen = 3
    AlertAfter = 0
    FaultKinds = {"xadd_lost", "bound", "index_db", "mark_db", "scan", "crash"}
    MaxFaults = 1
SPECIFICATION FairSpec
INVARIANTS UnindexedCopiesNeedGaps ExtraCopiesNeedFaults AuditsCountPublished
PROPERTIES ImplementsRelay CommittedRowsArePublished
CHECK_DEADLOCK FALSE
