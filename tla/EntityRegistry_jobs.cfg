CONSTANTS
    j1 = j1
    j2 = j2
    j3 = j3
    Jobs <- AllJobs
    NoEntity = NoEntity
    Idents = {"isin", "lei", "vkn"}
    Tables = {"sector", "link"}
    Programs <- AllPrograms
    MaxFailures = 1
SPECIFICATION RegistrySpec
INVARIANTS CreatesStand TrailTellsRows HistoryTellsEntity
CHECK_DEADLOCK FALSE
