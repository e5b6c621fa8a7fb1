CONSTANTS
    j1 = j1
    j2 = j2
    j3 = j3
    j4 = j4
    Texts <- AllTexts
    Jobs <- AllJobs
    Works <- AllWorks
    MaxTime = 2
    ChunkSize = 1
    MaxFaults = 1
SPECIFICATION FairSpec
INVARIANTS BatchesAreHonest FixedFieldsStay TrailTellsCatalog IdentifyingIsErasable
PROPERTIES ReplayIsStable JobsEnd
CHECK_DEADLOCK FALSE
