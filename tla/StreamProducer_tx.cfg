\* Two sessions, callers that swallow conflicts and database errors; lenient
\* Settings injected in a strict environment.
CONSTANTS
    a = a  b = b  x = x  s1 = s1  s2 = s2
    Events = {a, b, x}
    Unknown = {x}
    Sessions = {s1, s2}
    Batches <- SomeBatches
    StrictCheck = FALSE
    StrictRecord = TRUE
    Swallows = {"conflict", "kind", "db"}
    MaxCalls = 3
    MaxFaults = 1
SPECIFICATION FairSpec
INVARIANT RowsMatchAudits
PROPERTY CallsEnd
