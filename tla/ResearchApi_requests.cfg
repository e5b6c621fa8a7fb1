\* Three requests for the windows of a key; requests, a writer and the canary
\* on the table of each endpoint.
CONSTANTS
    r1 = r1  r2 = r2  r3 = r3  w1 = w1  w2 = w2  c1 = c1  k1 = k1  k2 = k2
    Requests = {r1, r2, r3}
    Writers = {w1}
    Canaries = {c1}
    Keys = {k1, k2}
    None = None
    TierLimits <- Tiers
    Length <- Lengths
    Fresh = 2
    Skew = 1
    MaxLimit = 3
    MaxWidth = 4
    Start = 3
    MaxClock = 5
    Programs <- AllPrograms
    MaxFaults = 1
SPECIFICATION Spec
INVARIANTS RateLimitIsExact AuditTellsRequests NoLookAhead CachedStaysTrue RedIsDue
CHECK_DEADLOCK FALSE
