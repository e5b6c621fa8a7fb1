\* A group of one consumer and every fault but the operator; entry 3 cannot
\* be parsed, its caller raises on entry 4, and entry 5 halts the consumer.
CONSTANTS
    a = a  b = b  c1 = c1  c2 = c2
    Redactor = Redactor
    None = None
    Events = {a, b}
    NMsgs = 5
    EventOf <- CopiesOfA
    Bad = {3}
    Halting = {5}
    Poison = {b}
    Redactable = {a}
    Consumers = {c1}
    Count = 2
    MaxAttempts = 1
    FaultKinds = {"span", "route", "lookup", "lock", "lua", "raise", "skip", "crash", "expire", "trim", "poll"}
    MaxFaults = 1
SPECIFICATION FairSpec
PROPERTIES DeliveredIsSettled
