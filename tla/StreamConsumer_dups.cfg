\* Two consumers, two copies of one event, every kind of fault.
CONSTANTS
    a = a  b = b  c1 = c1  c2 = c2
    Redactor = Redactor
    None = None
    Events = {a}
    NMsgs = 2
    EventOf <- CopiesOfA
    Bad = {}
    Halting = {}
    Poison = {}
    Redactable = {a}
    Consumers = {c1, c2}
    Count = 2
    MaxAttempts = 1
    FaultKinds = {"span", "route", "lookup", "lock", "lua", "raise", "skip", "crash", "operator", "expire", "trim", "poll"}
    MaxFaults = 2
SPECIFICATION Spec
INVARIANTS SingleYield NoRawYieldAfterRedaction NothingLost RepeatsAreBounded
SYMMETRY ConsumerSymmetry
