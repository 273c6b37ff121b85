SPECIFICATION FairSpec
CONSTANTS
    Threads = {t1, t2, t3}
    Keys = {a, b, c}
    MaxEntries = 2
    None = None
    Pending = Pending
    Failed = Failed
INVARIANTS
    SingleFlight
    OwnSnapshot
PROPERTY
    CallReturns
CHECK_DEADLOCK FALSE
