SPECIFICATION MCFairSpec
CONSTANTS
    Pipes = {p1}
    Readers = {r1, r2}
    Writers = {w1, w2}
    ReadLengths = {1, 3}
    WriteLengths = {2, 3}
    Timeouts = {TRUE, FALSE}
    Capacity = 3
    PipeBuf = 2
    MaxBytes = 4
    MaxWaiters = 3
    thePipe = p1
    theReader = r1
    theWriter = w1
INVARIANTS NoLostWakeup
PROPERTIES CallsReturn ImplementsByteStream
CHECK_DEADLOCK FALSE
