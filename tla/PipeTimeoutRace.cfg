SPECIFICATION MCSpec
CONSTANTS
    Pipes = {p1}
    Readers = {r1}
    Writers = {w1}
    ReadLengths = {1}
    WriteLengths = {1}
    Timeouts = {TRUE}
    Capacity = 2
    PipeBuf = 1
    MaxBytes = 4
    MaxWaiters = 4
    thePipe = p1
    theReader = r1
    theWriter = w1
INVARIANTS WritesAreReadBack
CHECK_DEADLOCK FALSE
