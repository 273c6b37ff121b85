SPECIFICATION FairSpec
CONSTANTS
    s1 = s1
    s2 = s2
    m1 = m1
    Readers = {s1, s2, m1}
    ReaderEnd <- MCReaderEnd
    Writers = {w1}
    Pollers = {p1}
    MaxBuffer = 3
    MaxCanon = 2
    Scenes <- MCScenes
INVARIANTS
    QueueExact
    NoLostWakeup
    PollerAlert
    LinesWhole
PROPERTIES
    ReaderReleased
CHECK_DEADLOCK FALSE
