SPECIFICATION FairSpec
CONSTANTS
    j1 = j1
    t1 = t1
    t2 = t2
    t3 = t3
    u1 = u1
    u2 = u2
    Ids = {j1}
    Tasks = {t1, t2, t3}
    Users = {u1, u2}
    EventCapacity = 1
    Plans <- MCPlans
INVARIANTS RequestsConserved AwaitedPending ExitNotMissed NeverUnarmed  PoliciesKept
PROPERTIES InFlightRejected KeepsFiring
CHECK_DEADLOCK FALSE
