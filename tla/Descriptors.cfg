SPECIFICATION FairSpec
CONSTANTS
    Pids = {1, 2}
    NumStdio = 1
    MaxProcesses = 2
    MaxDescs = 3
    t1 = t1
    t2 = t2
    Flockers = {t1, t2}
    Scenes <- AllScenes
INVARIANTS
    RefCountExact EndsOpenWhileUsed
    Exclusion SleepersBlocked
PROPERTIES LastCloseReachesEnd LimitKept LockOutlivesOneClose Granted
CHECK_DEADLOCK FALSE
