CONSTANTS
    Pids = {1, 2, 3}
    Threads = {t1, t2}
    Reaper = reaper
    Scenes <- SafetyScenes
    MaxEvents = 1
SPECIFICATION Spec
INVARIANTS NoLostWakeup ZombiesScheduled CallbackOnce PendingAreBlocked
PROPERTIES OrphansAreSignalled
SYMMETRY ThreadSymmetry
CHECK_DEADLOCK FALSE
