CONSTANTS
    Pids = {1, 2}
    Threads = {t1, t2}
    Reaper = reaper
    Scenes <- LiveScenes
    MaxEvents = 1
SPECIFICATION FairSpec
PROPERTIES WaiterReturns OrphansReaped
CHECK_DEADLOCK FALSE
