SPECIFICATION FairSpec
CONSTANTS
    Sessions = {s1, s2}
    Limited = {s1}
    MaxConcurrency = 1
    Codes = {"", "a", "b"}
    Capacity = 1
    MaxCalls = 2
    Budgets <- MCBudgets
INVARIANTS
    SlotsExact
    ResponseNotLost
    
    TimerScoped

    
    
CHECK_DEADLOCK FALSE
