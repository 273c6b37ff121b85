SPECIFICATION FairSpec
CONSTANTS
    Sessions = {s1}
    Limited = {}
    MaxConcurrency = 1
    Codes = {"", "a", "b"}
    Capacity = 1
    MaxCalls = 2
    Budgets <- MCOneSession
PROPERTY
    DestroyAlwaysReturns
CHECK_DEADLOCK FALSE
