SPECIFICATION Spec
CONSTANTS
    MaxPid = 0
    MaxTid = 3
    MaxSync = 2
    MaxCount = 1
    ExitCodes <- OneCode
    ResCounts = {}
    Calls = {"exit", "thread_create", "mutex_create", "mutex_lock", "mutex_unlock", "other"}
    Disciplined = TRUE
INVARIANTS
    MutualExclusion
    
    NoTaskOnlyWhenIdle
