SPECIFICATION FairSpec
CONSTANTS
    MaxPid = 0
    MaxTid = 2
    MaxSync = 1
    MaxCount = 1
    ExitCodes <- OneCode
    ResCounts = {}
    Calls = {"exit", "thread_create", "mutex_create", "mutex_lock", "mutex_unlock", "other"}
    Disciplined = TRUE
PROPERTIES
    ReadyRuns
    WaiterGetsLock
