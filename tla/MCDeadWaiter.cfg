SPECIFICATION Spec
CONSTANTS
    MaxPid = 1
    MaxTid = 2
    MaxSync = 1
    MaxCount = 1
    ExitCodes <- OneCode
    ResCounts = {}
    Calls = {"fork", "kill", "thread_create", "mutex_create", "mutex_lock", "mutex_unlock"}
    Disciplined = TRUE
INVARIANTS
    NoTaskOnlyWhenIdle
