SPECIFICATION Spec
CONSTANTS
    MaxPid = 0
    MaxTid = 2
    MaxSync = 1
    MaxCount = 1
    ExitCodes <- OneCode
    ResCounts = {}
    Calls = {"thread_create", "mutex_create", "mutex_lock", "mutex_unlock", "condvar_create", "condvar_signal", "condvar_wait"}
    Disciplined = TRUE
PROPERTIES
    CondvarWaitReturns
