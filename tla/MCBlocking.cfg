SPECIFICATION Spec
CONSTANTS
    MaxPid = 1
    MaxTid = 2
    MaxSync = 1
    MaxCount = 1
    ExitCodes <- OneCode
    ResCounts = {0, 1}
    Calls = {"exit", "fork", "kill", "thread_create", "mutex_create", "mutex_lock", "mutex_unlock", "semaphore_create", "semaphore_up", "semaphore_down"}
    Disciplined = FALSE
INVARIANTS
    
    ThreadPlacement
    WaitersAtHome
    
