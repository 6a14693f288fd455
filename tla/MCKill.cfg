SPECIFICATION Spec
CONSTANTS
    MaxPid = 1
    MaxTid = 2
    MaxSync = 0
    MaxCount = 1
    ExitCodes <- OneCode
    ResCounts = {}
    Calls = {"fork", "thread_create", "kill"}
    Disciplined = FALSE
PROPERTIES
    KillEndsProcess
