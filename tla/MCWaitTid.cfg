SPECIFICATION Spec
CONSTANTS
    MaxPid = 0
    MaxTid = 2
    MaxSync = 0
    MaxCount = 1
    ExitCodes <- OneCode
    ResCounts = {}
    Calls = {"thread_create", "waittid", "unsupported"}
    Disciplined = FALSE
INVARIANTS
    WaitTidMeansAlive
