SPECIFICATION Spec
CONSTANTS
    MaxPid = 2
    MaxTid = 2
    MaxSync = 0
    MaxCount = 1
    ExitCodes <- OneCode
    ResCounts = {}
    Calls = {"fork", "exit", "wait"}
    Disciplined = FALSE
INVARIANTS
    WaitAnyPopsHead
