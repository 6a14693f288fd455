SPECIFICATION Spec
CONSTANTS
    MaxPid = 3
    MaxTid = 3
    MaxSync = 0
    MaxCount = 1
    ExitCodes <- OneCode
    ResCounts = {}
    Calls = {"exit", "fork", "exec", "wait", "waittid", "thread_create", "kill", "unsupported", "fault"}
    Disciplined = FALSE
INVARIANTS
    TablesAgree
    ProcessTree
    ExitStatusOnce
PROPERTIES
    ChildrenReported
