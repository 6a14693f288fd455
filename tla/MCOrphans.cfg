SPECIFICATION Spec
CONSTANTS
    MaxPid = 1
    MaxTid = 2
    MaxSync = 0
    MaxCount = 1
    ExitCodes <- OneCode
    ResCounts = {}
    Calls = {"fork", "kill", "other"}
    Disciplined = FALSE
PROPERTIES
    OrphansAdopted
