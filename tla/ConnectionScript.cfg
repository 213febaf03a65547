CONSTANTS
    Requests <- AllRequests
    MaxRequests = 1
    NBS = 2
    ListLen = 5
    Manners = {}
    Behind = {"nul"}
SPECIFICATION Spec
INVARIANTS
    ScriptsAreNotServed
CHECK_DEADLOCK FALSE
