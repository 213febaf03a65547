CONSTANTS
    Requests <- AllRequests
    MaxRequests = 2
    NBS = 2
    ListLen = 3
    Manners = {"eager", "persist", "split", "fin", "reset"}
    Behind = {"nul", "blank", "keep"}
SPECIFICATION Spec
INVARIANTS
    OkIsDeserved
    OnlyListingsOverfill
CHECK_DEADLOCK FALSE
