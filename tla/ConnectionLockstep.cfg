CONSTANTS
    Requests <- KeptRequests
    MaxRequests = 3
    NBS = 2
    ListLen = 3
    Manners = {"persist", "split", "fin", "reset"}
    Behind = {"nul", "keep"}
SPECIFICATION FairSpec
INVARIANTS
    TypeOK
    BodyInOrder
    ClosedOnlyWhenDelivered
    UploadsOnlyAppend
    AnsweredOnce
PROPERTIES
    TransferEnds
    ClosedAfterFile
CHECK_DEADLOCK FALSE
