CONSTANTS
    MaxClients = 3
    NUM_CPUS = 1
SPECIFICATION FairSpec
INVARIANTS
    TypeOK
    LiveClientsReachable
    WalkMissesNoLiveClient
    PrevptrIsPredecessor
PROPERTIES
    ImplementsRoster
    DeadClientUnlinked
    PassEnds
