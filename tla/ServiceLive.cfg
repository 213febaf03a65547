CONSTANTS
    MaxClients = 2
    NUM_CPUS = 1
    Servers = 1
    MaxFds = 3
    Logs = TRUE
SPECIFICATION FairServiceSpec
INVARIANTS
    ServiceTypeOK
    NoDescriptorLost
    
PROPERTIES
    DeadIsClosed
