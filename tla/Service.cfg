CONSTANTS
    MaxClients = 3
    NUM_CPUS = 1
    Servers = 1
    MaxFds = 4
    Logs = FALSE
SPECIFICATION ServiceSpec
INVARIANTS
    ServersStayOpen
    NoDescriptorLost
    
    OnlyStaleNumbersMix
