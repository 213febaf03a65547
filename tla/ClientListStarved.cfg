CONSTANTS
    MaxClients = 2
    NUM_CPUS = 1
SPECIFICATION FairSpec
PROPERTIES
    ListedIsServed
