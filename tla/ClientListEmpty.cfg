CONSTANTS
    MaxClients = 1
    NUM_CPUS = 1
SPECIFICATION Spec
INVARIANTS
    EmptyListSleeps
