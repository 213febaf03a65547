CONSTANTS
    MaxSettings = 5
    NUM_CPUS = 2
SPECIFICATION Spec
INVARIANTS
    TypeOK
    ServesAllPorts
    PrivilegesDropped
    VhostsAreUsable
CHECK_DEADLOCK FALSE
