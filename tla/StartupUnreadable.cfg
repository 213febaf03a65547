CONSTANTS
    MaxSettings = 1
    NUM_CPUS = 1
SPECIFICATION Spec
INVARIANTS
    UnreadableConfigBails
CHECK_DEADLOCK FALSE
