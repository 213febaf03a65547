CONSTANTS
    Letters = {"P", "v"}
    Known <- MCKnown
    MAX_VAR_NAME_LENGTH = 3
    MAX_VAR_VALUE_LENGTH = 3
    MaxFile = 8
SPECIFICATION Spec
INVARIANTS
    TypeOK
    RefusalIsLast
    SettingsAreLines
CHECK_DEADLOCK FALSE
