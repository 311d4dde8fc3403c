SPECIFICATION Spec
CONSTANTS
    MAX_PROVISIONS = 2
    MAX_FAULTS = 0
CHECK_DEADLOCK FALSE
INVARIANT PasswordOpensDatabase
