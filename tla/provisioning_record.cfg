SPECIFICATION Spec
CONSTANTS
    MAX_PROVISIONS = 2
    MAX_FAULTS = 1
CHECK_DEADLOCK FALSE
INVARIANT RecordCoversBillables
