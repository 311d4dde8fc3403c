SPECIFICATION FairSpec
CONSTANTS
    MAX_PROVISIONS = 3
    MAX_FAULTS = 3
CHECK_DEADLOCK FALSE
INVARIANTS TypeOK BillablesLeaveARecord
PROPERTIES BillablesGoFirst BillingEnds
