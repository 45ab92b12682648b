SPECIFICATION Spec
CONSTANTS
    r1 = r1
    r2 = r2
    Requests <- OneRequest
INVARIANTS
    RequestsKeepTheStore
CHECK_DEADLOCK FALSE
