SPECIFICATION Spec
CONSTANTS
    Totals = {2, 160}
    Requests <- MCRequests
    MaxRequests = 5
    AlignLba = 32
INVARIANT EndsAsLogged
CHECK_DEADLOCK FALSE
