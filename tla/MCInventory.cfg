CONSTANTS
    r1 = r1
    r2 = r2
    NoOne = NoOne
    Clients = {c1, c2}
    Rows = {r1, r2}
    Size <- MCSize
    Requests <- MCRequests
    MaxRequests = 4
SPECIFICATION Spec
INVARIANTS TypeOK
PROPERTIES AllLinesOrNone CountHonoured LedgerSpec Terminates
CHECK_DEADLOCK FALSE
