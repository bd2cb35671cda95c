CONSTANTS
    c1 = c1
    c2 = c2
    Nobody = Nobody
    other = other
    Clients = {c1, c2}
    Treasuries = {1, 2}
    Others = {other}
    Floor = {1}
    Documents <- MCDocuments
    Months = {"july"}
    LinesOf <- MCLinesOf
    MonthOf <- MCMonthOf
    Payments <- MCPayments
    DirectEntries <- MCDirect
    MaxRequests = 3
SPECIFICATION Spec
INVARIANTS TypeOK ReversalPairs
PROPERTIES GuardedOutflow LedgerSpec Terminates
CHECK_DEADLOCK FALSE
