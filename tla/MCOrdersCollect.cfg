CONSTANTS
    o1 = o1
    o2 = o2
    Clients = {c1, c2}
    Orders = {o1, o2}
    Required <- MCRequired
    Boards <- MCBoards
    Amounts = {1, 2}
    InitialStock = 2
    MaxStock = 3
    MaxRequests = 5
SPECIFICATION Spec
CHECK_DEADLOCK FALSE
INVARIANT CollectedIsSumOfRows
