CONSTANTS
    Clients = {c1, c2}
    Invoices = {i1, i2}
    Quantities = {1, 2}
    Rates = {0, 1}
    Costs = {0, 1}
    MaxStock = 2
    MaxRequests = 5
SPECIFICATION Spec
SYMMETRY Symmetry
CHECK_DEADLOCK FALSE
PROPERTY PostedImmutable
