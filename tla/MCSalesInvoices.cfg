CONSTANTS
    Clients = {c1, c2}
    Invoices = {i1, i2}
    Quantities = {1, 2}
    Rates = {0, 1}
    Costs = {0, 1}
    MaxStock = 2
    MaxRequests = 5
SPECIFICATION Spec
SYMMETRY Symmetry
INVARIANTS TypeOK CancelledOncePerConfirmation EffectsMatchStatus AmountsMatchLines
PROPERTIES PostedKeptUnraced
CHECK_DEADLOCK FALSE
