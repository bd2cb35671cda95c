CONSTANTS
    x1 = x1
    v1 = v1
    v2 = v2
    b1 = b1
    Handlers = {h1, h2}
    Treasuries = {1, 2}
    Branches = {b1, b2}
    Documents <- MCDocuments
    Transfers = {x1}
    Vouchers = {v1, v2}
    Invoices = {1}
    NoOne = NoOne
    Nowhere = Nowhere
    First <- MCFirst
    OpeningAmount = 1
    Amounts = {1}
    Total <- MCTotal
    Revised = {1}
    Bodies <- MCBodies
    MaxRequests = 3
SPECIFICATION Spec
SYMMETRY Symmetry
INVARIANTS TypeOK EntriesFollowDocuments OneDefaultPerBranch
PROPERTIES AllocatedWithinInvoice NoOverdraft
CHECK_DEADLOCK FALSE
