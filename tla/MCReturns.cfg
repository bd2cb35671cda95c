CONSTANTS
    Scale = 2
    Handlers = {h1, h2}
    Purchases = {p1}
    Sales = {s1}
    Returns = {r1, r2, r3}
    NoOne = NoOne
    Amounts <- MCAmounts
    SaleBoards = {2}
    LegacyBoards = {1}
    Opening = 0
    OpeningAvg = 0
    MaxRequests = 5
SPECIFICATION Spec
SYMMETRY Symmetry
INVARIANTS TypeOK ReturnedWithinInvoice FullReturnReconciles EffectsFollowStatus
PROPERTIES AverageFollowsGoods
CHECK_DEADLOCK FALSE
