CONSTANTS
    Handlers = {h1, h2}
    Purchases = {p1, p2}
    Sales = {s1}
    NoOne = NoOne
    Receipts <- MCReceipts
    Lengths = {1, 2}
    Keys = {k1, k2, k3}
    MaxRevision = 3
    RequestLimit = 5
SPECIFICATION RevisionSpec
SYMMETRY Symmetry
INVARIANTS RevisionTypeOK RevisedInTurn RevisedAsIfAlways
PROPERTIES RevisionMovesBoth
CHECK_DEADLOCK FALSE
