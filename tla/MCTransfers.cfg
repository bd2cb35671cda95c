CONSTANTS
    Handlers = {h1, h2}
    Transfers = {t1, t2}
    Branches = {1, 2, 3}
    Variants = {1, 2}
    Bodies <- MCBodies
    Keys = {k1}
    NoKey = NoKey
    NoOne = NoOne
    Costs = {2}
    OpeningCost <- MCOpeningCost
    Opening <- MCOpening
    Trades <- MCTrades
    MaxTries = 2
    MaxStock = 3
    MaxPreviews = 2
    MaxRequests = 3
SPECIFICATION Spec
INVARIANTS TypeOK ApprovalStands ConservationHolds DisciplineNeverDeadlocks
PROPERTIES Relocates Answered
CHECK_DEADLOCK FALSE
