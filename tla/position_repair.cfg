SPECIFICATION FairSpec
CONSTANTS
    r1 = r1
    r2 = r2
    r3 = r3
    r4 = r4
    job = job
    NoHolding = NoHolding
    NoOrder = NoOrder
    Requests = {r1, r2}
    Jobs = {job}
    Fallible = {r1}
    Orders <- MixedOrders
    Openings <- AnyPosition
    OpeningPrice = 12
    Prices = {24}
    Overlap = TRUE
INVARIANTS
    SplitDatesUnique
PROPERTIES
    EventuallyCurrent
CHECK_DEADLOCK FALSE
