SPECIFICATION Spec
CONSTANTS
    r1 = r1
    r2 = r2
    r3 = r3
    r4 = r4
    job = job
    NoHolding = NoHolding
    NoOrder = NoOrder
    Requests = {r1, r2}
    Jobs = {job}
    Fallible = {}
    Orders <- MixedOrders
    Openings <- OpenedPosition
    OpeningPrice = 12
    Prices = {12, 24}
    Overlap = TRUE
INVARIANTS
    RowAddsUp
CHECK_DEADLOCK FALSE
