SPECIFICATION Spec
CONSTANTS
    r1 = r1
    r2 = r2
    r3 = r3
    r4 = r4
    job = job
    NoHolding = NoHolding
    NoOrder = NoOrder
    Requests = {r1, r2, r3}
    Jobs = {}
    Fallible = {r1, r2, r3}
    Orders <- Purchases
    Openings <- OpenedPosition
    OpeningPrice = 12
    Prices = {0, 12}
    Overlap = TRUE
SYMMETRY RequestSymmetry
PROPERTIES
    ImplementsLedger
CHECK_DEADLOCK FALSE
