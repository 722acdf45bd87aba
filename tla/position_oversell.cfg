SPECIFICATION Spec
CONSTANTS
    r1 = r1
    r2 = r2
    r3 = r3
    r4 = r4
    job = job
    NoHolding = NoHolding
    NoOrder = NoOrder
    Requests = {r1, r2}
    Jobs = {}
    Fallible = {}
    Orders <- Sales
    Openings <- OpenedPosition
    OpeningPrice = 12
    Prices = {12}
    Overlap = TRUE
SYMMETRY RequestSymmetry
PROPERTIES
    SellsCovered
CHECK_DEADLOCK FALSE
