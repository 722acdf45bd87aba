SPECIFICATION Spec
CONSTANTS
    r1 = r1
    r2 = r2
    r3 = r3
    r4 = r4
    job = job
    NoHolding = NoHolding
    NoOrder = NoOrder
    Requests = {r1, r2, r3, r4}
    Jobs = {job}
    Fallible = {r1, r2, r3, r4, job}
    Orders <- AnyOrder
    Openings <- AnyPosition
    OpeningPrice = 12
    Prices = {0, 12, 24}
    Overlap = FALSE
SYMMETRY RequestSymmetry
INVARIANTS
    TypeOK
    RowAddsUp
    SummaryMatchesRows
PROPERTIES
    ImplementsLedger
CHECK_DEADLOCK FALSE
