CONSTANTS
    Users = {"ann", "bob"}
    MaxRetries = 1
    KeepDays = 4
    FetchDays = 3
    WeekDays = 3
    ReadDays = 1
    Compared = 3
    Symbols = {"toyota", "apple", "emaxis"}
    KindOf <- MCKinds
    Held <- MCHeld
    Trades <- MCTrades
    FirstDay = 20
    LastDay = 22
    SplitSymbols = {"apple"}
SPECIFICATION Spec
INVARIANTS TypeOK SameBasis SucceededIsPriced
PROPERTY ReadableBarsStay
CHECK_DEADLOCK FALSE
