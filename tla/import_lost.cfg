SPECIFICATION Spec
CONSTANTS
    Toyota = Toyota
    Vti = Vti
    World = World
    Nowhere = Nowhere
    Garbled = Garbled
    none = none
    Symbols = {Toyota, Vti, World, Nowhere, Garbled}
    Names <- MCNames
    FundSymbolOf <- MCFundSymbolOf
    TickerOf <- MCTickerOf
    SymbolRank <- MCSymbolRank
    NoSymbol = none
    NoPrice = NoPrice
    Sessions = {"trades"}
    Malformed = {Garbled}
    Unknown = {Nowhere}
    Tabs = {"trades"}
    Faulty = {}
    History <- LostHistory
    RateTables <- MCRateTables
    Periods <- WholePeriod
    MaxImports <- MCMaxImports
INVARIANT
    CreatedAreRecorded
CHECK_DEADLOCK FALSE
