SPECIFICATION FairSpec
CONSTANTS
    Toyota = Toyota
    Vti = Vti
    World = World
    Nowhere = Nowhere
    Garbled = Garbled
    none = none
    Symbols = {Vti, World, Nowhere, Garbled}
    Names <- MCNames
    FundSymbolOf <- MCFundSymbolOf
    TickerOf <- MCTickerOf
    SymbolRank <- MCSymbolRank
    NoSymbol = none
    NoPrice = NoPrice
    Sessions = {"trades", "dividends"}
    Malformed = {Garbled}
    Unknown = {Nowhere}
    Tabs = {"trades", "dividends"}
    Faulty = {"trades"}
    History <- MCHistory
    RateTables <- MCRateTables
    Periods <- MCPeriods
    MaxImports <- MCMaxImports
INVARIANTS
    TypeOK
    ImportedOnce
    RecordsHaveStock
PROPERTIES
    AllOrNothing
    SessionsEnd
CHECK_DEADLOCK FALSE
