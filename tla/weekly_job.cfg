CONSTANTS
    Users = {"ann", "bob"}
    MaxRetries = 1
    TopN = 2
    MaxChars = 4
    Week = 3
    Lookback = 2
    MaxDays = 4
    MaxRequests = 1
    Linked = {"ann"}
    Past <- MCPast
    CallDays = {3}
    Callers = {"ann"}
    Lists <- MCLists
    Answers <- MCAnswers
SPECIFICATION FairSpec
INVARIANTS TypeOK ReportedIsSaved NeverAgainstItself UnreachedAreCounted RankingsAgree SectionsFit
PROPERTY RunEnds
CHECK_DEADLOCK FALSE
