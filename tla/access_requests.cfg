CONSTANTS
    r1 = r1
    r2 = r2
    k1 = k1
    k2 = k2
    ann = ann
    bob = bob
    carol = carol
    NoToken = NoToken
    NoEmail = NoEmail
    Absent = Absent
    Callers = {r1, r2}
    Keys = {k1, k2}
    UserIds = {1, 2, 3}
    Seconds = 2
    MaxTime = 3
    MaxRequests <- MCMaxRequests
    FirstKey = k1
    Values <- MCValues
    Tokens <- MCTokens
    Configurations <- MCConfigurations
    Arrivals <- MCArrivals
    InitialUsers <- MCUsers
SPECIFICATION Spec
INVARIANTS TypeOK AnswersFresh WithdrawnKeysExpire RefusedKeysAreNew OwnRowsShown
CHECK_DEADLOCK FALSE
