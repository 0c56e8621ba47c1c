\* Two requests of any callers and ids, nothing expires, SQLite errors happen.
CONSTANTS
    r1 = r1
    r2 = r2
    r3 = r3
    Keys <- SomeKeys
    System = System
    TTL = 1
    MaxTime = 0
    Reqs = {r1, r2}
    Claims <- AnyCallers
    NoClaims = NoClaims
    Chars = {"a", "b", "x", "y", "|"}
    SessionIds <- Ids
    MaxIdLen = 2
    Separator = "|"
    StoreFails = TRUE
SPECIFICATION FairSpec
INVARIANT CallerIsolation
PROPERTY EveryRequestEnds
