\* Three requests of one session race with each other and with the reaper.
CONSTANTS
    r1 = r1
    r2 = r2
    r3 = r3
    Keys <- OneKey
    System = System
    TTL = 1
    MaxTime = 3
    Reqs = {r1, r2, r3}
    Claims <- NoCallers
    NoClaims = NoClaims
    Chars = {"a", "b", "x", "y", "|"}
    SessionIds <- OneId
    MaxIdLen = 2
    Separator = "|"
    StoreFails = FALSE
SPECIFICATION Spec
SYMMETRY ReqSymmetry
INVARIANT PromptIsConversation
PROPERTY KeepsStorePromise
