SPECIFICATION FairSpec
CONSTANTS
    NumServers = 2
    Requests = {"r1", "r2"}
INVARIANTS
    NothingStaysOpen
    ClosedAfterUse
PROPERTY SignalEndsProcess
