\* Two parallel calls to a pinned peer, an unpinned one or an unknown one.
CONSTANTS
    c1 = c1
    c2 = c2
    p1 = p1
    p2 = p2
    Callers = {c1, c2}
    Peers = {p1, p2}
    Pinned = {p1}
    Unknown = Unknown
    Nobody = Nobody
SPECIFICATION FairPeerSpec
INVARIANTS VerifiedBeforeInvoke CancellationIsPrivate
PROPERTIES EveryCallReturns FixedPeerRecovers
