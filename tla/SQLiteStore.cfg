\* Two sessions, two messages, crashes and failing statements, local time set back once.
CONSTANTS
    k1 = k1
    k2 = k2
    m1 = m1
    m2 = m2
    Keys = {k1, k2}
    Messages = {m1, m2}
    System = System
    TTL = 1
    MaxTime = 3
    MaxLen = 3
    FallBack = 2
    Shift = 1
SPECIFICATION Spec
SYMMETRY Symmetry
INVARIANTS TablesConsistent SnapshotIsCommitted
PROPERTIES ImplementsSessionStore ReapsOnlyIdle
