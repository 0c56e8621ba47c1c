\* Three goroutines and four calls of any kind.
CONSTANTS
    Calls = {"c1", "c2", "c3"}
    MaxOps = 4
SPECIFICATION Spec
INVARIANTS PullIsAtomic RememberedIsKept
CHECK_DEADLOCK FALSE
