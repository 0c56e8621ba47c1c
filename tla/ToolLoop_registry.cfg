\* Every tool configuration, one call at a time, two rounds, no hook.
CONSTANTS
    id1 = id1
    id2 = id2
    Names <- AllNames
    Builtins = {"exec"}
    Configs <- EveryConfig
    Requested = {"exec", "fetch_document", "a2a_call", "load_skill", "fs_list"}
    CallIds = {id1}
    HasHook = FALSE
    Unbounded = {"mcp"}
    Deaf = {"builtin"}
    MaxCalls = 1
    MaxIterations = 2
SPECIFICATION Spec
INVARIANT AllowListBinds
