\* Two parallel calls per answer, two rounds, a hook that may deny, tools of
\* three kinds (exec, one of an MCP server, one not allowed).
CONSTANTS
    id1 = id1
    id2 = id2
    Names <- AllNames
    Builtins = {"exec"}
    Configs <- OneConfig
    Requested = {"exec", "fs_list", "fetch_document"}
    CallIds = {id1, id2}
    HasHook = TRUE
    Unbounded = {"mcp"}
    Deaf = {"builtin"}
    MaxCalls = 2
    MaxIterations = 2
SPECIFICATION FairSpec
INVARIANTS EveryCallAnswered HookSeesEveryEffect CancellationStops
PROPERTY LoopReturns
