------------------------------ MODULE Registry ------------------------------
(***************************************************************************)
(* The tool registry of pkg/tools/registry.go and the order in which       *)
(* buildRuntime (internal/cmd/runtime.go) fills it.                        *)
(*                                                                         *)
(* A registry is a record: the tool behind each name, the names that       *)
(* bypass the allow-list, and the allow-list.  A tool is named by the part *)
(* of the agent that registered it, its origin.                            *)
(***************************************************************************)
CONSTANTS
    Names,      \* tool names, the ones of MCP servers already prefixed
    Builtins    \* exec, web_fetch, read_file, write_file, remember

ASSUME NamesAssumption ==
    /\ Builtins \subseteq Names
    /\ {"rag_search", "fetch_document", "a2a_call", "load_skill"} \subseteq Names

NoTool == "none"

\* Origins registered with Register, subject to the allow-list, and with
\* RegisterAlwaysAllowed.
Gated == {"builtin", "docs", "a2a"}
Trusted == {"mcp", "rag", "skills"}
Origins == Gated \cup Trusted

Registries == [tools : [Names -> Origins \cup {NoTool}],
               alwaysAllowed : SUBSET Names,
               allowedFilter : SUBSET Names]

\* What agent-config.yaml decides about tools: tools.allowed, the names the
\* configured MCP servers expose, and which optional sections are there.
ToolConfigs == [allowed : SUBSET Names, mcp : SUBSET Names, rag : BOOLEAN,
                docs : BOOLEAN, peers : BOOLEAN, skills : BOOLEAN]

---------------------------------------------------------------------------

\* An empty list leaves allowedFilter nil, which admits every name: the empty
\* set stands for nil.
NewRegistry(allowedTools) ==
    [tools |-> [n \in Names |-> NoTool], alwaysAllowed |-> {},
     allowedFilter |-> allowedTools]

\* Mutant: every registration marks its names as always allowed.
Register_Bypasses(r, ns, origin) ==
    [r EXCEPT !.tools = [n \in Names |-> IF n \in ns THEN origin ELSE @[n]],
              !.alwaysAllowed = @ \cup ns]

\* Registering a set of names at once: within one set the order is immaterial.
Register(r, ns, origin) ==
    [r EXCEPT !.tools = [n \in Names |-> IF n \in ns THEN origin ELSE @[n]]]

\* The mark in alwaysAllowed belongs to the name and is never taken back.
RegisterAlwaysAllowed(r, ns, origin) ==
    [Register(r, ns, origin) EXCEPT !.alwaysAllowed = @ \cup ns]

Admits(r, name) ==
    r.allowedFilter = {} \/ name \in r.allowedFilter \/ name \in r.alwaysAllowed

Get(r, name) == IF Admits(r, name) THEN r.tools[name] ELSE NoTool

Definitions(r) == {n \in Names : r.tools[n] # NoTool /\ Admits(r, n)}

---------------------------------------------------------------------------
(* buildRuntime, the registrations in the order of the source. *)

When(b, ns) == IF b THEN ns ELSE {}

\* a2a_call is registered only if tools.allowed names it.
BuildRegistry(cfg) ==
    LET builtins == Register(NewRegistry(cfg.allowed), Builtins, "builtin")
        mcp      == RegisterAlwaysAllowed(builtins, cfg.mcp, "mcp")
        rag      == RegisterAlwaysAllowed(mcp, When(cfg.rag, {"rag_search"}), "rag")
        docs     == Register(rag, When(cfg.docs, {"fetch_document"}), "docs")
        a2a      == Register(docs, When("a2a_call" \in cfg.allowed /\ cfg.peers, {"a2a_call"}), "a2a")
    IN  RegisterAlwaysAllowed(a2a, When(cfg.skills, {"load_skill"}), "skills")
=============================================================================
