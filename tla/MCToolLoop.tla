----------------------------- MODULE MCToolLoop -----------------------------
(* Small instances of ToolLoop. *)
EXTENDS ToolLoop

CONSTANTS id1, id2

\* fs_list and fetch_document are names an MCP server may expose.
AllNames == {"exec", "rag_search", "fetch_document", "a2a_call", "load_skill",
             "fs_list"}

Config(allowed, mcp, rag, docs, peers, skills) ==
    [allowed |-> allowed, mcp |-> mcp, rag |-> rag, docs |-> docs,
     peers |-> peers, skills |-> skills]

\* exec is allowed, fs_list is an MCP tool, fetch_document is configured but not
\* allowed.
OneConfig == {Config({"exec"}, {"fs_list"}, FALSE, TRUE, FALSE, FALSE)}

\* Every combination of allow-list, MCP names and optional sections, the two
\* sections whose tools are always allowed together.
EveryConfig ==
    {Config(a, m, s, d, p, s) :
        a \in SUBSET {"exec", "fetch_document", "a2a_call"},
        m \in SUBSET {"fs_list", "fetch_document"},
        d \in BOOLEAN, p \in BOOLEAN, s \in BOOLEAN}
=============================================================================
