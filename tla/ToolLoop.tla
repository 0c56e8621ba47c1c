------------------------------ MODULE ToolLoop ------------------------------
(***************************************************************************)
(* RunToolLoop of pkg/tools/loop.go: the agentic loop that asks the LLM,   *)
(* runs the tool calls of its answer in parallel goroutines, and asks      *)
(* again with the results, at most MaxIterations times.                    *)
(*                                                                         *)
(* The LLM and the tools are external: the LLM may ask for any name, the   *)
(* tools may fail, and the request's context may be cancelled at any time. *)
(***************************************************************************)
EXTENDS Naturals, Sequences, Registry

CONSTANTS
    Configs,        \* the agent configurations considered
    Requested,      \* names the LLM asks for
    CallIds,        \* tool-use ids the LLM gives its calls
    HasHook,        \* a Hook is set in LoopConfig
    Unbounded,      \* origins whose Execute has no timeout of its own
    Deaf,           \* origins whose Execute may outlast its timeout and its context
    MaxCalls,       \* bound on the tool calls in one LLM answer
    MaxIterations   \* LoopConfig.MaxIterations

ASSUME ToolLoopAssumption ==
    /\ Configs \subseteq ToolConfigs
    /\ Requested \subseteq Names
    /\ HasHook \in BOOLEAN
    /\ Unbounded \subseteq Origins
    /\ Deaf \subseteq Origins
    /\ MaxCalls \in Nat
    /\ MaxIterations \in Nat

VARIABLES
    cfg,         \* the agent configuration
    registry,    \* the *Registry handed to the loop
    toolDefs,    \* registry.Definitions(), computed once
    pc,          \* where the loop is
    iter,        \* i: the completed iterations
    messages,    \* the conversation after the initial messages
    calls,       \* resp.ToolCalls of the current iteration
    g,           \* the state of the goroutine of each call
    results,     \* results[i], written by goroutine i
    cancelled,   \* ctx.Err() # nil
    lateCalls,   \* history: CompleteWithTools calls made after the cancellation
    ran,         \* history: <<iteration, call>> whose tool was executed
    observed     \* history: <<iteration, call>> reported to AfterToolCall

vars == <<cfg, registry, toolDefs, pc, iter, messages, calls, g, results,
          cancelled, lateCalls, ran, observed>>
config == <<cfg, registry, toolDefs>>
history == <<lateCalls, ran, observed>>

Slots == 1 .. MaxCalls
ToolCalls == [id : CallIds, name : Requested]
Kinds == {"denied", "unknown", "ok", "error"}
Results == [id : CallIds, kind : Kinds]
Empty == [kind |-> "empty"]
Returned == {"answered", "llmError", "ctxError", "maxIterations"}
PCs == {"head", "await", "run"} \cup Returned
GStates == {"none", "spawned", "allowed", "exec", "ok", "error", "finished"}

Messages == [role : {"assistant"}, calls : Seq(ToolCalls)]
            \cup [role : {"tool"}, results : Seq(Results)]

TypeOK ==
    /\ cfg \in Configs
    /\ registry \in Registries
    /\ toolDefs \subseteq Names
    /\ pc \in PCs
    /\ iter \in 0 .. MaxIterations
    /\ messages \in Seq(Messages)
    /\ calls \in Seq(ToolCalls)
    /\ Len(calls) <= MaxCalls
    /\ g \in [Slots -> GStates]
    /\ results \in [Slots -> Results \cup {Empty}]
    /\ cancelled \in BOOLEAN
    /\ lateCalls \in Nat
    /\ ran \subseteq (Nat \X Slots)
    /\ observed \subseteq (Nat \X Slots)

Init ==
    /\ cfg \in Configs
    /\ registry = BuildRegistry(cfg)
    /\ toolDefs = Definitions(registry)
    /\ pc = "head"
    /\ iter = 0
    /\ messages = <<>>
    /\ calls = <<>>
    /\ g = [i \in Slots |-> "none"]
    /\ results = [i \in Slots |-> Empty]
    /\ cancelled = FALSE
    /\ lateCalls = 0
    /\ ran = {}
    /\ observed = {}

---------------------------------------------------------------------------
(* The loop. *)

\* provider.CompleteWithTools(iterCtx, messages, toolDefs) is called.
CallLLM ==
    /\ pc = "head"
    /\ iter < MaxIterations
    /\ pc' = "await"
    /\ lateCalls' = IF cancelled THEN lateCalls + 1 ELSE lateCalls
    /\ UNCHANGED <<config, iter, messages, calls, g, results, cancelled, ran, observed>>

MaxIterationsReached ==
    /\ pc = "head"
    /\ iter = MaxIterations
    /\ pc' = "maxIterations"
    /\ UNCHANGED <<config, iter, messages, calls, g, results, cancelled, history>>

LLMFails ==
    /\ pc = "await"
    /\ pc' = "llmError"
    /\ UNCHANGED <<config, iter, messages, calls, g, results, cancelled, history>>

\* No tool calls: the content is the answer.
LLMAnswers ==
    /\ pc = "await"
    /\ pc' = "answered"
    /\ UNCHANGED <<config, iter, messages, calls, g, results, cancelled, history>>

\* The assistant message is appended, and one goroutine spawned per call.
LLMCallsTools(tcs) ==
    /\ pc = "await"
    /\ messages' = Append(messages, [role |-> "assistant", calls |-> tcs])
    /\ calls' = tcs
    /\ g' = [i \in Slots |-> IF i <= Len(tcs) THEN "spawned" ELSE "none"]
    /\ results' = [i \in Slots |-> Empty]
    /\ pc' = "run"
    /\ UNCHANGED <<config, iter, cancelled, history>>

\* The round is over: g.Wait() returns when every goroutine has.
AllFinished == \A i \in Slots : i <= Len(calls) => g[i] = "finished"

WaitCancelled ==
    /\ pc = "run"
    /\ AllFinished
    /\ cancelled
    /\ pc' = "ctxError"
    /\ UNCHANGED <<config, iter, messages, calls, g, results, cancelled, history>>

\* Mutant: the error of g.Wait() is ignored.
WaitDone_IgnoresCancel ==
    /\ pc = "run"
    /\ AllFinished
    /\ messages' = Append(messages,
                     [role |-> "tool", results |-> [i \in 1 .. Len(calls) |-> results[i]]])
    /\ iter' = iter + 1
    /\ pc' = "head"
    /\ UNCHANGED <<config, calls, g, results, cancelled, history>>

WaitDone ==
    /\ pc = "run"
    /\ AllFinished
    /\ ~cancelled
    /\ messages' = Append(messages,
                     [role |-> "tool", results |-> [i \in 1 .. Len(calls) |-> results[i]]])
    /\ iter' = iter + 1
    /\ pc' = "head"
    /\ UNCHANGED <<config, calls, g, results, cancelled, history>>

---------------------------------------------------------------------------
(* executeTool and the write of the result, in goroutine i. *)

Running(i, state) == pc = "run" /\ g[i] = state

\* Mutant: results are collected in the order in which the goroutines end.
Finish_InOrderOfEnd(i, kind) ==
    LET free == CHOOSE j \in Slots :
                  results[j] = Empty /\ \A k \in 1 .. (j - 1) : results[k] # Empty
    IN  /\ results' = [results EXCEPT ![free] = [id |-> calls[i].id, kind |-> kind]]
        /\ g' = [g EXCEPT ![i] = "finished"]

\* truncateResult shortens the output only, which is not modelled here.
Finish(i, kind) ==
    /\ results' = [results EXCEPT ![i] = [id |-> calls[i].id, kind |-> kind]]
    /\ g' = [g EXCEPT ![i] = "finished"]

HookDenies(i) ==
    /\ HasHook
    /\ Running(i, "spawned")
    /\ Finish(i, "denied")
    /\ UNCHANGED <<config, pc, iter, messages, calls, cancelled, history>>

\* The hook allows the call, or there is no hook.
BeforeToolCall(i) ==
    /\ Running(i, "spawned")
    /\ g' = [g EXCEPT ![i] = "allowed"]
    /\ UNCHANGED <<config, pc, iter, messages, calls, results, cancelled, history>>

UnknownTool(i) ==
    /\ Running(i, "allowed")
    /\ Get(registry, calls[i].name) = NoTool
    /\ Finish(i, "unknown")
    /\ UNCHANGED <<config, pc, iter, messages, calls, cancelled, history>>

\* tool.Execute starts: from here on the tool may have had its effect.
Execute(i) ==
    /\ Running(i, "allowed")
    /\ Get(registry, calls[i].name) # NoTool
    /\ ran' = ran \cup {<<iter, i>>}
    /\ g' = [g EXCEPT ![i] = "exec"]
    /\ UNCHANGED <<config, pc, iter, messages, calls, results, cancelled, lateCalls,
                   observed>>

\* Mutant: a failing tool is executed again.
ExecuteReturns_Retries(i) ==
    /\ Running(i, "exec")
    /\ \E kind \in {"ok", "allowed"} : g' = [g EXCEPT ![i] = kind]
    /\ UNCHANGED <<config, pc, iter, messages, calls, results, cancelled, history>>

ExecuteReturns(i) ==
    /\ Running(i, "exec")
    /\ \E kind \in {"ok", "error"} : g' = [g EXCEPT ![i] = kind]
    /\ UNCHANGED <<config, pc, iter, messages, calls, results, cancelled, history>>

\* Mutant: a tool error returns before the hook is told.
AfterToolCall_NotOnError(i) ==
    /\ pc = "run"
    /\ g[i] \in {"ok", "error"}
    /\ observed' = IF HasHook /\ g[i] = "ok" THEN observed \cup {<<iter, i>>} ELSE observed
    /\ Finish(i, g[i])
    /\ UNCHANGED <<config, pc, iter, messages, calls, cancelled, lateCalls, ran>>

\* AfterToolCall if there is a hook, then the result is written.
AfterToolCall(i) ==
    /\ pc = "run"
    /\ g[i] \in {"ok", "error"}
    /\ observed' = IF HasHook THEN observed \cup {<<iter, i>>} ELSE observed
    /\ Finish(i, g[i])
    /\ UNCHANGED <<config, pc, iter, messages, calls, cancelled, lateCalls, ran>>

---------------------------------------------------------------------------

\* The caller's context ends: client gone, timeout or signal.
Cancel ==
    /\ ~cancelled
    /\ pc \notin Returned
    /\ cancelled' = TRUE
    /\ UNCHANGED <<config, pc, iter, messages, calls, g, results, history>>

\* The answers that ask for tools: one call to MaxCalls of them.
CallLists == UNION {[1 .. n -> ToolCalls] : n \in Slots}

ToolStep(i) ==
    \/ HookDenies(i) \/ BeforeToolCall(i) \/ UnknownTool(i)
    \/ Execute(i) \/ ExecuteReturns(i) \/ AfterToolCall(i)

LoopStep ==
    \/ CallLLM \/ MaxIterationsReached \/ LLMFails \/ LLMAnswers
    \/ \E tcs \in CallLists : LLMCallsTools(tcs)
    \/ WaitCancelled \/ WaitDone

\* The loop has returned.
Done == pc \in Returned /\ UNCHANGED vars

Next ==
    \/ LoopStep
    \/ \E i \in Slots : ToolStep(i)
    \/ Cancel
    \/ Done

Spec == Init /\ [][Next]_vars

\* The tool behind a call is one that need not return: an MCP call has no
\* timeout of its own (mcpclient/tool.go:35) and ends with its context, exec waits
\* for the output of every process it left behind (exec.go:103-104 sets no
\* WaitDelay), past its timeout and past the end of its context.
Hangs(i) ==
    LET origin == Get(registry, calls[i].name) IN
    origin \in Deaf \/ (origin \in Unbounded /\ ~cancelled)

\* The loop and its goroutines take their steps, the provider answers or fails
\* within its timeout, and a tool that does not hang returns.
Fairness ==
    /\ WF_vars(LoopStep)
    /\ \A i \in Slots :
          /\ WF_vars(HookDenies(i) \/ BeforeToolCall(i) \/ UnknownTool(i)
                     \/ Execute(i) \/ AfterToolCall(i))
          /\ WF_vars(ExecuteReturns(i) /\ ~Hangs(i))

FairSpec == Spec /\ Fairness

---------------------------------------------------------------------------
(* Properties *)

\* What is sent to the LLM is well formed (loop.go:109-141): every assistant
\* message with tool calls is followed by a tool message that answers each of
\* its calls, in the order of the calls, whatever order the goroutines ended in.
ConversationWellFormed ==
    pc \in {"head", "await", "answered", "llmError", "maxIterations"} =>
        /\ Len(messages) = 2 * iter
        /\ \A k \in 1 .. iter :
              LET asked == messages[2 * k - 1] told == messages[2 * k] IN
              /\ asked.role = "assistant" /\ told.role = "tool"
              /\ Len(told.results) = Len(asked.calls)
              /\ \A i \in 1 .. Len(asked.calls) :
                    told.results[i].id = asked.calls[i].id

\* The LLM learns of every effect: once a round is over its results say ok or
\* error for exactly the calls whose tool ran, and denied or unknown for the
\* calls whose tool did not (loop.go:118-141).
EffectsReported ==
    pc \in {"head", "await", "answered"} =>
        \A k \in 1 .. iter : \A i \in 1 .. Len(messages[2 * k].results) :
            messages[2 * k].results[i].kind \in {"ok", "error"} <=> <<k - 1, i>> \in ran

\* Every tool call is answered in its place, and truthfully.
EveryCallAnswered == ConversationWellFormed /\ EffectsReported

\* AfterToolCall is told of the tools that ran, all of them once the goroutines
\* have joined, and of no call that was denied or unknown (loop.go:159-192).
HookSeesEveryEffect ==
    /\ observed \subseteq ran
    /\ HasHook /\ pc # "run" => observed = ran

\* A cancelled request asks the LLM at most once more: cancellation that the
\* tools of a round could see ends the loop at g.Wait (loop.go:129-136), and only
\* one that falls between that check and the next call lets it through.
CancellationStops == lateCalls <= 1

\* A tool that ran is one the LLM was offered: Get and Definitions filter alike
\* (registry.go:44, 57), so neither an unregistered nor a filtered name runs.
OnlyOfferedToolsRun ==
    \A k \in 0 .. MaxIterations, i \in Slots : <<k, i>> \in ran =>
        messages[2 * k + 1].calls[i].name \in toolDefs

\* Only tools that were offered run, and a tool registered under the allow-list
\* is offered only if tools.allowed names it, or the list is empty, or an MCP
\* tool has the same name: the mark in alwaysAllowed outlives the tool it was
\* made for (registry.go:37, 51).
AllowListBinds ==
    /\ OnlyOfferedToolsRun
    /\ \A n \in Names : Get(registry, n) \in Gated =>
           n \in cfg.allowed \/ cfg.allowed = {} \/ n \in cfg.mcp

\* Every loop returns, unless some call of it is for ever inside a tool that need
\* not return: before a cancellation an MCP tool or exec, after it exec alone.
\* Nothing else keeps the loop from its end, the other goroutines of the round and
\* the order in which they end least of all (loop.go:117-141).
LoopReturns ==
    \/ <>(pc \in Returned)
    \/ <>[](\E i \in Slots : Running(i, "exec") /\ Hangs(i))

=============================================================================
