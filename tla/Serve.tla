------------------------------- MODULE Serve -------------------------------
(***************************************************************************)
(* A docsclaw process from its start to its end (internal/cmd/runtime.go,  *)
(* serve.go, ask.go; internal/mcpclient): the runtime is put together step *)
(* by step, each of which may fail after others have opened something;     *)
(* serve then answers requests until a signal makes a second goroutine     *)
(* shut the server down, ask runs one conversation.  What the steps open   *)
(* is to be closed on every way out, and not under those who use it.       *)
(***************************************************************************)
EXTENDS Naturals

CONSTANTS
    NumServers,   \* len(agentCfg.Tools.MCP)
    Requests      \* HTTP requests that may arrive

ASSUME ServersAssumption == NumServers \in Nat

Servers == 1 .. NumServers

VARIABLES
    cmd,          \* the command: serve or ask
    main,         \* where the main goroutine is
    registry,     \* rt.Registry # nil: there is an agent-config.yaml
    provider,     \* rt.Provider # nil
    at,           \* the MCP server NewManager is at
    conns,        \* the sessions with the MCP servers
    store,        \* the handle of the session database
    reaper,       \* the goroutine of StartReaper
    listener,     \* the server: open until Shutdown is called
    watcher,      \* the goroutine that waits for a signal
    cancelled,    \* ask: ctx is done
    request,      \* the requests that the server handles
    expired,      \* history: Shutdown gave up on active requests after 5 s
    broken,       \* history: ListenAndServe failed by itself
    signalled     \* history: a signal was sent

buildVars == <<cmd, registry, provider, at>>
vars == <<main, buildVars, conns, store, reaper, listener, watcher, cancelled, request,
          expired, broken, signalled>>

Mains == {"config", "load", "connect", "list", "provider", "rag", "run", "otel", "store",
          "auth", "listen", "listening", "await", "closeHandler", "closeRuntime",
          "returned", "killed"}

TypeOK ==
    /\ cmd \in {"serve", "ask"}
    /\ main \in Mains
    /\ registry \in BOOLEAN /\ provider \in BOOLEAN
    /\ at \in 1 .. NumServers + 1
    /\ conns \in [Servers -> {"none", "open", "closed", "failed"}]
    /\ store \in {"none", "memory", "open", "leaked", "closed"}
    /\ reaper \in {"none", "running", "cancelled", "gone"}
    /\ listener \in {"open", "closed"}
    /\ watcher \in {"none", "starting", "waiting", "notified", "shutdown", "otel", "done"}
    /\ cancelled \in BOOLEAN
    /\ request \in [Requests -> {"none", "active", "over"}]
    /\ expired \in BOOLEAN /\ broken \in BOOLEAN /\ signalled \in BOOLEAN

Init ==
    /\ cmd \in {"serve", "ask"}
    /\ main = "config"
    /\ registry = FALSE /\ provider = FALSE
    /\ at = 1 /\ conns = [s \in Servers |-> "none"]
    /\ store = "none" /\ reaper = "none"
    /\ listener = "open" /\ watcher = "none"
    /\ cancelled = FALSE
    /\ request = [r \in Requests |-> "none"]
    /\ expired = FALSE /\ broken = FALSE /\ signalled = FALSE

Running == main \notin {"returned", "killed"}

\* What the steps of buildRuntime and of ask leave alone.
serveVars == <<store, reaper, listener, watcher, request, expired, broken>>

---------------------------------------------------------------------------
(* MCP sessions: internal/mcpclient *)

\* Mutant: Close returns at the first session that fails to close.
CloseConns_FirstError(bad) ==
    [s \in Servers |->
        IF conns[s] = "open" /\ \A t \in bad : conns[t] = "open" => s <= t
        THEN IF s \in bad THEN "failed" ELSE "closed"
        ELSE conns[s]]

\* Manager.Close calls every session's Close; those of bad return an error,
\* which is only reported.
CloseConns(bad) ==
    [s \in Servers |->
        IF conns[s] = "open" THEN IF s \in bad THEN "failed" ELSE "closed" ELSE conns[s]]

\* buildRuntime returns an error: NewManager has closed its sessions, or the
\* deferred function runs the closers.
BuildFails ==
    /\ \E bad \in SUBSET Servers : conns' = CloseConns(bad)
    /\ main' = "returned"
    /\ UNCHANGED <<buildVars, cancelled, signalled, serveVars>>

Connect ==
    /\ main = "connect"
    /\ conns' = [conns EXCEPT ![at] = "open"]
    /\ main' = "list"
    /\ UNCHANGED <<buildVars, cancelled, signalled, serveVars>>

ConnectFails == main = "connect" /\ BuildFails

ListTools ==
    /\ main = "list"
    /\ at' = at + 1
    /\ main' = IF at = NumServers THEN "provider" ELSE "connect"
    /\ UNCHANGED <<cmd, registry, provider, conns, cancelled, signalled, serveVars>>

\* ListTools fails, or a tool's name is taken: the session just opened is
\* among those that are closed.
ListFails == main = "list" /\ BuildFails

---------------------------------------------------------------------------
(* loadConfig and buildRuntime *)

LoadConfig ==
    /\ main = "config"
    /\ main' \in {"load", "returned"}
    /\ UNCHANGED <<buildVars, conns, cancelled, signalled, serveVars>>

\* The prompt, the card, the variants and the agent configuration are read;
\* with the latter there is a registry, a workspace and the MCP servers.
Load ==
    /\ main = "load"
    /\ registry' \in BOOLEAN
    /\ main' = IF registry' /\ NumServers > 0 THEN "connect" ELSE "provider"
    /\ UNCHANGED <<cmd, provider, at, conns, cancelled, signalled, serveVars>>

LoadFails == main = "load" /\ BuildFails

NewProvider ==
    /\ main = "provider"
    /\ provider' \in BOOLEAN
    /\ main' = "rag"
    /\ UNCHANGED <<cmd, registry, at, conns, cancelled, signalled, serveVars>>

ProviderFails == main = "provider" /\ BuildFails

\* The last step that may fail; the tools are registered and buildRuntime is
\* over.  ask returns an error without a provider.
Built ==
    /\ main = "rag"
    /\ main' = CASE cmd = "serve" -> "otel"
                 [] cmd = "ask" /\ provider -> "run"
                 [] OTHER -> "closeRuntime"
    /\ UNCHANGED <<buildVars, conns, cancelled, signalled, serveVars>>

RAGFails == main = "rag" /\ registry /\ BuildFails

\* ask: Run has returned an answer or an error.
AskReturns ==
    /\ main = "run"
    /\ main' = "closeRuntime"
    /\ UNCHANGED <<buildVars, conns, cancelled, signalled, serveVars>>

---------------------------------------------------------------------------
(* runServe and newServeHandler *)

OtelInit ==
    /\ main = "otel"
    /\ main' \in {"store", "closeRuntime"}
    /\ UNCHANGED <<buildVars, conns, cancelled, signalled, serveVars>>

StartReaper == reaper' = "running"

MemoryStore ==
    /\ main = "store"
    /\ IF registry THEN store' = "memory" /\ StartReaper ELSE UNCHANGED <<store, reaper>>
    /\ main' = "auth"
    /\ UNCHANGED <<buildVars, conns, cancelled, signalled, listener, watcher, request,
                   expired, broken>>

OpenDatabase ==
    /\ main = "store" /\ registry
    /\ store' = "open" /\ StartReaper
    /\ main' = "auth"
    /\ UNCHANGED <<buildVars, conns, cancelled, signalled, listener, watcher, request,
                   expired, broken>>

\* The directory or the database fails, and nothing is open; or os.Chmod fails,
\* before the store's Close is among the closers.
OpenFails ==
    /\ main = "store" /\ registry
    /\ store' \in {"none", "leaked"}
    /\ main' = "closeRuntime"
    /\ UNCHANGED <<buildVars, conns, cancelled, signalled, reaper, listener, watcher,
                   request, expired, broken>>

\* closeHandler: the reaper is cancelled, then the database closed.
CloseHandler ==
    /\ reaper' = IF reaper = "running" THEN "cancelled" ELSE reaper
    /\ store' = IF store = "open" THEN "closed" ELSE store

\* The configuration of inbound auth is refused.
AuthFails ==
    /\ main = "auth" /\ registry
    /\ CloseHandler
    /\ main' = "closeRuntime"
    /\ UNCHANGED <<buildVars, conns, cancelled, signalled, listener, watcher, request,
                   expired, broken>>

\* The handler is complete; the goroutine for signals is started.
HandlerReady ==
    /\ main = "auth"
    /\ watcher' = "starting"
    /\ main' = "listen"
    /\ UNCHANGED <<buildVars, conns, cancelled, signalled, store, reaper, listener, request,
                   expired, broken>>

\* ListenAndServe returns ErrServerClosed as soon as Shutdown is called, be it
\* before the first Accept.
Listen ==
    /\ main \in {"listen", "listening"}
    /\ main' = IF listener = "closed" THEN "await" ELSE "listening"
    /\ main' # main
    /\ UNCHANGED <<buildVars, conns, cancelled, signalled, serveVars>>

ListenFails ==
    /\ main \in {"listen", "listening"} /\ listener = "open"
    /\ broken' = TRUE
    /\ main' = "closeHandler"
    /\ UNCHANGED <<buildVars, conns, cancelled, signalled, store, reaper, listener, watcher,
                   request, expired>>

\* Mutant: runServe returns with ListenAndServe.
AwaitDone_Not ==
    /\ main = "await"
    /\ main' = "closeHandler"
    /\ UNCHANGED <<buildVars, conns, cancelled, signalled, serveVars>>

AwaitDone ==
    /\ main = "await" /\ watcher = "done"
    /\ main' = "closeHandler"
    /\ UNCHANGED <<buildVars, conns, cancelled, signalled, serveVars>>

DeferredCloseHandler ==
    /\ main = "closeHandler"
    /\ CloseHandler
    /\ main' = "closeRuntime"
    /\ UNCHANGED <<buildVars, conns, cancelled, signalled, listener, watcher, request,
                   expired, broken>>

\* rt.Close, the last deferred call of runServe and of runAsk.
CloseRuntime == main = "closeRuntime" /\ BuildFails

---------------------------------------------------------------------------
(* The goroutine for signals, the reaper and the requests of the server *)

Notify ==
    /\ Running /\ watcher = "starting"
    /\ watcher' = "waiting"
    /\ UNCHANGED <<main, buildVars, conns, cancelled, signalled, store, reaper, listener,
                   request, expired, broken>>

\* SIGINT or SIGTERM.  Before signal.Notify, or NotifyContext in ask, it ends the
\* process; ask's context is cancelled by it.
Signal ==
    /\ Running /\ ~signalled
    /\ signalled' = TRUE
    /\ CASE cmd = "ask" /\ main # "config" -> cancelled' = TRUE /\ UNCHANGED <<main, watcher>>
         [] watcher = "waiting" -> watcher' = "notified" /\ UNCHANGED <<main, cancelled>>
         [] OTHER -> main' = "killed" /\ UNCHANGED <<cancelled, watcher>>
    /\ UNCHANGED <<buildVars, conns, store, reaper, listener, request, expired, broken>>

\* Shutdown closes the listener,
Shutdown ==
    /\ Running /\ watcher = "notified"
    /\ listener' = "closed"
    /\ watcher' = "shutdown"
    /\ UNCHANGED <<main, buildVars, conns, cancelled, signalled, store, reaper, request,
                   expired, broken>>

\* waits for the active requests
Drained ==
    /\ Running /\ watcher = "shutdown"
    /\ \A r \in Requests : request[r] # "active"
    /\ watcher' = "otel"
    /\ UNCHANGED <<main, buildVars, conns, cancelled, signalled, store, reaper, listener,
                   request, expired, broken>>

\* Mutant: Shutdown is given a context without a deadline.
GraceExpires_Never == FALSE /\ UNCHANGED vars

\* and gives up after 5 seconds.
GraceExpires ==
    /\ Running /\ watcher = "shutdown"
    /\ expired' = TRUE
    /\ watcher' = "otel"
    /\ UNCHANGED <<main, buildVars, conns, cancelled, signalled, store, reaper, listener,
                   request, broken>>

\* otelShutdown returns within 5 seconds; then close(done).
OtelShutdown ==
    /\ Running /\ watcher = "otel"
    /\ watcher' = "done"
    /\ UNCHANGED <<main, buildVars, conns, cancelled, signalled, store, reaper, listener,
                   request, expired, broken>>

ReaperExits ==
    /\ Running /\ reaper = "cancelled"
    /\ reaper' = "gone"
    /\ UNCHANGED <<main, buildVars, conns, cancelled, signalled, store, listener, watcher,
                   request, expired, broken>>

Accept(r) ==
    /\ main = "listening" /\ listener = "open" /\ request[r] = "none"
    /\ request' = [request EXCEPT ![r] = "active"]
    /\ UNCHANGED <<main, buildVars, conns, cancelled, signalled, store, reaper, listener,
                   watcher, expired, broken>>

\* The handler returns: an answer, or an error if what it uses is closed.
HandlerReturns(r) ==
    /\ Running /\ request[r] = "active"
    /\ request' = [request EXCEPT ![r] = "over"]
    /\ UNCHANGED <<main, buildVars, conns, cancelled, signalled, store, reaper, listener,
                   watcher, expired, broken>>

Ended == ~Running /\ UNCHANGED vars

MainStep ==
    \/ LoadConfig \/ Load \/ LoadFails \/ NewProvider \/ ProviderFails \/ Built \/ RAGFails
    \/ OtelInit \/ MemoryStore \/ OpenDatabase \/ OpenFails \/ AuthFails \/ HandlerReady
    \/ Listen \/ AwaitDone \/ DeferredCloseHandler \/ CloseRuntime

\* Steps that wait for others: MCP servers and the LLM.
ExternalStep == Connect \/ ConnectFails \/ ListTools \/ ListFails \/ AskReturns

WatcherStep == Notify \/ Shutdown \/ Drained \/ GraceExpires \/ OtelShutdown

Next ==
    \/ MainStep
    \/ ExternalStep
    \/ ListenFails
    \/ WatcherStep
    \/ Signal
    \/ ReaperExits
    \/ \E r \in Requests : Accept(r) \/ HandlerReturns(r)
    \/ Ended

Spec == Init /\ [][Next]_vars

\* What rt.Close (serve.go:221) may wait for without end: Session.Close lets the
\* calls in flight finish, and a request that Shutdown gave up on, whose context
\* nothing cancels, may be in a call of an MCP server that never answers.
HeldByRequest ==
    /\ main = "closeRuntime"
    /\ \E s \in Servers : conns[s] = "open"
    /\ \E r \in Requests : request[r] = "active"

\* What ask waits for past the end of its context: the run of its conversation, in
\* which exec may wait for a process it left behind (see LoopReturns in ToolLoop).
HeldByRun == main = "run"

\* The goroutines of the process run, both of Shutdown's waits have deadlines, and
\* MCP servers are no longer waited for once ask's context is cancelled.  An MCP
\* server, a tool or the LLM may never answer, and a request may never end.
FairSpec ==
    /\ Spec
    /\ WF_vars(MainStep /\ ~HeldByRequest)
    /\ WF_vars(WatcherStep)
    /\ WF_vars(cancelled /\ ExternalStep /\ ~HeldByRun)

---------------------------------------------------------------------------
(* Properties *)

\* When a command returns, whichever step failed, every MCP session has been
\* closed, the database too and the reaper has been told to stop
\* (runtime.go:104-111, mcpclient.go:64-90, the deferred calls of runServe).
\* The one exception is in the code: a database whose mode could not be changed
\* (runtime.go:446) is not closed.
NothingStaysOpen ==
    main = "returned" =>
        /\ \A s \in Servers : conns[s] # "open"
        /\ store # "open"
        /\ reaper # "running"

\* MCP sessions and the database are closed under a request that is being handled
\* only if Shutdown has given it 5 seconds to finish, or the server had failed:
\* runServe waits for the goroutine of the signal before its deferred calls run
\* (serve.go:320-327).
ClosedAfterUse ==
    (\E r \in Requests : request[r] = "active") /\ Running =>
        \/ expired \/ broken
        \/ store # "closed" /\ \A s \in Servers : conns[s] \notin {"closed", "failed"}

\* A signal ends the process, wherever it is: while MCP servers are being
\* connected, before or after ListenAndServe, with requests that never end
\* (serve.go:262-280, ask.go:58-60).  Two things can keep it alive, and only for
\* ever: a request that holds rt.Close, past the 5 seconds, and ask's run.
SignalEndsProcess ==
    \/ signalled ~> ~Running
    \/ <>[]HeldByRequest
    \/ <>[]HeldByRun

===========================================================================
