# A TLA+ verification of docsclaw

docsclaw is an agent runtime: a Go program that serves an LLM agent over A2A and
over an OpenAI-compatible API, lets the LLM call tools (built-in, MCP, retrieval,
documents, other agents), keeps conversations per session, and verifies the
bearer token of every caller. This directory models the parts of it where
goroutines, failures and time make the code hard to test, checks them with TLC on
small instances, and proves every safety property of the runs with TLAPS for
every size.
The demo dashboard that drives several such agents is modelled as well.

`PROJECT.json` is the index: components, runs, mutants, the map from definitions
to source lines, hazards and theorems. Paths below are relative to the
repository root.

## 1. Inventory

| Component | State | Operations | Hard behaviour |
|---|---|---|---|
| JWKS key cache, `pkg/inboundauth/keys.go` | keys, attempted, lastFetch, lastErr, refreshing, refreshDone | `key`, `fetch` | many requests, one mutex released across the network call, rate limit, rotation |
| Token decision, `pkg/inboundauth/verify.go`, `middleware.go` | none | `Middleware`, `verifyToken` | order of checks, clock skew, exempt paths |
| A2A executor, `internal/bridge/executor.go` | events of each task | `Execute`, `Cancel` | two store calls per request, reaper in between, callers that share session ids |
| Session stores, `internal/session` | sessions, messages, lastActive | `GetOrCreate`, `Append`, `AppendAndSnapshot`, `reap` | expiry, transactions, crashes, text timestamps |
| Tool loop, `pkg/tools/loop.go` | conversation, results, iteration | `RunToolLoop`, `executeTool` | parallel tools, cancellation, hooks, iteration limit |
| Tool registry, `pkg/tools/registry.go`, filled by `internal/cmd/runtime.go` | tools, alwaysAllowed, allowedFilter | `Register`, `RegisterAlwaysAllowed`, `Get`, `Definitions` | names that collide, an allow-list that is empty |
| Peer calls, `internal/a2acall` | cardVerified, singleflight group | `Execute`, `verifyCard` | shared fetches, cancelled leaders, cards with several signatures |
| OpenAI API, `internal/openaiapi` | none | `ChatCompletion`, streaming | a stream that ends in several ways |
| LLM providers, `internal/openai`, `internal/anthropic` | accumulated text and tool calls | `Complete`, `StreamWithTools` | cut-off streams, index gaps, role conversion |
| MCP manager, `internal/mcpclient` | sessions, tools | `NewManager`, `Close`, `CallTool` | one server of several failing, calls without a timeout |
| Runtime assembly, `internal/cmd/runtime.go`, `serve.go`, `ask.go` | closers, the server, the reaper | `buildRuntime`, serve, ask, shutdown | an error after resources are open, requests in flight at shutdown, signals at any time |
| Batch coordinator, `internal/cmd/batch.go` | results per worker | `splitDocuments`, `runBatch`, `formatCSV` | partial failure, answers of any shape, counts |
| Skill puller, `internal/skillpuller`; `skill delete`; `pkg/skills` | a skill's directory | pull, delete, read | system calls of several processes without a lock, crashes |
| Agent memory, `pkg/memory`; `write_file` | MEMORY.md | `Append`, replace | concurrent appends, a replacement in between, failed writes |
| Dashboard of the batch demo, `demo/batch/dashboard` | `states`, objects in the cluster | run, cleanup, send with retry | retries of what was done, cleanup during a run, API calls that fail after their effect |

The rest (CLI, configuration files, skill parsing, manifests and image builds,
telemetry, agent cards) is parsing, formatting and I/O without behaviour of its
own; each is listed in `PROJECT.json` with the reason it is left out.

How they interact: the inbound middleware looks up keys in the key cache and puts
the verified claims into the request's context; the executor derives the session
key from them, reads and writes the session store, which the reaper prunes in the
background, and calls the tool loop; the loop alternates between a provider and
the registry's tools, one of which calls other agents.

What makes each part correct, in words, is the list of properties in section 3;
the hazards that the properties are for are in `PROJECT.json` under `hazards`.

## 2. Modules

| Module | Models | State and actions |
|---|---|---|
| `KeySource` | `pkg/inboundauth/keys.go` | The fields of `keySource` by name, and per request a program counter. One action per lock hold of `key`: `CacheHit`, `RateLimited`, `JoinRefresh`, `StartRefresh`, `Install`; the unlocked parts are steps of their own (`Wake`, `WaitCancelled`, `Recheck`, `FetchOK`, `FetchFail`). Channels are numbered; `closed` is the set of closed ones. The issuer (`Rotate`) and the clock (`Tick`) are the environment. |
| `InboundAuth` (extends `KeySource`) | `pkg/inboundauth/middleware.go`, `verify.go` | Per request whether it was answered. `AnswerEarly` is every answer that needs no key; `Lookup` hands the request to the cache; `Verify` takes the decision when the cache has returned. `Checks` lists the checks of `verifyToken` in their order with the status each denies with. The parts of a token that the lookup does not see are chosen at the decision. |
| `A2ACall` | `internal/a2acall` | `cardVerified`, the singleflight group as `flight` (the leader of each peer's entry), per call its position (`stage`) and whether its context has ended. The peer's endpoint may change at any time. `verifyCard` is the code's verdict over the set of kinds of signature entries on a card. |
| `Registry` | `pkg/tools/registry.go`, registrations of `buildRuntime` | Operators on a registry record. A tool is represented by who registered it. |
| `ToolLoop` (uses `Registry`) | `pkg/tools/loop.go` | The loop's program counter, one state per tool goroutine, the conversation. The LLM may ask for any list of calls. |
| `SessionStore` | the interface in `internal/session/store.go` | The abstract specification: a conversation per key that is created with the system prompt, grows by one message at its end, or expires. |
| `MemoryStore` | `internal/session/store.go` | Each method is atomic under the store's mutex. |
| `AgentExecutor` (uses `MemoryStore`) | `internal/bridge/executor.go` | Concurrent requests with a program counter each; `Reaper` is the store's background goroutine. Session ids are sequences, so that the cut at `MaxIdLen` and the joined key are what the code computes. |
| `SQLiteStore` | `internal/session/sqlite_store.go` | Two tables, an open transaction, and the call under way, statement by statement. `Crash` may happen at any statement, `Open` follows it. A timestamp is compared as its text in local time is (`LexicallyBefore`). |
| `Conversation` | `ConvertMessages`, `tokenize`, the request bodies of the two providers | Operators. A text is a sequence of parts, or of characters that are white space or not; a tool call is its id and whether its arguments parse. |
| `ChatStream` (uses `Conversation`) | `internal/openaiapi`, `StreamWithTools` of `internal/openai` and `internal/anthropic` | The handler's position, the lines the API has sent and how many are scanned, the accumulated text and tool calls, and the frames the client has been sent. One action per kind of line and per way a stream ends. A line is known by what the loop does with it, a tool call by its id, of `Ids`; usage figures and the finish reason, which decide nothing, are noise. Tool executions between two calls are one step, being `ToolLoop`'s subject. |
| `Serve` | `internal/cmd/runtime.go`, `serve.go`, `ask.go`, `internal/mcpclient` | The main goroutine's position from the flags to its return, the MCP sessions, the session database, the reaper, the server with its requests, and the goroutine that waits for a signal. One action per step that may fail and per way it fails. |
| `Batch` | `internal/cmd/batch.go`, `internal/bridge/client.go` | One goroutine per agent, its slot of `results`, the report and the numbers printed. An answer is a message or a task with artifacts whose texts are JSON of some shape or not JSON; `TextOf` is what the client takes from it. |
| `AgentFiles` | `internal/skillpuller/server.go`, `internal/cmd/skill_delete.go`, `pkg/skills`, `pkg/memory`, `internal/writefile` | The directory of one skill and MEMORY.md; an action is one system call of one of several goroutines. `Crash` ends the puller's or the agent's calls where they are. |
| `Dashboard` | `demo/batch/dashboard` | The map `states` (`entry`), each run's phase and agents' statuses, each goroutine's position, and the objects in the cluster. An API call may fail before or after it had its effect. The controller that starts pods and the people who edit the ConfigMap are the environment. |
| `InboundAuth_proofs` (with `KeySource`), `ToolLoop_proofs` (with `A2ACall`), `ChatStream_proofs` (with `Batch`), `Serve_proofs`, `AgentFiles_proofs`, `AgentExecutor_proofs`, `SQLiteStore_proofs`, `Dashboard_proofs` | | Theorems and proofs, section 6. |
| `MC*` | | Small instances for TLC. |

Definitions whose name ends in an underscore and a word (`Install_NoClose`) are
mutants: the definition before which they stand as a plausible mistake would have
left it. No specification uses them; each property of a passing run is violated
when its mutant takes the definition's place.

Composition: `AgentExecutor` extends `MemoryStore`, and both it and `SQLiteStore`
are shown to implement `SessionStore` (`KeepsStorePromise`,
`ImplementsSessionStore`), so the executor's use of the store relies only on what
the two stores share. `ToolLoop` runs on the registry `BuildRegistry` returns for
each configuration. `InboundAuth` extends `KeySource`, and every one of its steps
is a step of it or leaves it alone (`MiddlewareUsesCache`).

Abstractions. Texts (prompts, answers, tool output, card contents) are model
values or kinds. Truncation of long tool results, telemetry and logging are left
out. Time advances in ticks; a timeout is an action that may happen whenever the
code waits. Errors of a step are nondeterministic.

Callers. Nothing is assumed of `sub`, `azp` or the id: each may hold the separator `|`
that `sessionKey` joins them with, and the instances have callers and ids that do.
`CallerIsolation` says what the key isolates all the same; its comment in the code says
more (section 4).

Reports. A `document_id` in an answer is free text: an agent may name its documents,
another's, or none that exists. `report` is the ranking and `output` the rows of it that
reach the file; a flush may fail after any of them. That a path is given twice on the
command line is left out: documents are numbered.

## 3. Runs

- **inboundauth** (`InboundAuth.cfg`; 2 requests at a time, 2 kids, interval 1, skew 1,
  time to 2, one rotation, 11 tokens of which each fails at most one check; 243,292
  states). A token reaches the next handler only if it meets the policy at the time of
  the decision, under a key that was published (`AdmissionIsSound`): the lookup may last
  longer than the token is valid. After a successful fetch, holders of a key that was
  never withdrawn are admitted through outages, rate limits and the cancelled requests
  of others (`WarmCacheAdmits`). n refreshes take n - 1 intervals (`RefreshRate`); an
  older set never replaces a newer one (`NoStaleInstall`); every request is answered
  (`EveryRequestAnswered`). A fetch may outlast the interval, which is when the flag and
  not the rate limit must keep a second refresh out.
- **a2acall** (`A2ACall.cfg`; 2 calls, one pinned and one unpinned peer; 30,888
  states). No message to a pinned peer without a verified card
  (`VerifiedBeforeInvoke`); a leader's cancellation stays its own
  (`CancellationIsPrivate`); every call returns (`EveryCallReturns`); a peer that serves
  a good card for good stops being refused (`FixedPeerRecovers`).
- **toolloop** (`ToolLoop.cfg`; 2 parallel calls of exec, an MCP tool or one not allowed,
  2 rounds, a hook; 1,790,611 states). The conversation sent to the LLM answers every call
  in order, with ok or error for exactly the tools that ran (`EveryCallAnswered`); the
  hook hears of each of them (`HookSeesEveryEffect`); at most one LLM call follows a
  cancellation (`CancellationStops`); every loop returns unless a call of it is for ever
  inside a tool that need not return, which before a cancellation is an MCP tool or exec
  and after it exec alone (`LoopReturns`; section 5).
- **toolloop_registry** (`ToolLoop_registry.cfg`; 256 configurations, one call per
  round; 284,512 states). Only offered tools run, and a tool under the allow-list runs
  only if listed, if there is no list, or if an MCP server exposes its name
  (`AllowListBinds`: the third case is what the code does, since the mark in
  `alwaysAllowed` outlives the tool it was made for).
- **executor_isolation** (`AgentExecutor_isolation.cfg`; 2 requests of callers with and
  without a client, with and without separators in their names, or of nobody, ids with
  separators and beyond the cut; 758,676 states). A prompt holds another identity's turns
  only if the names of the two hold different numbers of separators (`CallerIsolation`);
  every request that is not for ever in the processor ends, and its events follow the
  life of a task (`EveryRequestEnds`).
- **executor_reaper** (`AgentExecutor_reaper.cfg`; 3 requests of one session, TTL 1,
  time to 3; 591,988 states up to symmetry). A prompt that is not empty is the
  conversation with this request's message at its end (`PromptIsConversation`); the
  store's contents change as `SessionStore` says (`KeepsStorePromise`).
- **sqlite_store** (`SQLiteStore.cfg`; 2 sessions, 2 messages, conversations of up to
  3, time to 3, local time set back once; 13,184 states up to symmetry). The tables
  agree at every point a crash may hit (`TablesConsistent`); a snapshot is what was
  committed (`SnapshotIsCommitted`); the transactions implement `SessionStore`
  (`ImplementsSessionStore`); only idle sessions are reaped, except for those that were
  used within a TTL after local time was set back (`ReapsOnlyIdle`; section 4).
- **chatstream** (`ChatStream.cfg`; both providers or none, streamed or not, with and
  without tools, 4 message lists, answers of up to 3 lines of which 2 may be buffered,
  2 iterations; 731,358 states). At every moment the frames are the beginning of one
  well-formed stream, which ends with a mark unless the provider's timeout or a departed
  client found a line in hand (`internal/openai/openai.go:428`), or the input of a tool
  call nobody offered did not parse (`internal/anthropic/anthropic.go:284`)
  (`StreamWellFormed`); an answer given as complete is letter for letter the API's, and
  is never given as complete when the connection broke or a line could not be read
  before its end (`AnswerIsTheModels`; a stream cut off at a line boundary is one the
  code cannot tell from a complete one); interleaved tool-call deltas arrive at the loop
  as the calls they are when the API numbers them from 0, and their results follow them
  in the next body (`CallsSurvive`; an index gap does drop calls, which the premise
  leaves out); the server's prompt comes first and no turn is lost in either conversion
  (`PromptReachesModel`); every request returns unless it is for ever in its tools or in a
  write to a client that neither reads nor leaves (`EveryRequestReturns`). Three lines are
  enough for a gap, for two interleaved calls, for a call cut in two, and for a word, a
  space and a word.
- **serve** (`Serve.cfg`; 2 MCP servers, 2 requests; 4,755 states). When a command
  returns, whichever step failed, sessions and database are closed and the reaper told
  to stop (`NothingStaysOpen`); neither is closed under a request unless Shutdown's 5
  seconds are over or the server had failed (`ClosedAfterUse`); a signal at any point
  ends the process, unless closing the MCP sessions waits for ever for a request that
  Shutdown gave up on, or `ask` for a tool that outlives its context
  (`SignalEndsProcess`).
- **batch** (`Batch.cfg`; up to 3 documents, 2 agents, 2 results per answer, about any
  document or none; 850,764 states). Every document goes to exactly one agent, evenly
  (`EveryDocumentSent`); a call is cut short only by the command's deadline
  (`FailureIsPrivate`); the ranking holds the results that came back as often as they
  did, best first, and what is written is a top of it, whatever flushes fail. The number
  of documents not processed (`batch.go:183`) is never too large, and is right exactly if
  every row names another document; answers that repeat or invent documents make it too
  small, even negative (`ReportIsExact`).
- **agentfiles** (`AgentFiles.cfg`; 3 goroutines, 4 calls of any kind; 768,598 states).
  A reader finds no skill or a whole one, an acknowledged one stays until a delete
  begins, and temporary files outlive only crashes (`PullIsAtomic`); an entry that
  `remember` acknowledged stays whole until `write_file` replaces the file
  (`RememberedIsKept`). Four calls are two writers, one that disturbs them and a reader.
- **dashboard** (`Dashboard.cfg`; one agent with 2 runs and 2 cleanups, or two agents
  and one run, 2 attempts per message, one edit by others; 301,766 states). Two runs work
  at once only if a cleanup made the map forget the first (`OneRunAtATime`); a cleanup
  without a run leaves nothing but what the API refused to delete
  (`CleanupLeavesNothing`); a run shown as done was answered by each agent, which
  processed the prompt at most once more than attempts failed (`DoneMeansAnswered`);
  others' edits survive and no pod starts without the document service
  (`EditsSurvive`); every run ends (`EveryRunEnds`).

Bounds. Two requests are what a race in these components needs: a leader and a
follower, a writer and a reader. Three are used where two may conspire against a
third (the reaper, the files). Clock bounds let every interval and TTL pass at least
once and start again. Two rounds of the loop let a cancellation fall before, inside and
after a round that is followed by another. Two MCP servers are one that is open when
the other fails; a run of two agents has one that fails while the other works. The
runs of `AgentFiles` and `Dashboard` end when their calls are used up, so deadlock is
not checked there.

## 4. Where the code and its documents disagree

What the models do is what the code does; where a sentence of the repository says
otherwise, the properties are stated so that they hold of the code, and the
difference is listed here.

- During the first JWKS fetch other requests are inside the interval with `lastErr`
  still nil and get 401 `invalid_token` (`pkg/inboundauth/keys.go:51`);
  `docs/dev/zero-trust/09-inboundauth-package.md:33` says "requests fail closed with
  `503 jwks_unavailable`, not 401". `WarmCacheAdmits` speaks of the time after it.
- An empty `tools.allowed` admits every tool (`pkg/tools/registry.go:22`);
  `docs/agent-config-guide.md:101` gives its default as "`[]` (none)". An exception in
  `AllowListBinds`.
- When the reaper removes a session between `GetOrCreate` and `AppendAndSnapshot`
  (`internal/bridge/executor.go:96-102`), the append reports success and the LLM is
  called without messages; the design
  (`docs/superpowers/specs/2026-05-04-server-side-sessions-design.md:117`) appends and
  then calls it with the conversation. `PromptIsConversation` excepts empty prompts. A
  session reaped and created again while the LLM works gets the answer to a question it
  does not hold (`executor.go:128`).
- Session expiry compares texts in local time (`internal/session/sqlite_store.go:300`):
  within a TTL after local time was set back, a session in use is deleted; line 42 of
  the same design has sessions deleted that are "idle beyond TTL". The exception in
  `ReapsOnlyIdle`.
- `sessionKey` "isolates conversations per verified caller"
  (`internal/bridge/executor.go:145`), but joins subject, client and id as they are
  (`executor.go:152`), and `verifyToken` restricts no character of `sub` or `azp`. Names
  such as `auth0|x` are common, and callers whose names hold different numbers of
  separators can have one key: subject `a|b` without a client and subject `a` of client
  `b` share it for ids of their choice. `CallerIsolation` excepts such pairs (`Alike`).
- "Provider calls `onEvent(StreamEvent{Type: Error, Content: msg})` and returns the
  error", says the design of streaming
  (`docs/superpowers/specs/2026-05-05-provider-streaming-design.md:150-151`); with a line
  in hand at the end of the context, and for a tool input that does not parse, no event is
  sent (`internal/openai/openai.go:428`, `internal/anthropic/anthropic.go:284`). The
  exceptions that `MarkedEnd` names in `StreamWellFormed`.
- "Request-scoped contexts handle cancellation" (`internal/cmd/serve.go:251`): nothing
  cancels the context of a request at shutdown. `Shutdown` gives up on it after 5 seconds,
  but then `rt.Close` (`serve.go:221`) waits for the MCP call it may be in
  (`internal/mcpclient/tool.go:35`, no timeout). An exception in `SignalEndsProcess`.
- The timeout of exec (`internal/exec/exec.go:99`) kills the shell, but `CombinedOutput`
  (`exec.go:104`) goes on waiting for the pipe while a process the shell started holds it.
  Nor does the end of the context free the loop. An exception in `LoopReturns`.
- `SendMessage` "Retries on transient errors (HTML responses, method not found)"
  (`demo/batch/dashboard/a2a.go:33`); it retries any error, a timeout after the agent has
  processed the message included. `DoneMeansAnswered` counts the repetitions.
- The dashboard stores the A2A state of a task as it is (`demo/batch/dashboard/main.go:308`)
  and looks for "failed" only (`main.go:258`): a run whose agent answered
  `TASK_STATE_FAILED` is shown as done, although the comment at `main.go:26` lists
  "failed". `DoneMeansAnswered` says answered, not succeeded.
- `formatCSV` returns `cw.Error()` before its deferred `Flush` runs
  (`internal/cmd/batch.go:60-82`): if the last flush fails, rows are lost and the command
  ends without the "CSV output error" of `batch.go:188`. `ReportIsExact` says that what
  is written is a top of the ranking, not that it is all of it. The text of a
  failed task is handed on like an answer (`internal/bridge/client.go:136-165`) and
  counts if it parses.
- `Append` opens MEMORY.md write-only and reads its last byte to see whether a newline
  is missing (`pkg/memory/memory.go:60,78-83`); the read always fails and the newline is
  never added.
- If the mode of a new session database cannot be changed, the database stays open
  (`internal/cmd/runtime.go:446`). The exception in `NothingStaysOpen`.

## 5. Fairness

A goroutine that can run does, and a wait with a deadline ends. Where the code waits
without one, no fairness is assumed and the liveness property names the wait as an
exception: it may last for ever, and nothing else may keep the actor from its end.

`InboundAuth` (with the steps of `KeySource`), `A2ACall`: weak fairness for the steps of
each request. A fetch ends because `fetch` and the peer call have timeouts (10 seconds;
the peer's timeout), with either result. Nothing is assumed of the issuer, of peers or
of the clock.

`ToolLoop`: weak fairness for the loop and its goroutines, and for a tool's return unless
it `Hangs`. `Unbounded` tools (MCP: `mcpTool.Execute` passes the context and has no
timeout) return for certain only once the context is cancelled; `Deaf` ones need not return
even then. Built-in tools are deaf because exec is one of them: `CombinedOutput` waits for
the pipe of every process the command left behind, and no `WaitDelay` ends that.

`AgentExecutor`: weak fairness for every step of a request but those of the processor,
which runs a tool loop and may be held by a tool. That a step that yields an event ends
supposes that the consumer takes the event or stops.

`ChatStream`: weak fairness for the handler's steps outside the tools, for the timer that
`StreamWithTools` starts for each call, and for the HTTP client giving up a call whose
context has ended. A step that writes to the client is fair only once the client has gone,
since the server has no `WriteTimeout` (`serve.go:249-260`). Nothing is assumed of the API:
it may accept a call and stay silent.

`Serve`: weak fairness for the main goroutine, for the one that waits for the signal
(both of its waits have deadlines of 5 seconds), and for MCP servers no longer being waited
for once the context of `ask` is cancelled. Not for two waits: `HeldByRequest`, in which
closing an MCP session waits for the calls in flight of a request that is still active, and
`HeldByRun`, in which `ask` waits for its tool loop. An MCP server or the LLM may never
answer and a request may never end; `serve` in start-up is ended by the signal itself.

`Dashboard`: weak fairness for each run and its goroutines; every HTTP call ends by the
clients' timeouts of 30 seconds and 5 minutes, `waitForAgent` by its deadline. Nothing
is assumed of the cluster: pods may never start.

`SQLiteStore`, `Batch` and `AgentFiles` have no fairness: their runs check safety only.

## 6. Proofs

A proof module holds for one component the inductive invariant, one lemma per action or
group of actions that preserve it, and the theorems. None of the properties below is
inductive by itself: each speaks of finished rounds, committed tables or ended runs, and
the added conjuncts say how things stand on the way there. Every inductive invariant was
checked by TLC as well, except for `Prompted` of `ChatStream_proofs`, which quantifies over
all sequences of turns. No theorem depends on the bounds of a run; the bounds that are
constants of a module (`MaxTime`, `MaxOps`, `MaxRuns` ...) are any natural numbers. Two
modules hold the proofs of two components side by side; to make that possible `A2ACall` and
`Batch` name their specification and its parts after themselves (`PeerSpec`, `BatchSpec`).

| Module | Properties of the runs that are proved | Assumptions on constants |
|---|---|---|
| `InboundAuth_proofs` | `AdmissionIsSound`, `WarmCacheAdmits`, `RefreshRate`, `NoStaleInstall` | `IntervalAssumption`, `BoundsAssumption`, `TokensAssumption`, `CallersAssumption` |
| `ToolLoop_proofs` | `EveryCallAnswered`, `HookSeesEveryEffect`, `CancellationStops`, `AllowListBinds` | `ToolLoopAssumption`, `NamesAssumption` |
| the same, on `A2ACall` | `VerifiedBeforeInvoke`, `CancellationIsPrivate` | `PeersAssumption` |
| `ChatStream_proofs` | `StreamWellFormed`, `AnswerIsTheModels`, `CallsSurvive`, `PromptReachesModel` | `BoundsAssumption` |
| the same, on `Batch` | `EveryDocumentSent`, `FailureIsPrivate`, `ReportIsExact` | `SizesAssumption`, `ScoresAssumption` |
| `Serve_proofs` | `NothingStaysOpen`, `ClosedAfterUse` | `ServersAssumption` |
| `AgentFiles_proofs` | `PullIsAtomic`, `RememberedIsKept` | `OpsAssumption` |
| `AgentExecutor_proofs` | `CallerIsolation`, `PromptIsConversation`, `KeepsStorePromise` | `ClockAssumption`, `RequestAssumption`, `KeysAssumption`, `SystemAssumption` |
| `SQLiteStore_proofs` | `TablesConsistent`, `SnapshotIsCommitted`, `ImplementsSessionStore`, `ReapsOnlyIdle` | `SQLiteAssumption` |
| `Dashboard_proofs` | `OneRunAtATime`, `CleanupLeavesNothing`, `DoneMeansAnswered`, `EditsSurvive` | `SizesAssumption`, `RetriesAssumption`, `BoundsAssumption` |

**`InboundAuth_proofs`.** First the cache, for any set of callers and kids and any
interval: `TypeOK`, `OneRefresh`, `RefreshRate`, `NoLostWakeup`, `FailsClosed` as
invariants and `NoStaleInstall` as an action property. The inductive invariant adds

- `Channels`: the channel a refresher holds is `refreshDone`, open, and no older
  channel is open; this is what ties a waiter to the refresh that will wake it;
- `Pace`: `lastFetch` is no later than now, and the number of refreshes begun
  before `lastFetch` fits below it; `RefreshRate` alone says nothing about when the
  next refresh may begin;
- `Provenance`: every kid in the cache, and in an answer not yet installed, was
  published; `FailsClosed` speaks only of verdicts;
- `Epochs`: an answer not yet installed is at least as new as the cached set, which
  holds because only one refresh runs (`OneRefresh`).

Then, for any tokens, policy and skew, that the middleware's specification implies the
cache's (`MiddlewareUsesCache`), from which `RefreshRate` and `NoStaleInstall` follow
under the middleware, and `AdmissionIsSound` and `WarmCacheAdmits`. To the cache's
invariant it adds `Judged` (a request under decision has a verdict), `Kept` (a kid never
withdrawn is in every set that was or will be cached once there is one) and `Warm` (a
lookup that began with a fetched set and such a kid is either at its first look or has
the key: it can never have gone to wait or to fetch). Two lemmas carry the decision:
`DenialsDeny` (only a token that passes every check is handed on) and `ChecksArePolicy`
(the checks, in their order, are the policy).

**`ToolLoop_proofs`**, for every configuration, any number of parallel calls and any
iteration limit. The properties speak of rounds that are over; `Shape` says where the
conversation stands (two messages per round, and the calls of the one under way),
`Threads` what each goroutine of that round has written and whether its tool has run,
`Past` that no later round has left a trace, `Heard` which executions the hook has heard
of, and `Late` that the LLM call after a cancellation is not followed by another. The
registry's part is what `BuildRegistry` makes of a configuration: which names bypass the
allow-list and which tool is behind each name.

The same module on **`A2ACall`**, for any callers and peers: also `PeerTypeOK`,
`OneFetchPerPeer`, `NobodyWaitsInVain`. The inductive invariant adds `Flights` (the group's entry names the
leader and nobody else is in flight for that peer), `Joined` (a waiter's peer has an
entry), `Evidence` (a verified mark implies that an authentic card was served), `Fresh`
(a leader about to fetch does so for a peer without a mark) and `Verdict` (a leader's
outcome is what its fetch gave). The lemma `CardVerdict` says what `verifyCard` returns:
verified exactly if some entry is valid.

**`ChatStream_proofs`**, for message lists, answers, texts and tool calls of any length. The
properties compare what the code accumulates, line by line and message by message, with
what a function of the whole would give. The inductive invariant `StreamInv` says how the
two agree on the way:

- `Ordered`: the API opens a tool call once and continues it after that;
- `Collected`: the text and the tool calls accumulated so far are what the lines read so far
  say, and none of those lines ends the answer;
- `Shape`: while the handler runs, the client has the role frame and text frames of a
  stream, and nothing of an answer that is not streamed;
- `Spoken`: what the client has of an answer that is passed through is the text read so far;
- `Prompted`: the conversation is the prompt and then turns, which say what the request's
  messages say before anything else, and whose calls are answered in either provider's form,
  except for those about to run;
- `CallsKept`, `NoneLeft` and `ResultsFollow`, the parts of `CallsSurvive`.

The theorem `TokensAreText` says that the words and spaces `tokenize` cuts a text into are
the text, put together again. All of this is induction over data, for which the library's
rules cannot be used; here it goes through sets: a set of natural numbers that is not empty
has a least member (`NatMin`), so a set that contains 0 and the successor of each member is
`Nat` (`NatInd`), and likewise for sequences (`SeqInd`). With these, the recursive functions
behind `FlattenSeq`, `tokenize` and `splitDocuments` are shown to exist and to be what their
equations say, and flattening is shown to distribute over concatenation.

The same module on **`Batch`**, for any number of documents, agents and results. `Shares`:
what an agent was sent is its share, and the share of worker i in closed form ends at
i * quotient + min(i, remainder), so that the shares are consecutive, cover the documents and
differ by one at most. `Private`: the errgroup's context has ended only if the command's
has. `Slots`: a worker's slot is what its agent answered, whatever documents that names.
`Reported`: the report is a ranking of the rows that the slots hold. `Written`: the output
is a top of the report. That it holds every
result as often as the answers do is a matter of places, not of counting: flattening takes
the places in the slots one to one to the places in the rows, ranking takes those one to one
to places in the report, and sets with a bijection between them have the same number of
members.

**`Serve_proofs`**, for any number of MCP servers and requests. `Owned` ties what is open
to where the main goroutine is; `HandShake` follows the goroutine that shuts the server
down: once Shutdown has returned there is no request left unless its deadline passed,
and the deferred calls run only after that or when the server broke.

**`AgentFiles_proofs`**, for any number of goroutines and calls. No lock orders the system
calls; they do not disturb each other because every call owns a temporary file and a
section of its own (`Numbered`, `Temporary`, `Sections`), and SKILL.md only ever is the
whole file that a rename put there (`Whole`).

**`AgentExecutor_proofs`**, for any requests, callers and ids. A session holds only turns of
requests with its key, each only after its request has come to the append (`Sessions`),
and a prompt is a copy of one (`Prompts`). Isolation then needs that a key determines the
caller. Of callers whose names hold the same number of separators it does: where a name
ends in `sub|azp|id` is told by counting separators (`LongerHoldsMore`, `CountTellsEnd`), so
equal keys have equal subjects and, once these are cut off, equal clients
(`KeyTellsCaller`, `SameKeySameCaller`), provided that inbound auth is on for all requests
or for none (`Callers`). `KeepsStorePromise` is the refinement of `SessionStore` step by step, `Lifecycle`
(`TaskLifecycle`) that the events of a request are those of an A2A task, in their order.

**`SQLiteStore_proofs`**, with statements that fail and crashes anywhere. At each statement
the open transaction is the committed tables and what the statements so far have written
(`Progress`), and the committed rows of a session are numbered without gaps from the
system prompt (`Consistent`), so that the next number is the count of rows (`NextSeqIs`)
and `Load` is the conversation in order (`Ranks`, `LoadIs`). With `LoadCreated` and
`LoadAppended` each commit is one step of `SessionStore` and every other step, crashes
included, a stutter. `TextOrder` says when the comparison of timestamps as text differs
from that of the times.

**`Dashboard_proofs`**, for scenarios of any size and any number of runs, cleanups at the
same time, attempts and edits. `Apart`: as long as no run has met a cleanup, the run under
way is the one in the map. `Cleared`: without a run, all is clean or some cleanup under way
has swept the agents behind it (the last to start, whose start forgot earlier refusals).
`Work` and `Attempts` follow a goroutine through the phases and count what the agent got.
`Configured`: whoever may still put the ConfigMap back has read it as it is, and it names
the document service before there is a deployment.

Some definitions are written as they are for the prover's sake: `Load` in `SQLiteStore` is
defined by how many rows precede a row, not by sorting; `Chars` in `AgentExecutor` and `Ids`
in `ChatStream` name what ids are made of; texts in `Conversation` and `ChatStream` are put
together with `FlattenSeq`; `Places` in `Batch` is the set of places of a result where a
program would count.

Only model-checked are the liveness properties (`EveryRequestAnswered`, `EveryCallReturns`,
`FixedPeerRecovers`, `LoopReturns`, `EveryRequestEnds`, `EveryRequestReturns`,
`SignalEndsProcess`, `EveryRunEnds`): fairness and ENABLED are out of the prover's reach.

`OneRefresh`, `NoLostWakeup`, `FailsClosed`, `OneFetchPerPeer`, `NobodyWaitsInVain` and
`TaskLifecycle` are proved and need no run: the runs check what follows from them.

## 7. Not modelled

- `AgentExecutor.Cancel` yields one event; what stops `Execute` then is the A2A library.
- The health server, telemetry, logging and metrics decide nothing others rely on.
- Retrieval, the egress client, agent cards, the agent context: one stateless call or
  one document each.
- Catalog, manifests, image build and deployment turn one text into another and run
  external commands.
- Inside the modelled parts: the arithmetic of signatures, the canonical form of cards,
  the truncation of long texts, usage figures, the layout of CSV and pages. The
  single-shot `Complete` of the providers is one request.
- `skill delete` and the puller have different default directories; `AgentFiles` is the
  case in which `--dir` names the puller's.
- The dashboard's two addresses of an agent (inside and outside the cluster) are a
  constant; the run uses Routes, the longer way. Scenarios share nothing, so one is
  modelled.

## 8. Plan

Modelled: every component with state that several actors, failures or time act on.
Proved: every safety invariant, action property and refinement that the runs check. What
could still be said: that `DoneMeansAnswered` holds of every run and not only of the one in
the map, and which of the calls survive when the API leaves a gap in its indexes.
