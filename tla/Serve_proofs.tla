---------------------------- MODULE Serve_proofs ----------------------------
(***************************************************************************)
(* Proofs about the life of a docsclaw process, for any number of MCP      *)
(* servers and any set of requests.                                        *)
(*                                                                         *)
(* What is open is a matter of where the main goroutine is; whether a      *)
(* request can still be running is a matter of the handshake with the      *)
(* goroutine that shuts the server down.                                   *)
(***************************************************************************)
EXTENDS Serve, TLAPS

\* The positions before the session store is opened, and before the server
\* accepts a request.
Before == {"config", "load", "connect", "list", "provider", "rag", "run", "otel", "store"}
NotServing == Before \cup {"auth", "listen"}

\* NewManager begins at the first server and ends with the last.
InServers ==
    /\ main \in {"config", "load"} => at = 1
    /\ main \in {"connect", "list"} => at <= NumServers

\* The store and the reaper belong to the time between their opening and
\* closeHandler, the MCP sessions are closed by rt.Close only.
Owned ==
    /\ main \in Before => store = "none" /\ reaper = "none"
    /\ main \in {"closeRuntime", "returned"} => store # "open" /\ reaper # "running"
    /\ store = "closed" => main \in {"closeRuntime", "returned", "killed"}
    /\ main = "config" => \A s \in Servers : conns[s] = "none"
    /\ main = "returned" => \A s \in Servers : conns[s] # "open"
    /\ Running => \A s \in Servers : conns[s] \in {"none", "open"}

Quiet == \A r \in Requests : request[r] # "active"

\* Past Shutdown there is no request left and none can come, unless its deadline
\* has passed; the deferred calls run only after that, or if the server broke.
HandShake ==
    /\ main \in NotServing => Quiet
    /\ watcher \in {"shutdown", "otel", "done"} => listener = "closed"
    /\ watcher \in {"otel", "done"} => expired \/ Quiet
    /\ main = "closeHandler" => broken \/ watcher = "done"
    /\ main = "closeRuntime" => broken \/ expired \/ Quiet

Inv == TypeOK /\ InServers /\ Owned /\ HandShake

\* Nothing is open before the process starts.
LEMMA InitInv == Init => Inv
  <1> SUFFICES ASSUME Init PROVE Inv
    OBVIOUS
  <1>1. TypeOK
    <2>1. cmd \in {"serve", "ask"} /\ main \in Mains /\ at \in 1 .. NumServers + 1
      BY ServersAssumption DEF Init, Mains
    <2>2. /\ conns \in [Servers -> {"none", "open", "closed", "failed"}]
          /\ request \in [Requests -> {"none", "active", "over"}]
      BY DEF Init
    <2> QED
      BY <2>1, <2>2 DEF Init, TypeOK
  <1>2. InServers /\ Owned /\ HandShake
    BY DEF Init, InServers, Owned, HandShake, Quiet, Before, NotServing, Running
  <1> QED
    BY <1>1, <1>2 DEF Inv

\* Manager.Close leaves no session open.
LEMMA CloseConnsEffect ==
    ASSUME TypeOK, NEW bad \in SUBSET Servers
    PROVE  /\ CloseConns(bad) \in [Servers -> {"none", "open", "closed", "failed"}]
           /\ \A s \in Servers : CloseConns(bad)[s] # "open"
  BY DEF CloseConns, TypeOK

\* The ways out of the process that run the closers.
LEMMA ReturnStep ==
    ASSUME Inv, BuildFails, main \in Before \cup {"closeRuntime"}
    PROVE  Inv'
  <1> USE DEF Inv
  <1>1. /\ main' = "returned"
        /\ UNCHANGED <<buildVars, cancelled, signalled, serveVars>>
        /\ conns' \in [Servers -> {"none", "open", "closed", "failed"}]
        /\ \A s \in Servers : conns'[s] # "open"
    BY CloseConnsEffect DEF BuildFails
  <1>2. TypeOK'
    BY <1>1 DEF TypeOK, Mains, buildVars, serveVars
  <1>3. store # "open" /\ reaper # "running"
    BY DEF Owned
  <1>4. InServers' /\ Owned'
    BY <1>1, <1>3 DEF InServers, Owned, Running, Before, serveVars
  <1>5. HandShake'
    BY <1>1 DEF HandShake, Quiet, NotServing, Before, serveVars
  <1> QED
    BY <1>2, <1>4, <1>5

\* The steps of buildRuntime and ask that go on.
LEMMA BuildStep ==
    ASSUME Inv,
           LoadConfig \/ Load \/ Connect \/ ListTools \/ NewProvider \/ Built \/ AskReturns
    PROVE  Inv'
  <1> USE ServersAssumption DEF Inv
  <1>1. /\ main \in Before
        /\ main' \in Before \cup {"closeRuntime", "returned"}
        /\ UNCHANGED <<cmd, cancelled, signalled, serveVars>>
        /\ registry' \in BOOLEAN /\ provider' \in BOOLEAN
        /\ main' = "returned" => main = "config"
    BY DEF LoadConfig, Load, Connect, ListTools, NewProvider, Built, AskReturns, Before,
           TypeOK, buildVars
  <1>2. /\ conns' \in [Servers -> {"none", "open", "closed", "failed"}]
        /\ \A s \in Servers : conns'[s] \in {"none", "open"}
    BY DEF LoadConfig, Load, Connect, ListTools, NewProvider, Built, AskReturns, TypeOK,
           Owned, Running
  <1>3. at' \in 1 .. NumServers + 1 /\ InServers'
    BY DEF LoadConfig, Load, Connect, ListTools, NewProvider, Built, AskReturns, TypeOK,
           InServers, buildVars
  <1>4. TypeOK'
    BY <1>1, <1>2, <1>3 DEF TypeOK, Mains, Before, serveVars
  <1>5. Owned'
    <2>1. /\ store' = "none" /\ reaper' = "none"
          /\ main' # "config"
          /\ main' = "returned" => \A s \in Servers : conns'[s] = "none"
      BY <1>1 DEF Owned, serveVars, LoadConfig, Load, Connect, ListTools, NewProvider,
                  Built, AskReturns
    <2> QED
      BY <1>1, <1>2, <2>1 DEF Owned, Running
  <1>6. HandShake'
    BY <1>1 DEF HandShake, Quiet, NotServing, Before, serveVars
  <1> QED
    BY <1>3, <1>4, <1>5, <1>6

\* newServeHandler opens the store, or fails.
LEMMA HandlerStep ==
    ASSUME Inv,
           OtelInit \/ MemoryStore \/ OpenDatabase \/ OpenFails \/ AuthFails \/ HandlerReady
    PROVE  Inv'
  <1> USE DEF Inv
  <1>1. /\ main \in {"otel", "store", "auth"}
        /\ main' \in {"store", "auth", "listen", "closeRuntime"}
        /\ UNCHANGED <<buildVars, conns, cancelled, signalled, listener, request, expired,
                       broken>>
        /\ watcher' \in {watcher, "starting"}
    BY DEF OtelInit, MemoryStore, OpenDatabase, OpenFails, AuthFails, HandlerReady,
           serveVars
  <1>2. /\ store' \in {"none", "memory", "open", "leaked", "closed"}
        /\ reaper' \in {"none", "running", "cancelled", "gone"}
        /\ main' = "store" => store' = "none" /\ reaper' = "none"
        /\ main' = "closeRuntime" => store' # "open" /\ reaper' # "running"
        /\ store' = "closed" => main' = "closeRuntime"
    BY DEF OtelInit, MemoryStore, OpenDatabase, OpenFails, AuthFails, HandlerReady,
           serveVars, CloseHandler, StartReaper, Owned, TypeOK, Before
  <1>3. TypeOK'
    BY <1>1, <1>2 DEF TypeOK, Mains, buildVars
  <1>4. InServers' /\ Owned'
    BY <1>1, <1>2 DEF InServers, Owned, Running, Before, buildVars
  <1>5. HandShake'
    BY <1>1 DEF HandShake, Quiet, NotServing, Before
  <1> QED
    BY <1>3, <1>4, <1>5

\* The server listens, and runServe returns from it.
LEMMA ServeStep ==
    ASSUME Inv, Listen \/ ListenFails \/ AwaitDone \/ DeferredCloseHandler
    PROVE  Inv'
  <1> USE DEF Inv
  <1>1. /\ main \in {"listen", "listening", "await", "closeHandler"}
        /\ main' \in {"listening", "await", "closeHandler", "closeRuntime"}
        /\ UNCHANGED <<buildVars, conns, cancelled, signalled, listener, watcher, request,
                       expired>>
        /\ broken' \in BOOLEAN /\ (broken => broken')
        /\ main' = "closeHandler" => broken' \/ watcher = "done"
        /\ main' = "closeRuntime" => main = "closeHandler"
    BY DEF Listen, ListenFails, AwaitDone, DeferredCloseHandler, serveVars, TypeOK
  <1>2. /\ store' \in {"none", "memory", "open", "leaked", "closed"}
        /\ reaper' \in {"none", "running", "cancelled", "gone"}
        /\ main' = "closeRuntime" => store' # "open" /\ reaper' # "running"
        /\ store' = "closed" => main' = "closeRuntime"
    BY DEF Listen, ListenFails, AwaitDone, DeferredCloseHandler, serveVars, CloseHandler,
           Owned, TypeOK
  <1>3. TypeOK'
    BY <1>1, <1>2 DEF TypeOK, Mains, buildVars
  <1>4. InServers' /\ Owned'
    BY <1>1, <1>2 DEF InServers, Owned, Running, Before, buildVars
  <1>5. HandShake'
    BY <1>1 DEF HandShake, Quiet, NotServing, Before
  <1> QED
    BY <1>3, <1>4, <1>5

\* The goroutine for signals, and the reaper.
LEMMA BackgroundStep ==
    ASSUME Inv, WatcherStep \/ ReaperExits
    PROVE  Inv'
  <1> USE DEF Inv, WatcherStep
  <1>1. /\ UNCHANGED <<main, buildVars, conns, cancelled, signalled, store, request, broken>>
        /\ expired' \in BOOLEAN /\ (expired => expired')
        /\ listener' \in {listener, "closed"}
        /\ reaper' \in {reaper, "gone"} /\ (reaper' # reaper => reaper = "cancelled")
    BY DEF Notify, Shutdown, Drained, GraceExpires, OtelShutdown, ReaperExits, TypeOK
  <1>2. /\ watcher' \in {watcher, "waiting", "shutdown", "otel", "done"}
        /\ watcher = "done" => watcher' = "done"
        /\ watcher' \in {"shutdown", "otel", "done"} => listener' = "closed"
        /\ watcher' \in {"otel", "done"} => expired' \/ Quiet
    BY DEF Notify, Shutdown, Drained, GraceExpires, OtelShutdown, ReaperExits, HandShake,
           Quiet
  <1>3. TypeOK'
    BY <1>1, <1>2 DEF TypeOK, buildVars
  <1>4. InServers' /\ Owned'
    BY <1>1 DEF InServers, Owned, Running, Before, buildVars
  <1>5. HandShake'
    BY <1>1, <1>2 DEF HandShake, Quiet
  <1> QED
    BY <1>3, <1>4, <1>5

\* A signal reaches the process.
LEMMA SignalStep ==
    ASSUME Inv, Signal
    PROVE  Inv'
  <1> USE DEF Inv
  <1>1. /\ UNCHANGED <<buildVars, conns, store, reaper, listener, request, expired, broken>>
        /\ signalled' = TRUE
        /\ \/ cancelled' = TRUE /\ UNCHANGED <<main, watcher>>
           \/ watcher = "waiting" /\ watcher' = "notified" /\ UNCHANGED <<main, cancelled>>
           \/ main' = "killed" /\ UNCHANGED <<cancelled, watcher>>
    BY DEF Signal
  <1>2. TypeOK'
    <2>1. main' \in Mains
      BY <1>1 DEF TypeOK, Mains
    <2>2. watcher' \in {"none", "starting", "waiting", "notified", "shutdown", "otel", "done"}
      BY <1>1 DEF TypeOK
    <2>3. cancelled' \in BOOLEAN /\ signalled' \in BOOLEAN
      BY <1>1 DEF TypeOK
    <2> QED
      BY <1>1, <2>1, <2>2, <2>3 DEF TypeOK, buildVars
  <1>3. InServers' /\ Owned'
    BY <1>1 DEF InServers, Owned, Running, Before, buildVars
  <1>4. HandShake'
    BY <1>1 DEF HandShake, Quiet, NotServing, Before
  <1> QED
    BY <1>2, <1>3, <1>4

\* A request arrives or is answered.
LEMMA RequestStep ==
    ASSUME Inv, NEW r \in Requests, Accept(r) \/ HandlerReturns(r)
    PROVE  Inv'
  <1> USE DEF Inv
  <1>1. /\ UNCHANGED <<main, buildVars, conns, cancelled, signalled, store, reaper, listener,
                       watcher, expired, broken>>
        /\ request' \in [Requests -> {"none", "active", "over"}]
        /\ ~Quiet' => ~Quiet \/ (main = "listening" /\ listener = "open")
    BY DEF Accept, HandlerReturns, TypeOK, Quiet
  <1>2. TypeOK'
    BY <1>1 DEF TypeOK, buildVars
  <1>3. InServers' /\ Owned'
    BY <1>1 DEF InServers, Owned, Running, buildVars
  <1>4. HandShake'
    BY <1>1 DEF HandShake, NotServing, Before
  <1> QED
    BY <1>2, <1>3, <1>4

\* Inv is inductive.
LEMMA InvStep ==
    ASSUME Inv, [Next]_vars
    PROVE  Inv'
  <1>1. CASE UNCHANGED vars
    BY <1>1 DEF vars, buildVars, Inv, TypeOK, InServers, Owned, HandShake, Quiet, Running
  <1>2. CASE Ended
    BY <1>1, <1>2 DEF Ended
  <1>3. CASE \/ LoadFails \/ ProviderFails \/ RAGFails \/ ConnectFails \/ ListFails
             \/ CloseRuntime
    BY <1>3, ReturnStep DEF LoadFails, ProviderFails, RAGFails, ConnectFails, ListFails,
                            CloseRuntime, Before
  <1> QED
    BY <1>1, <1>2, <1>3, BuildStep, HandlerStep, ServeStep, BackgroundStep, SignalStep,
       RequestStep
       DEF Next, MainStep, ExternalStep

\* On every path through start-up, failure and shutdown, what is open belongs to
\* someone who will close it (internal/cmd/serve.go and runtime.go).
THEOREM Invariance == Spec => []Inv
  BY InitInv, InvStep, PTL DEF Spec

---------------------------------------------------------------------------
(* The properties *)

\* When a command returns, whichever step failed, no MCP session, database or
\* reaper is left (runtime.go:104-111, mcpclient.go:64-90, the deferred calls of
\* runServe).
THEOREM AllClosed == Spec => []NothingStaysOpen
  <1>1. Inv => NothingStaysOpen
    BY DEF Inv, Owned, NothingStaysOpen
  <1> QED
    BY <1>1, Invariance, PTL

\* Nothing is closed under a request that is being handled, but after the 5
\* seconds of Shutdown or a failure of the server (serve.go:320-327).
THEOREM InUseIsOpen == Spec => []ClosedAfterUse
  <1>1. Inv => ClosedAfterUse
    BY DEF Inv, Owned, HandShake, Quiet, Running, ClosedAfterUse
  <1> QED
    BY <1>1, Invariance, PTL
=============================================================================
