--------------------------- MODULE AgentExecutor ----------------------------
(***************************************************************************)
(* AgentExecutor.Execute of internal/bridge/executor.go: A2A requests run  *)
(* concurrently, read and extend the conversation of their session, and    *)
(* report their progress as task events.  The reaper of the store runs     *)
(* beside them.                                                            *)
(*                                                                         *)
(* Each call on the store is one hold of its mutex, so one action; between *)
(* two of them anything may happen.  The processor (the tool loop) and the *)
(* consumer of the events (the a2asrv library) are external.               *)
(***************************************************************************)
EXTENDS MemoryStore, FiniteSets

CONSTANTS
    Reqs,           \* requests
    Claims,         \* identities the auth middleware may verify
    NoClaims,       \* no verified identity: inbound auth is off
    Chars,          \* characters
    SessionIds,     \* values of x-session-id, sequences of characters
    MaxIdLen,       \* the length a session id is cut to (64 in the code)
    Separator,      \* the character between the parts of a session key
    StoreFails      \* the store is SQLite and may report errors

VARIABLES
    agent,      \* [configured, sessions]: what newServeHandler wired up
    req,        \* what each request carries
    pc,         \* where each request is in Execute
    prompt,     \* the messages handed to ProcessMessage
    events      \* the events yielded so far

vars == <<store, agent, req, pc, prompt, events>>

---------------------------------------------------------------------------
(* Session keys. *)

Cut(id) == SubSeq(id, 1, IF Len(id) > MaxIdLen THEN MaxIdLen ELSE Len(id))

Join(a, b) == a \o (<<Separator>> \o b)

\* Mutant: the client (azp) is left out of the key.
sessionKey_NoClient(claims, id) ==
    CASE id = <<>> -> <<>>
      [] id # <<>> /\ claims = NoClaims -> id
      [] OTHER -> Join(claims.sub, id)

sessionKey(claims, id) ==
    CASE id = <<>> -> <<>>
      [] id # <<>> /\ claims = NoClaims -> id
      [] OTHER -> Join(claims.sub, Join(claims.azp, id))

Key(r) == sessionKey(req[r].claims, Cut(req[r].id))

\* Identities and session ids are strings, and StoreFails a choice of backend.
ASSUME RequestAssumption ==
    /\ Claims \subseteq [sub : Seq(Chars), azp : Seq(Chars)]
    /\ NoClaims \notin Claims
    /\ Separator \in Chars
    /\ SessionIds \subseteq Seq(Chars)
    /\ MaxIdLen \in Nat
    /\ StoreFails \in BOOLEAN

ASSUME KeysAssumption ==
    \A c \in Claims \cup {NoClaims}, id \in SessionIds \ {<<>>} :
        sessionKey(c, Cut(id)) \in Keys

\* Conversation state on the server: the store is wired and the key not empty.
Stateful(r) == agent.sessions /\ Key(r) # <<>>

User(r) == [role |-> "user", req |-> r]

Assistant(r) == [role |-> "assistant", req |-> r]
Turns == [role : {"user", "assistant"}, req : Reqs]

\* The system message has a role of its own.
ASSUME SystemAssumption == System \notin Turns

PCs == {"start", "submitted", "working", "create", "append", "process", "save",
        "artifact", "complete", "fail", "end"}
Events == {"submitted", "working", "artifact", "completed", "failed"}

TypeOK ==
    /\ sessions \in [Keys -> [messages : Seq(Turns \cup {System}), lastActive : Nat]]
    /\ now \in 0 .. MaxTime
    /\ agent \in [configured : BOOLEAN, sessions : BOOLEAN]
    /\ req \in [Reqs -> [claims : Claims \cup {NoClaims}, id : SessionIds, new : BOOLEAN]]
    /\ pc \in [Reqs -> PCs]
    /\ prompt \in [Reqs -> Seq(Turns \cup {System})]
    /\ events \in [Reqs -> Seq(Events)]

\* Inbound auth is on for every request or for none.
Init ==
    /\ StoreInit
    /\ agent \in [configured : BOOLEAN, sessions : BOOLEAN]
    /\ \E auth \in BOOLEAN :
          req \in [Reqs -> [claims : IF auth THEN Claims ELSE {NoClaims},
                            id : SessionIds, new : BOOLEAN]]
    /\ pc = [r \in Reqs |-> "start"]
    /\ prompt = [r \in Reqs |-> <<>>]
    /\ events = [r \in Reqs |-> <<>>]

---------------------------------------------------------------------------
(* Execute. *)

Goto(r, l) == pc' = [pc EXCEPT ![r] = l]

\* yield(e): the consumer takes the event and asks for more, or stops.
Yield(r, e, next) ==
    /\ events' = [events EXCEPT ![r] = Append(@, e)]
    /\ \/ Goto(r, next)
       \/ Goto(r, "end")

\* StoredTask == nil: the task is new.
Submit(r) ==
    /\ pc[r] = "start"
    /\ IF req[r].new
       THEN Yield(r, "submitted", "submitted")
       ELSE Goto(r, "submitted") /\ UNCHANGED events
    /\ UNCHANGED <<store, agent, req, prompt>>

Work(r) ==
    /\ pc[r] = "submitted"
    /\ Yield(r, "working", "working")
    /\ UNCHANGED <<store, agent, req, prompt>>

NotConfigured(r) ==
    /\ pc[r] = "working"
    /\ ~agent.configured
    /\ Goto(r, "fail")
    /\ UNCHANGED <<store, agent, req, prompt, events>>

BeginSession(r) ==
    /\ pc[r] = "working"
    /\ agent.configured
    /\ Stateful(r)
    /\ Goto(r, "create")
    /\ UNCHANGED <<store, agent, req, prompt, events>>

Stateless(r) ==
    /\ pc[r] = "working"
    /\ agent.configured
    /\ ~Stateful(r)
    /\ prompt' = [prompt EXCEPT ![r] = <<System, User(r)>>]
    /\ Goto(r, "process")
    /\ UNCHANGED <<store, agent, req, events>>

SessionsGetOrCreate(r) ==
    /\ pc[r] = "create"
    /\ GetOrCreate(Key(r))
    /\ Goto(r, "append")
    /\ UNCHANGED <<agent, req, prompt, events>>

SessionsAppendAndSnapshot(r) ==
    /\ pc[r] = "append"
    /\ AppendMessage(Key(r), User(r))
    /\ prompt' = [prompt EXCEPT ![r] = Snapshot(Key(r), User(r))]
    /\ Goto(r, "process")
    /\ UNCHANGED <<agent, req, events>>

\* Mutant: GetOrCreate is tried again for ever.
SessionError_Retries(r) ==
    /\ StoreFails
    /\ pc[r] = "create"
    /\ Goto(r, "working")
    /\ UNCHANGED <<store, agent, req, prompt, events>>

\* GetOrCreate or AppendAndSnapshot reports an error.  The latter may have
\* committed the message before it failed to load the conversation.
SessionError(r) ==
    /\ StoreFails
    /\ pc[r] \in {"create", "append"}
    /\ \/ UNCHANGED store
       \/ pc[r] = "append" /\ AppendMessage(Key(r), User(r))
    /\ Goto(r, "fail")
    /\ UNCHANGED <<agent, req, prompt, events>>

ProcessFails(r) ==
    /\ pc[r] = "process"
    /\ Goto(r, "fail")
    /\ UNCHANGED <<store, agent, req, prompt, events>>

ProcessReturns(r) ==
    /\ pc[r] = "process"
    /\ Goto(r, IF Stateful(r) THEN "save" ELSE "artifact")
    /\ UNCHANGED <<store, agent, req, prompt, events>>

\* Append(assistant): an error is logged and the request goes on.
SessionsAppend(r) ==
    /\ pc[r] = "save"
    /\ \/ AppendMessage(Key(r), Assistant(r))
       \/ StoreFails /\ UNCHANGED store
    /\ Goto(r, "artifact")
    /\ UNCHANGED <<agent, req, prompt, events>>

WriteArtifact(r) ==
    /\ pc[r] = "artifact"
    /\ Yield(r, "artifact", "complete")
    /\ UNCHANGED <<store, agent, req, prompt>>

Complete(r) ==
    /\ pc[r] = "complete"
    /\ Yield(r, "completed", "end")
    /\ UNCHANGED <<store, agent, req, prompt>>

Fail(r) ==
    /\ pc[r] = "fail"
    /\ Yield(r, "failed", "end")
    /\ UNCHANGED <<store, agent, req, prompt>>

---------------------------------------------------------------------------

ExecuteStep(r) ==
    \/ Submit(r) \/ Work(r) \/ NotConfigured(r) \/ BeginSession(r) \/ Stateless(r)
    \/ SessionsGetOrCreate(r) \/ SessionsAppendAndSnapshot(r) \/ SessionError(r)
    \/ ProcessFails(r) \/ ProcessReturns(r) \/ SessionsAppend(r)
    \/ WriteArtifact(r) \/ Complete(r) \/ Fail(r)

Reaper == Reap /\ UNCHANGED <<agent, req, pc, prompt, events>>

\* A tick is a large part of the TTL of 30 minutes; none passes between
\* GetOrCreate and AppendAndSnapshot, which are adjacent statements.
Clock ==
    /\ \A r \in Reqs : pc[r] # "append"
    /\ Tick
    /\ UNCHANGED <<agent, req, pc, prompt, events>>

\* Every request has been served.
Served == (\A r \in Reqs : pc[r] = "end") /\ UNCHANGED vars

Next ==
    \/ \E r \in Reqs : ExecuteStep(r)
    \/ Reaper
    \/ Clock
    \/ Served

Spec == Init /\ [][Next]_vars

\* Each request is served by a goroutine of its own.  Nothing is assumed of the
\* processor: a tool of its loop may never return (see LoopReturns in ToolLoop).
Fairness == \A r \in Reqs : WF_vars(ExecuteStep(r) /\ pc[r] # "process")
FairSpec == Spec /\ Fairness

---------------------------------------------------------------------------
(* Properties *)

IsPrefixOf(s, t) == Len(s) <= Len(t) /\ SubSeq(t, 1, Len(s)) = s

\* The events of a request are a prefix of the life of an A2A task: one
\* terminal event at most, never an artifact of a failed task, never a
\* terminal event before working (executor.go:41-141).
TaskLifecycle ==
    \A r \in Reqs :
        LET first == IF req[r].new THEN <<"submitted", "working">> ELSE <<"working">> IN
        \/ IsPrefixOf(events[r], first \o <<"artifact", "completed">>)
        \/ IsPrefixOf(events[r], first \o <<"failed">>)

Separators(part) == {i \in 1 .. Len(part) : part[i] = Separator}

\* Subject and client of both callers hold equally many separators.
Alike(c, d) ==
    /\ Cardinality(Separators(c.sub)) = Cardinality(Separators(d.sub))
    /\ Cardinality(Separators(c.azp)) = Cardinality(Separators(d.azp))

\* What sessionKey (executor.go:145-155) does isolate.  It is to do so "per verified
\* caller", but joins the names as they are: a prompt may hold turns of another
\* caller, but only if the names of the two hold a different number of
\* separators.  So subjects that are all plain, or all of the form auth0|x, never
\* meet, whatever ids the callers send; a|b of no client and a of client b may.
CallerIsolation ==
    \A r \in Reqs : \A i \in 1 .. Len(prompt[r]) :
        prompt[r][i] # System =>
            LET q == prompt[r][i].req IN
            \/ req[q].claims = req[r].claims
            \/ ~Alike(req[q].claims, req[r].claims)

\* A stateful prompt is a conversation: it opens with the system prompt, its
\* last turn is this request's own, and no turn occurs twice, whatever other
\* requests append at the same time.  The exception is a session reaped between
\* GetOrCreate and AppendAndSnapshot, whose prompt is empty (executor.go:95-107).
PromptIsConversation ==
    \A r \in Reqs : prompt[r] # <<>> =>
        /\ prompt[r][1] = System
        /\ prompt[r][Len(prompt[r])] = User(r)
        /\ \A i, j \in 1 .. Len(prompt[r]) : prompt[r][i] = prompt[r][j] => i = j

\* The conversations change as session.SessionStore promises, under all the
\* concurrent requests and the reaper.
Promised == INSTANCE SessionStore WITH
    Messages <- Turns,
    conversation <- [k \in Keys |-> sessions[k].messages]
KeepsStorePromise == Promised!Spec

\* Every request ends, whatever the store reports and wherever the consumer stops,
\* unless it is for ever in the processor, and its events follow the life cycle
\* of a task all the way (executor.go:41-141).
EveryRequestEnds ==
    /\ []TaskLifecycle
    /\ \A r \in Reqs : <>(pc[r] = "end") \/ <>[](pc[r] = "process")

=============================================================================
