-------------------------- MODULE ToolLoop_proofs ---------------------------
(***************************************************************************)
(* Proofs about the agentic tool loop and its registry, for every          *)
(* configuration, any number of parallel calls and any iteration limit.    *)
(*                                                                         *)
(* The properties speak of finished rounds; what carries them through a    *)
(* round is the bookkeeping of its goroutines (Threads) and of where the   *)
(* conversation stands (Shape).  The a2a_call tool, which the loop runs    *)
(* like any other, follows at the end.                                     *)
(***************************************************************************)
EXTENDS ToolLoop, A2ACall, SequenceTheorems, TLAPS

\* The positions at which the calls of a round have not been answered.
Open == {"run", "ctxError"}

\* The conversation is two messages per finished round, and the calls of the
\* round under way.
Shape ==
    /\ Len(messages) = IF pc \in Open THEN 2 * iter + 1 ELSE 2 * iter
    /\ pc \in Open => messages[2 * iter + 1] = [role |-> "assistant", calls |-> calls]
    /\ pc \in {"await", "run"} => iter < MaxIterations

\* The two messages of round k answer each other, and tell what ran.
Round(k) ==
    LET asked == messages[2 * k - 1] told == messages[2 * k] IN
    /\ asked.role = "assistant" /\ told.role = "tool"
    /\ Len(told.results) = Len(asked.calls)
    /\ \A i \in 1 .. Len(asked.calls) :
          /\ told.results[i].id = asked.calls[i].id
          /\ told.results[i].kind \in {"ok", "error"} <=> <<k - 1, i>> \in ran

Rounds == \A k \in 1 .. iter : Round(k)

\* Each goroutine of the round under way has written what became of its own
\* call, and its tool has run if and only if it got that far.
Thread(i) ==
    /\ i <= Len(calls) <=> g[i] # "none"
    /\ g[i] = "finished" =>
          /\ results[i] \in Results
          /\ results[i].id = calls[i].id
          /\ results[i].kind \in {"ok", "error"} <=> <<iter, i>> \in ran
    /\ g[i] \in {"exec", "ok", "error"} => <<iter, i>> \in ran
    /\ g[i] \in {"none", "spawned", "allowed"} => <<iter, i>> \notin ran

Threads == pc = "run" => \A i \in Slots : Thread(i)

\* No tool ran in a round that has not begun.
Past == \A e \in ran : e[1] < iter \/ (e[1] = iter /\ pc \in Open)

\* The hook has heard of every tool that ran and whose goroutine is over.
Heard ==
    /\ observed \subseteq ran
    /\ HasHook => \A e \in ran :
          e \in observed \/ (pc = "run" /\ e[1] = iter /\ g[e[2]] # "finished")

\* An LLM call after the cancellation is the last.
Late ==
    /\ lateCalls <= 1
    /\ ~cancelled \/ pc = "head" => lateCalls = 0

\* What ran was among the definitions.
Offered == \A e \in ran : messages[2 * e[1] + 1].calls[e[2]].name \in toolDefs

\* The loop works with the registry that buildRuntime made.
Setup == registry = BuildRegistry(cfg) /\ toolDefs = Definitions(registry)

Inv == /\ TypeOK /\ Setup /\ Shape /\ Rounds /\ Threads /\ Past /\ Heard /\ Late /\ Offered

---------------------------------------------------------------------------
(* The registry *)

\* The registry of a configuration: which names bypass the allow-list, and which
\* tools are behind them.
LEMMA RegistryOf ==
    ASSUME NEW c \in ToolConfigs
    PROVE  /\ BuildRegistry(c) \in Registries
           /\ \A n \in Names : Get(BuildRegistry(c), n) \in Gated =>
                 n \in c.allowed \/ c.allowed = {} \/ n \in c.mcp
  <1> DEFINE r0 == NewRegistry(c.allowed)
             r1 == Register(r0, Builtins, "builtin")
             r2 == RegisterAlwaysAllowed(r1, c.mcp, "mcp")
             n3 == When(c.rag, {"rag_search"})
             r3 == RegisterAlwaysAllowed(r2, n3, "rag")
             n4 == When(c.docs, {"fetch_document"})
             r4 == Register(r3, n4, "docs")
             n5 == When("a2a_call" \in c.allowed /\ c.peers, {"a2a_call"})
             r5 == Register(r4, n5, "a2a")
             n6 == When(c.skills, {"load_skill"})
             r6 == RegisterAlwaysAllowed(r5, n6, "skills")
  <1>1. BuildRegistry(c) = r6
    BY DEF BuildRegistry
  <1>2. /\ n3 \subseteq {"rag_search"} /\ n4 \subseteq {"fetch_document"}
        /\ n5 \subseteq {"a2a_call"} /\ n6 \subseteq {"load_skill"}
        /\ c.mcp \in SUBSET Names /\ c.allowed \in SUBSET Names
    BY DEF When, ToolConfigs
  <1>3. /\ n3 \in SUBSET Names /\ n4 \in SUBSET Names /\ n5 \in SUBSET Names
        /\ n6 \in SUBSET Names /\ Builtins \in SUBSET Names
    BY <1>2, NamesAssumption
  <1>4. /\ "builtin" \in Origins /\ "docs" \in Origins /\ "a2a" \in Origins
        /\ "mcp" \in Origins /\ "rag" \in Origins /\ "skills" \in Origins
    BY DEF Origins, Gated, Trusted
  <1>5. r0 \in Registries /\ r0.allowedFilter = c.allowed /\ r0.alwaysAllowed = {}
    BY <1>2 DEF NewRegistry, Registries
  <1> HIDE DEF r0, n3, n4, n5, n6
  <1>6. r1 \in Registries /\ r1.allowedFilter = c.allowed /\ r1.alwaysAllowed = {}
    BY <1>3, <1>4, <1>5 DEF Register, Registries
  <1> HIDE DEF r1
  <1>7. r2 \in Registries /\ r2.allowedFilter = c.allowed /\ r2.alwaysAllowed = c.mcp
    BY <1>2, <1>4, <1>6 DEF RegisterAlwaysAllowed, Register, Registries
  <1> HIDE DEF r2
  <1>8. /\ r3 \in Registries /\ r3.allowedFilter = c.allowed
        /\ r3.alwaysAllowed = c.mcp \cup n3
        /\ \A n \in n3 : r3.tools[n] = "rag"
    BY <1>3, <1>4, <1>7 DEF RegisterAlwaysAllowed, Register, Registries
  <1> HIDE DEF r3
  <1>9. /\ r4 \in Registries /\ r4.allowedFilter = c.allowed
        /\ r4.alwaysAllowed = c.mcp \cup n3
        /\ \A n \in n3 : r4.tools[n] = "rag"
    BY <1>2, <1>3, <1>4, <1>8 DEF Register, Registries
  <1> HIDE DEF r4
  <1>10. /\ r5 \in Registries /\ r5.allowedFilter = c.allowed
         /\ r5.alwaysAllowed = c.mcp \cup n3
         /\ \A n \in n3 : r5.tools[n] = "rag"
    BY <1>2, <1>3, <1>4, <1>9 DEF Register, Registries
  <1> HIDE DEF r5
  <1>11. /\ r6 \in Registries /\ r6.allowedFilter = c.allowed
         /\ r6.alwaysAllowed = c.mcp \cup n3 \cup n6
         /\ \A n \in n3 : r6.tools[n] = "rag"
         /\ \A n \in n6 : r6.tools[n] = "skills"
    BY <1>2, <1>3, <1>4, <1>10 DEF RegisterAlwaysAllowed, Register, Registries
  <1> HIDE DEF r6
  <1> QED
    BY <1>1, <1>11 DEF Get, Admits, Gated, NoTool

\* Get and Definitions filter alike: what can be run has been offered.
LEMMA GetIsOffered ==
    ASSUME NEW r \in Registries, NEW n \in Names, Get(r, n) # NoTool
    PROVE  n \in Definitions(r)
  BY DEF Get, Definitions, Admits

---------------------------------------------------------------------------
(* The inductive invariant *)

\* No call before the first completion.
LEMMA InitInv == Init => Inv
  <1> SUFFICES ASSUME Init PROVE Inv
    OBVIOUS
  <1>1. TypeOK
    <2>1. cfg \in ToolConfigs /\ registry \in Registries
      BY RegistryOf, ToolLoopAssumption DEF Init
    <2>2. toolDefs \subseteq Names
      BY DEF Init, Definitions
    <2>3. /\ g \in [Slots -> GStates]
          /\ results \in [Slots -> Results \cup {Empty}]
      BY DEF Init, GStates
    <2>4. /\ messages \in Seq(Messages) /\ calls \in Seq(ToolCalls)
          /\ Len(calls) <= MaxCalls
      BY ToolLoopAssumption DEF Init
    <2>5. pc \in PCs /\ iter \in 0 .. MaxIterations /\ lateCalls \in Nat
      BY ToolLoopAssumption DEF Init, PCs
    <2>6. cfg \in Configs /\ ran \subseteq (Nat \X Slots) /\ observed \subseteq (Nat \X Slots)
      BY DEF Init
    <2>7. cancelled \in BOOLEAN
      BY DEF Init
    <2> QED
      BY <2>1, <2>2, <2>3, <2>4, <2>5, <2>6, <2>7 DEF TypeOK
  <1>2. Setup
    BY DEF Init, Setup
  <1>3. Shape /\ Rounds /\ Threads
    BY ToolLoopAssumption DEF Init, Shape, Open, Rounds, Threads
  <1>4. Past /\ Heard /\ Late /\ Offered
    BY DEF Init, Past, Heard, Late, Offered
  <1> QED
    BY <1>1, <1>2, <1>3, <1>4 DEF Inv

\* Steps that only move the loop, outside a round or to the end of one.
LEMMA MoveStep ==
    ASSUME Inv, CallLLM \/ MaxIterationsReached \/ LLMFails \/ LLMAnswers
                \/ WaitCancelled \/ Cancel
    PROVE  Inv'
  <1> USE ToolLoopAssumption DEF Inv
  <1>0. /\ UNCHANGED <<config, iter, messages, calls, g, results, ran, observed>>
        /\ pc' \in PCs
        /\ pc' = "run" => pc = "run"
        /\ pc' \in Open <=> pc \in Open
        /\ pc' = "await" => iter < MaxIterations
        /\ pc' # pc /\ pc = "run" => AllFinished
    BY DEF CallLLM, MaxIterationsReached, LLMFails, LLMAnswers, WaitCancelled, Cancel,
           PCs, Returned, Open, history, TypeOK, Shape
  <1>1. TypeOK'
    <2>1. lateCalls' \in Nat
      BY DEF TypeOK, CallLLM, MaxIterationsReached, LLMFails, LLMAnswers,
             WaitCancelled, Cancel, history
    <2>2. cancelled' \in BOOLEAN
      BY DEF TypeOK, CallLLM, MaxIterationsReached, LLMFails, LLMAnswers,
             WaitCancelled, Cancel
    <2> QED
      BY <1>0, <2>1, <2>2 DEF TypeOK, config
  <1>2. Setup'
    BY <1>0 DEF Setup, config
  <1>3. Shape'
    BY <1>0 DEF Shape, config
  <1>4. Rounds'
    BY <1>0 DEF Rounds, Round
  <1>5. Threads'
    BY <1>0 DEF Threads, Thread
  <1>6. Past'
    BY <1>0 DEF Past
  <1>7. Heard'
    BY <1>0 DEF Heard, AllFinished, TypeOK, Threads, Thread
  <1>8. Late'
    BY DEF Late, CallLLM, MaxIterationsReached, LLMFails, LLMAnswers,
           WaitCancelled, Cancel, history, TypeOK, Returned
  <1>9. Offered'
    BY <1>0 DEF Offered, config
  <1> QED
    BY <1>1, <1>2, <1>3, <1>4, <1>5, <1>6, <1>7, <1>8, <1>9

\* A list of calls has at most MaxCalls of them.
LEMMA CallListsType ==
    ASSUME NEW tcs \in CallLists
    PROVE  tcs \in Seq(ToolCalls) /\ Len(tcs) \in Slots
  <1>1. PICK n \in Slots : tcs \in [1 .. n -> ToolCalls]
    BY DEF CallLists
  <1>2. n \in Nat
    BY ToolLoopAssumption DEF Slots
  <1>3. tcs \in Seq(ToolCalls) /\ Len(tcs) = n
    BY <1>1, <1>2
  <1> QED
    BY <1>3

\* A round begins.
LEMMA RoundBegins ==
    ASSUME Inv, NEW tcs \in CallLists, LLMCallsTools(tcs)
    PROVE  Inv'
  <1> USE ToolLoopAssumption DEF Inv
  <1> DEFINE m == [role |-> "assistant", calls |-> tcs]
  <1>0. /\ pc = "await" /\ pc' = "run"
        /\ UNCHANGED <<cfg, registry, toolDefs, iter, cancelled, lateCalls, ran, observed>>
        /\ calls' = tcs
        /\ messages' = Append(messages, m)
        /\ g' = [i \in Slots |-> IF i <= Len(tcs) THEN "spawned" ELSE "none"]
        /\ results' = [i \in Slots |-> Empty]
    BY DEF LLMCallsTools, config, history
  <1>1. tcs \in Seq(ToolCalls) /\ Len(tcs) \in Nat /\ Len(tcs) <= MaxCalls /\ m \in Messages
    BY CallListsType DEF Slots, Messages
  <1>2. /\ messages \in Seq(Messages) /\ iter \in Nat /\ iter < MaxIterations
        /\ Len(messages) = 2 * iter
        /\ ran \subseteq Nat \X Slots
        /\ \A e \in ran : e[1] < iter
    BY <1>0 DEF TypeOK, Shape, Past, Open
  <1> HIDE DEF m
  <1>3. /\ messages' \in Seq(Messages) /\ Len(messages') = 2 * iter + 1
        /\ messages'[2 * iter + 1] = m
        /\ \A k \in 1 .. 2 * iter : messages'[k] = messages[k]
    BY <1>0, <1>1, <1>2, AppendProperties
  <1>4. TypeOK'
    <2>1. /\ g' \in [Slots -> GStates]
          /\ results' \in [Slots -> Results \cup {Empty}]
      BY <1>0 DEF GStates
    <2> QED
      BY <1>0, <1>1, <1>3, <2>1 DEF TypeOK, PCs
  <1>5. Setup'
    BY <1>0 DEF Setup
  <1>6. Shape'
    BY <1>0, <1>2, <1>3 DEF Shape, Open, m
  <1>7. Rounds'
    BY <1>0, <1>2, <1>3 DEF Rounds, Round
  <1>8. Threads'
    BY <1>0, <1>1, <1>2 DEF Threads, Thread, Slots
  <1>9. Past' /\ Heard' /\ Late'
    BY <1>0, <1>2 DEF Past, Heard, Late, Open
  <1>10. Offered'
    <2> SUFFICES ASSUME NEW e \in ran
                 PROVE  messages'[2 * e[1] + 1].calls[e[2]].name \in toolDefs
      BY <1>0 DEF Offered
    <2>1. e[1] \in Nat /\ e[1] < iter
      BY <1>2
    <2>2. messages'[2 * e[1] + 1] = messages[2 * e[1] + 1]
      BY <1>2, <1>3, <2>1
    <2> QED
      BY <2>2 DEF Offered
  <1> QED
    BY <1>4, <1>5, <1>6, <1>7, <1>8, <1>9, <1>10

\* A round ends.
LEMMA RoundEnds ==
    ASSUME Inv, WaitDone
    PROVE  Inv'
  <1> USE ToolLoopAssumption DEF Inv
  <1> DEFINE rs == [i \in 1 .. Len(calls) |-> results[i]]
             m == [role |-> "tool", results |-> rs]
  <1>0. /\ pc = "run" /\ pc' = "head" /\ ~cancelled
        /\ UNCHANGED <<cfg, registry, toolDefs, calls, g, results, cancelled, lateCalls,
                       ran, observed>>
        /\ iter' = iter + 1
        /\ messages' = Append(messages, m)
    BY DEF WaitDone, config, history
  <1>1. \A i \in 1 .. Len(calls) :
           /\ i \in Slots /\ g[i] = "finished" /\ results[i] \in Results
           /\ results[i].id = calls[i].id
           /\ results[i].kind \in {"ok", "error"} <=> <<iter, i>> \in ran
    BY <1>0 DEF WaitDone, AllFinished, Threads, Thread, TypeOK, Slots
  <1>2. /\ rs \in Seq(Results) /\ Len(rs) = Len(calls)
        /\ Len(calls) \in Nat
        /\ \A i \in 1 .. Len(calls) : rs[i] = results[i]
    <2>1. Len(calls) \in Nat
      BY LenProperties DEF TypeOK
    <2>2. rs \in [1 .. Len(calls) -> Results]
      BY <1>1
    <2> QED
      BY <2>1, <2>2
  <1>3. m \in Messages
    BY <1>2 DEF Messages
  <1>4. /\ messages \in Seq(Messages) /\ iter \in Nat /\ iter < MaxIterations
        /\ Len(messages) = 2 * iter + 1
        /\ messages[2 * iter + 1] = [role |-> "assistant", calls |-> calls]
        /\ ran \subseteq Nat \X Slots
        /\ \A e \in ran : e[1] <= iter
    <2>1. /\ messages \in Seq(Messages) /\ iter \in Nat /\ iter < MaxIterations
          /\ ran \subseteq Nat \X Slots
      BY <1>0 DEF TypeOK, Shape
    <2>2. /\ Len(messages) = 2 * iter + 1
          /\ messages[2 * iter + 1] = [role |-> "assistant", calls |-> calls]
      BY <1>0 DEF Shape, Open
    <2>3. ASSUME NEW e \in ran PROVE e[1] <= iter
      <3>1. e[1] \in Nat
        BY <2>1
      <3> QED
        BY <2>1, <3>1 DEF Past
    <2> QED
      BY <2>1, <2>2, <2>3
  <1>5. m.role = "tool" /\ m.results = rs
    OBVIOUS
  <1> HIDE DEF m, rs
  <1>6. /\ messages' \in Seq(Messages) /\ Len(messages') = 2 * iter + 2
        /\ messages'[2 * iter + 2] = m
        /\ \A k \in 1 .. 2 * iter + 1 : messages'[k] = messages[k]
    BY <1>0, <1>3, <1>4, AppendProperties
  <1>7. TypeOK'
    BY <1>0, <1>4, <1>6 DEF TypeOK, PCs
  <1>8. Setup'
    BY <1>0 DEF Setup
  <1>9. Shape'
    BY <1>0, <1>4, <1>6 DEF Shape, Open
  <1>10. Rounds'
    <2> SUFFICES ASSUME NEW k \in 1 .. iter + 1
                 PROVE  Round(k)'
      BY <1>0 DEF Rounds
    <2>1. CASE k <= iter
      <3>1. /\ messages'[2 * k - 1] = messages[2 * k - 1]
            /\ messages'[2 * k] = messages[2 * k]
        BY <1>4, <1>6, <2>1
      <3>2. Round(k)
        BY <2>1, <1>4 DEF Rounds
      <3> QED
        BY <1>0, <3>1, <3>2 DEF Round
    <2>2. CASE k = iter + 1
      <3>1. /\ messages'[2 * k - 1] = [role |-> "assistant", calls |-> calls]
            /\ messages'[2 * k] = m
        BY <1>4, <1>6, <2>2
      <3>2. k - 1 = iter
        BY <1>4, <2>2
      <3> DEFINE asked == messages'[2 * k - 1]
                 told == messages'[2 * k]
      <3>3. /\ asked.role = "assistant" /\ asked.calls = calls
            /\ told.role = "tool" /\ told.results = rs
        BY <1>5, <3>1
      <3>4. Len(told.results) = Len(asked.calls)
        BY <1>2, <3>3
      <3>5. ASSUME NEW i \in 1 .. Len(calls)
            PROVE  /\ rs[i].id = calls[i].id
                   /\ rs[i].kind \in {"ok", "error"} <=> <<k - 1, i>> \in ran'
        BY <1>0, <1>1, <1>2, <3>2
      <3> HIDE DEF asked, told
      <3>6. \A i \in 1 .. Len(asked.calls) :
               /\ told.results[i].id = asked.calls[i].id
               /\ told.results[i].kind \in {"ok", "error"} <=> <<k - 1, i>> \in ran'
        BY <3>3, <3>5
      <3> QED
        BY <3>3, <3>4, <3>6 DEF Round, asked, told
    <2> QED
      BY <1>4, <2>1, <2>2
  <1>11. Threads'
    BY <1>0 DEF Threads
  <1>12. Past'
    BY <1>0, <1>4 DEF Past
  <1>13. Heard'
    <2> SUFFICES ASSUME HasHook, NEW e \in ran PROVE e \in observed
      BY <1>0 DEF Heard
    <2>1. e[2] \in Slots /\ e[1] \in Nat /\ e = <<e[1], e[2]>>
      BY <1>4
    <2>2. CASE e[1] = iter
      <3>1. <<iter, e[2]>> \in ran
        BY <2>1, <2>2
      <3>2. g[e[2]] # "none"
        BY <1>0, <2>1, <3>1 DEF Threads, Thread
      <3>3. g[e[2]] = "finished"
        BY <1>0, <2>1, <3>2 DEF Threads, Thread, WaitDone, AllFinished
      <3> QED
        BY <3>3 DEF Heard
    <2> QED
      BY <2>2 DEF Heard
  <1>14. Late'
    BY <1>0 DEF Late
  <1>15. Offered'
    <2> SUFFICES ASSUME NEW e \in ran
                 PROVE  messages'[2 * e[1] + 1].calls[e[2]].name \in toolDefs
      BY <1>0 DEF Offered
    <2>1. e[1] \in Nat /\ e[1] <= iter
      BY <1>4
    <2>2. messages'[2 * e[1] + 1] = messages[2 * e[1] + 1]
      BY <1>4, <1>6, <2>1
    <2> QED
      BY <2>2 DEF Offered
  <1> QED
    BY <1>7, <1>8, <1>9, <1>10, <1>11, <1>12, <1>13, <1>14, <1>15

\* A goroutine takes a step of executeTool.
LEMMA GoroutineStep ==
    ASSUME Inv, NEW i \in Slots, ToolStep(i)
    PROVE  Inv'
  <1> USE ToolLoopAssumption DEF Inv
  <1> DEFINE e0 == <<iter, i>>
  <1>0. /\ pc = "run"
        /\ UNCHANGED <<cfg, registry, toolDefs, pc, iter, messages, calls, cancelled,
                       lateCalls>>
    BY DEF ToolStep, HookDenies, BeforeToolCall, UnknownTool, Execute, ExecuteReturns,
           AfterToolCall, Running, config, history
  <1>1. /\ g \in [Slots -> GStates] /\ results \in [Slots -> Results \cup {Empty}]
        /\ calls \in Seq(ToolCalls) /\ Len(calls) \in Nat
        /\ iter \in Nat /\ iter < MaxIterations
        /\ i \in Nat /\ i >= 1
        /\ ran \subseteq Nat \X Slots /\ observed \subseteq Nat \X Slots
    <2>1. /\ g \in [Slots -> GStates] /\ results \in [Slots -> Results \cup {Empty}]
          /\ calls \in Seq(ToolCalls) /\ iter \in Nat
          /\ ran \subseteq Nat \X Slots /\ observed \subseteq Nat \X Slots
      BY DEF TypeOK
    <2>2. iter < MaxIterations
      BY <1>0 DEF Shape
    <2>3. i \in Nat /\ i >= 1
      BY DEF Slots
    <2> QED
      BY <2>1, <2>2, <2>3, LenProperties
  <1>2. g[i] # "none"
    BY DEF ToolStep, HookDenies, BeforeToolCall, UnknownTool, Execute, ExecuteReturns,
           AfterToolCall, Running
  <1>3. i \in 1 .. Len(calls) /\ calls[i] \in ToolCalls
    <2>1. i <= Len(calls)
      BY <1>0, <1>2 DEF Threads, Thread
    <2>2. i \in 1 .. Len(calls)
      BY <1>1, <2>1
    <2> QED
      BY <1>1, <2>2, ElementOfSeq
  <1>4. \A j \in Slots : Thread(j)
    BY <1>0 DEF Threads
  \* what the six steps do to goroutine i, its result and the histories
  <1>5. \/ /\ g[i] = "spawned" /\ g' = [g EXCEPT ![i] = "finished"]
           /\ results' = [results EXCEPT ![i] = [id |-> calls[i].id, kind |-> "denied"]]
           /\ UNCHANGED <<ran, observed>>
        \/ /\ g[i] = "allowed" /\ g' = [g EXCEPT ![i] = "finished"]
           /\ results' = [results EXCEPT ![i] = [id |-> calls[i].id, kind |-> "unknown"]]
           /\ UNCHANGED <<ran, observed>>
        \/ /\ g[i] = "spawned" /\ g' = [g EXCEPT ![i] = "allowed"]
           /\ UNCHANGED <<results, ran, observed>>
        \/ /\ g[i] = "allowed" /\ g' = [g EXCEPT ![i] = "exec"]
           /\ Get(registry, calls[i].name) # NoTool
           /\ ran' = ran \cup {e0}
           /\ UNCHANGED <<results, observed>>
        \/ /\ g[i] = "exec"
           /\ \E s \in {"ok", "error"} : g' = [g EXCEPT ![i] = s]
           /\ UNCHANGED <<results, ran, observed>>
        \/ /\ g[i] \in {"ok", "error"} /\ g' = [g EXCEPT ![i] = "finished"]
           /\ results' = [results EXCEPT ![i] = [id |-> calls[i].id, kind |-> g[i]]]
           /\ observed' = IF HasHook THEN observed \cup {e0} ELSE observed
           /\ UNCHANGED ran
    BY DEF ToolStep, HookDenies, BeforeToolCall, UnknownTool, Execute, ExecuteReturns,
           AfterToolCall, Running, Finish, history
  <1>6. /\ g' \in [Slots -> GStates] /\ results' \in [Slots -> Results \cup {Empty}]
        /\ ran' \subseteq Nat \X Slots /\ observed' \subseteq Nat \X Slots
        /\ \A j \in Slots : j # i => g'[j] = g[j] /\ results'[j] = results[j]
        /\ ran' \ {e0} = ran \ {e0}
        /\ ran \subseteq ran' /\ observed \subseteq observed'
        /\ observed' \subseteq observed \cup {e0}
    <2>1. \A s \in Kinds : [id |-> calls[i].id, kind |-> s] \in Results
      BY <1>3 DEF Results, ToolCalls
    <2>2. e0 \in Nat \X Slots
      BY <1>1
    <2> HIDE DEF e0
    <2>3. g' \in [Slots -> GStates]
      BY <1>1, <1>5 DEF GStates
    <2>4. results' \in [Slots -> Results \cup {Empty}]
      <3>1. \/ results' = results
            \/ \E s \in Kinds :
                  results' = [results EXCEPT ![i] = [id |-> calls[i].id, kind |-> s]]
        BY <1>5 DEF Kinds
      <3> QED
        BY <3>1, <2>1, <1>1
    <2>5. \A j \in Slots : j # i => g'[j] = g[j] /\ results'[j] = results[j]
      BY <1>1, <1>5
    <2>6. /\ ran' \subseteq Nat \X Slots /\ observed' \subseteq Nat \X Slots
          /\ ran' \ {e0} = ran \ {e0}
          /\ ran \subseteq ran' /\ observed \subseteq observed'
          /\ observed' \subseteq observed \cup {e0}
      BY <1>1, <1>5, <2>2
    <2> QED
      BY <2>3, <2>4, <2>5, <2>6
  <1>7. TypeOK'
    BY <1>0, <1>6 DEF TypeOK
  <1>8. Setup' /\ Shape' /\ Late'
    BY <1>0 DEF Setup, Shape, Late
  <1>9. Rounds'
    <2> SUFFICES ASSUME NEW k \in 1 .. iter PROVE Round(k)'
      BY <1>0 DEF Rounds
    <2>1. \A j : <<k - 1, j>> # e0
      BY <1>1
    <2>2. \A j : <<k - 1, j>> \in ran' <=> <<k - 1, j>> \in ran
      BY <1>6, <2>1
    <2> QED
      BY <1>0, <2>2 DEF Rounds, Round
  <1>10. Threads'
    <2> SUFFICES ASSUME NEW j \in Slots PROVE Thread(j)'
      BY DEF Threads
    <2>1. CASE j # i
      <3>1. <<iter, j>> \in ran' <=> <<iter, j>> \in ran
        BY <1>6, <2>1
      <3> QED
        BY <1>0, <1>4, <1>6, <2>1, <3>1 DEF Thread
    <2>2. CASE j = i
      <3>1. \A s \in Kinds : LET r == [id |-> calls[i].id, kind |-> s] IN
               r \in Results /\ r.id = calls[i].id /\ r.kind = s
        BY <1>3 DEF Results, ToolCalls
      <3>2. Thread(i)
        BY <1>4
      <3>3. \/ /\ g'[i] = "finished"
               /\ \E s \in {"denied", "unknown"} :
                     results'[i] = [id |-> calls[i].id, kind |-> s]
               /\ e0 \notin ran'
            \/ g'[i] = "allowed" /\ e0 \notin ran'
            \/ g'[i] \in {"exec", "ok", "error"} /\ e0 \in ran'
            \/ /\ g'[i] = "finished"
               /\ \E s \in {"ok", "error"} :
                     results'[i] = [id |-> calls[i].id, kind |-> s]
               /\ e0 \in ran'
        BY <1>1, <1>5, <3>2 DEF Thread
      <3> QED
        BY <1>0, <1>3, <2>2, <3>1, <3>3 DEF Thread, Kinds
    <2> QED
      BY <2>1, <2>2
  <1>11. Past'
    <2> SUFFICES ASSUME NEW e \in ran' PROVE e[1] < iter \/ e[1] = iter
      BY <1>0 DEF Past, Open
    <2>1. e \in ran \/ e = e0
      BY <1>6
    <2> QED
      BY <2>1 DEF Past
  <1>12. Heard'
    <2>1. observed' \subseteq ran'
      BY <1>4, <1>5, <1>6 DEF Heard, Thread
    <2>2. ASSUME HasHook, NEW e \in ran'
          PROVE  e \in observed' \/ (e[1] = iter /\ g'[e[2]] # "finished")
      <3>1. e \in Nat \X Slots /\ e = <<e[1], e[2]>>
        BY <1>6
      <3>2. CASE e = e0
        <4>1. g'[i] # "finished" \/ e0 \in observed'
          BY <1>1, <1>4, <1>5, <2>2, <3>2 DEF Thread
        <4> QED
          BY <3>2, <4>1
      <3>3. CASE e # e0
        <4>1. e \in ran
          BY <1>6, <3>3
        <4>2. e[1] = iter => e[2] # i
          BY <3>1, <3>3
        <4> QED
          BY <1>0, <1>6, <2>2, <3>1, <4>1, <4>2 DEF Heard
      <3> QED
        BY <3>2, <3>3
    <2> QED
      BY <1>0, <2>1, <2>2 DEF Heard
  <1>13. Offered'
    <2> SUFFICES ASSUME NEW e \in ran'
                 PROVE  messages[2 * e[1] + 1].calls[e[2]].name \in toolDefs
      BY <1>0 DEF Offered
    <2>1. CASE e \in ran
      BY <2>1 DEF Offered
    <2>2. CASE e \notin ran
      <3>1. e = e0 /\ Get(registry, calls[i].name) # NoTool
        BY <1>5, <2>2
      <3>2. calls[i].name \in Names
        BY <1>3 DEF ToolCalls
      <3>3. calls[i].name \in toolDefs
        BY <3>1, <3>2, GetIsOffered DEF Setup, TypeOK
      <3>4. messages[2 * iter + 1] = [role |-> "assistant", calls |-> calls]
        BY <1>0 DEF Shape, Open
      <3> QED
        BY <3>1, <3>3, <3>4
    <2> QED
      BY <2>1, <2>2
  <1> QED
    BY <1>7, <1>8, <1>9, <1>10, <1>11, <1>12, <1>13

\* Inv is inductive.
LEMMA InvStep ==
    ASSUME Inv, [Next]_vars
    PROVE  Inv'
  <1>1. CASE UNCHANGED vars
    BY <1>1 DEF vars, Inv, TypeOK, Setup, Shape, Rounds, Round, Threads, Thread, Past,
                Heard, Late, Offered
  <1>2. CASE Next
    BY <1>1, <1>2, MoveStep, RoundBegins, RoundEnds, GoroutineStep
       DEF Next, LoopStep, Done
  <1> QED
    BY <1>1, <1>2

\* Whatever the model asks for and whenever the context ends, calls, results and
\* goroutines of a round match one another (pkg/tools/loop.go).
THEOREM Invariance == Spec => []Inv
  BY InitInv, InvStep, PTL DEF Spec

---------------------------------------------------------------------------
(* The properties *)

\* The variables of the loop keep their types: a round's results are a message
\* of results, none left out (loop.go:109-141).
THEOREM TypeCorrect == Spec => []TypeOK
  <1>1. Inv => TypeOK
    BY DEF Inv
  <1> QED
    BY <1>1, Invariance, PTL

\* Whatever order the goroutines of a round end in, and however many calls and
\* rounds there are, the LLM is sent every answer in the place of its call and is
\* told truthfully which tools ran (loop.go:109-141).
THEOREM Answers == Spec => []EveryCallAnswered
  <1>1. Inv => EveryCallAnswered
    <2> SUFFICES ASSUME Inv PROVE EveryCallAnswered
      OBVIOUS
    <2>1. ConversationWellFormed
      BY DEF ConversationWellFormed, Inv, Shape, Rounds, Round, Open
    <2>2. EffectsReported
      BY DEF EffectsReported, Inv, Rounds, Round
    <2> QED
      BY <2>1, <2>2 DEF EveryCallAnswered
  <1> QED
    BY <1>1, Invariance, PTL

\* The hook is told of the tools that ran, all of them once the goroutines have
\* joined, and of no other call (loop.go:159-192).
THEOREM HookHears == Spec => []HookSeesEveryEffect
  <1>1. Inv => HookSeesEveryEffect
    BY DEF HookSeesEveryEffect, Inv, Heard
  <1> QED
    BY <1>1, Invariance, PTL

\* A cancelled request asks the LLM at most once more (loop.go:129-136).
THEOREM Stops == Spec => []CancellationStops
  <1>1. Inv => CancellationStops
    BY DEF CancellationStops, Inv, Late
  <1> QED
    BY <1>1, Invariance, PTL

\* Only offered tools run, and the allow-list binds every gated tool, except under
\* a name an MCP server also has (registry.go:37-66, runtime.go's registrations).
THEOREM AllowList == Spec => []AllowListBinds
  <1>1. Inv => AllowListBinds
    <2> SUFFICES ASSUME Inv PROVE AllowListBinds
      OBVIOUS
    <2>1. OnlyOfferedToolsRun
      <3> SUFFICES ASSUME NEW k \in 0 .. MaxIterations, NEW i \in Slots, <<k, i>> \in ran
                   PROVE  messages[2 * k + 1].calls[i].name \in toolDefs
        BY DEF OnlyOfferedToolsRun
      <3> QED
        BY DEF Inv, Offered
    <2>2. cfg \in ToolConfigs /\ registry = BuildRegistry(cfg)
      BY ToolLoopAssumption DEF Inv, TypeOK, Setup
    <2> QED
      BY <2>1, <2>2, RegistryOf DEF AllowListBinds
  <1> QED
    BY <1>1, Invariance, PTL

---------------------------------------------------------------------------
(***************************************************************************)
(* The a2a_call tool, which the loop calls from several goroutines, for    *)
(* any number of parallel calls and of peers.  Its properties rest on the  *)
(* bookkeeping of the singleflight group (Flights) and on where a verdict  *)
(* comes from (Evidence).                                                  *)
(***************************************************************************)
\* A caller in flight is the one its pinned peer's entry names, and an entry
\* names a caller that is in flight for that peer.
Flights ==
    /\ \A c \in Callers : stage[c] \in InFlight \cup {"group", "join"} => peer[c] \in Pinned
    /\ \A c \in Callers : stage[c] \in InFlight => flight[peer[c]] = c
    /\ \A p \in Pinned : flight[p] # Nobody =>
          stage[flight[p]] \in InFlight /\ peer[flight[p]] = p

\* A caller joins only an entry that is there.
Joined == \A c \in Callers : stage[c] = "join" => flight[peer[c]] # Nobody

\* What is marked, or about to be, has been seen to verify.
Evidence ==
    /\ cardVerified \subseteq authentic
    /\ \A c \in Callers : stage[c] = "mark" => peer[c] \in authentic
    /\ \A c \in Callers : stage[c] = "leave" /\ outcome[c] = "verified" => peer[c] \in authentic

\* A fetch under way is for a peer that is not verified.
Fresh == \A c \in Callers : stage[c] = "fetch" => peer[c] \notin cardVerified

\* No call has the verdict that a context ended before it returns, so none can
\* share it.
Verdict == \A c \in Callers : stage[c] # "returned" => outcome[c] # "ctx"

PeerInv == PeerTypeOK /\ Flights /\ Joined /\ Evidence /\ Fresh /\ Verdict
       /\ VerifiedBeforeInvoke /\ CancellationIsPrivate

---------------------------------------------------------------------------

\* verifyCard reports one of the known errors, or success exactly when one of
\* the signature entries is valid, whatever the others are.
LEMMA CardVerdict ==
    ASSUME NEW a \in CardAnswers
    PROVE  /\ verifyCard(a) \in CardErrors \cup {"verified"}
           /\ verifyCard(a) = "verified" <=> "valid" \in a.entries
  <1>1. CASE a.kind = "card"
    <2>1. "valid" \in a.entries => verifyCard(a) = "verified"
      BY <1>1 DEF verifyCard
    <2>2. "valid" \notin a.entries => verifyCard(a) \in {"format", "signature"}
      BY <1>1 DEF verifyCard
    <2> QED
      BY <2>1, <2>2 DEF CardErrors
  <1>2. CASE a.kind # "card"
    <2>1. a.kind \in {"transport", "http", "format"} /\ a.entries = {}
      BY <1>2 DEF CardAnswers
    <2>2. verifyCard(a) = a.kind
      BY <1>2 DEF verifyCard
    <2> QED
      BY <2>1, <2>2 DEF CardErrors
  <1> QED
    BY <1>1, <1>2

\* Every step keeps the type of every variable.  Only a caller in flight touches
\* the table of verified peers, and Flights says that its peer is one.
LEMMA PeerTypeStep == PeerTypeOK /\ Flights /\ [PeerNext]_peerVars => PeerTypeOK'
  <1> SUFFICES ASSUME PeerTypeOK, Flights, [PeerNext]_peerVars
               PROVE  PeerTypeOK'
    OBVIOUS
  <1> USE PeersAssumption DEF PeerTypeOK, Stages, Outcomes, Replies, CardErrors, Goto, Return
  <1>1. ASSUME NEW c \in Callers, UnknownPeer(c)
        PROVE  PeerTypeOK'
    BY <1>1 DEF UnknownPeer
  <1>2. ASSUME NEW c \in Callers, CardNotNeeded(c)
        PROVE  PeerTypeOK'
    BY <1>2 DEF CardNotNeeded
  <1>3. ASSUME NEW c \in Callers, CardNeeded(c)
        PROVE  PeerTypeOK'
    BY <1>3 DEF CardNeeded
  <1>4. ASSUME NEW c \in Callers, Lead(c)
        PROVE  PeerTypeOK'
    BY <1>4 DEF Lead
  <1>5. ASSUME NEW c \in Callers, Join(c)
        PROVE  PeerTypeOK'
    BY <1>5 DEF Join
  <1>6. ASSUME NEW c \in Callers, AlreadyVerified(c)
        PROVE  PeerTypeOK'
    BY <1>6 DEF AlreadyVerified
  <1>7. ASSUME NEW c \in Callers, FetchCard(c)
        PROVE  PeerTypeOK'
    BY <1>7 DEF FetchCard
  <1>8. ASSUME NEW c \in Callers, CardArrives(c)
        PROVE  PeerTypeOK'
    <2>1. peer[c] \in Pinned
      BY <1>8 DEF CardArrives, Flights, InFlight
    <2>2. endpoint[peer[c]] \in CardAnswers
      BY <2>1
    <2>3. verifyCard(endpoint[peer[c]]) \in Outcomes
      BY <2>2, CardVerdict
    <2> QED
      BY <1>8, <2>1, <2>3 DEF CardArrives
  <1>9. ASSUME NEW c \in Callers, markCardOK(c)
        PROVE  PeerTypeOK'
    BY <1>9 DEF markCardOK, Flights, InFlight
  <1>10. ASSUME NEW c \in Callers, Leave(c)
        PROVE  PeerTypeOK'
    BY <1>10 DEF Leave
  <1>11. ASSUME NEW c \in Callers, Invoke(c)
        PROVE  PeerTypeOK'
    BY <1>11 DEF Invoke
  <1>12. ASSUME NEW c \in Callers, CallCancelled(c)
        PROVE  PeerTypeOK'
    BY <1>12 DEF CallCancelled
  <1>13. ASSUME NEW c \in Callers, NEW p \in Peers \cup {Unknown}, Call(c, p)
        PROVE  PeerTypeOK'
    BY <1>13 DEF Call
  <1>14. ASSUME NEW p \in Pinned, EndpointChanges(p)
        PROVE  PeerTypeOK'
    BY <1>14 DEF EndpointChanges
  <1>15. CASE UNCHANGED peerVars
    BY <1>15 DEF peerVars
  <1> QED
    BY <1>1, <1>2, <1>3, <1>4, <1>5, <1>6, <1>7, <1>8, <1>9, <1>10, <1>11, <1>12, <1>13,
       <1>14, <1>15 DEF PeerNext, ExecuteStep

\* Every step keeps the invariant.
LEMMA PeerInvStep == PeerInv /\ [PeerNext]_peerVars => PeerInv'
  <1> SUFFICES ASSUME PeerInv, [PeerNext]_peerVars
               PROVE  PeerInv'
    OBVIOUS
  <1>0. PeerTypeOK'
    BY PeerTypeStep DEF PeerInv
  <1> USE <1>0, PeersAssumption DEF PeerInv, PeerTypeOK, Flights, Joined, Evidence, Fresh, Verdict,
        VerifiedBeforeInvoke, CancellationIsPrivate, InFlight, CardErrors, Replies, Goto, Return
  <1>1. ASSUME NEW c \in Callers, UnknownPeer(c)
        PROVE  PeerInv'
    BY <1>1 DEF UnknownPeer
  <1>2. ASSUME NEW c \in Callers, CardNotNeeded(c)
        PROVE  PeerInv'
    BY <1>2 DEF CardNotNeeded
  <1>3. ASSUME NEW c \in Callers, CardNeeded(c)
        PROVE  PeerInv'
    BY <1>3 DEF CardNeeded
  <1>4. ASSUME NEW c \in Callers, Lead(c)
        PROVE  PeerInv'
    <2>1. peer[c] \in Pinned /\ flight[peer[c]] = Nobody
      BY <1>4 DEF Lead
    <2>2. \A d \in Callers : stage[d] \in InFlight => peer[d] # peer[c]
      BY <2>1
    <2>3. Flights'
      BY <1>4, <2>1, <2>2 DEF Lead
    <2>4. Joined'
      BY <1>4, <2>1 DEF Lead
    <2>5. (Evidence /\ Fresh /\ Verdict /\ VerifiedBeforeInvoke /\ CancellationIsPrivate)'
      BY <1>4 DEF Lead
    <2> QED
      BY <2>3, <2>4, <2>5
  <1>5. ASSUME NEW c \in Callers, Join(c)
        PROVE  PeerInv'
    BY <1>5 DEF Join
  <1>6. ASSUME NEW c \in Callers, AlreadyVerified(c)
        PROVE  PeerInv'
    BY <1>6 DEF AlreadyVerified
  <1>7. ASSUME NEW c \in Callers, FetchCard(c)
        PROVE  PeerInv'
    BY <1>7 DEF FetchCard
  <1>8. ASSUME NEW c \in Callers, CardArrives(c)
        PROVE  PeerInv'
    BY <1>8, CardVerdict DEF CardArrives
  <1>9. ASSUME NEW c \in Callers, markCardOK(c)
        PROVE  PeerInv'
    BY <1>9 DEF markCardOK
  <1>10. ASSUME NEW c \in Callers, Leave(c)
        PROVE  PeerInv'
    BY <1>10 DEF Leave
  <1>11. ASSUME NEW c \in Callers, Invoke(c)
        PROVE  PeerInv'
    BY <1>11 DEF Invoke
  <1>12. ASSUME NEW c \in Callers, CallCancelled(c)
        PROVE  PeerInv'
    BY <1>12 DEF CallCancelled
  <1>13. ASSUME NEW c \in Callers, NEW p \in Peers \cup {Unknown}, Call(c, p)
        PROVE  PeerInv'
    BY <1>13 DEF Call
  <1>14. ASSUME NEW p \in Pinned, EndpointChanges(p)
        PROVE  PeerInv'
    BY <1>14 DEF EndpointChanges
  <1>15. CASE UNCHANGED peerVars
    BY <1>15 DEF peerVars
  <1> QED
    BY <1>1, <1>2, <1>3, <1>4, <1>5, <1>6, <1>7, <1>8, <1>9, <1>10, <1>11, <1>12, <1>13,
       <1>14, <1>15 DEF PeerNext, ExecuteStep

\* The invariant holds when the tool has just been made.
LEMMA PeerInitInv == PeerInit => PeerInv
  BY PeersAssumption DEF PeerInit, PeerInv, PeerTypeOK, Stages, Outcomes, Flights, Joined, Evidence, Fresh,
     Verdict, VerifiedBeforeInvoke, CancellationIsPrivate, InFlight

\* The invariant holds throughout.
LEMMA PeerInvariance == PeerSpec => []PeerInv
  <1>1. PeerInit => PeerInv
    BY PeerInitInv
  <1>2. PeerInv /\ [PeerNext]_peerVars => PeerInv'
    BY PeerInvStep
  <1> QED
    BY <1>1, <1>2, PTL DEF PeerSpec

---------------------------------------------------------------------------

\* Every variable of the tool keeps its type.
THEOREM PeerTypesCorrect == PeerSpec => []PeerTypeOK
  <1>0. PeerSpec => []PeerInv
    BY PeerInvariance
  <1>1. PeerInv => PeerTypeOK
    BY DEF PeerInv
  <1> QED
    BY <1>0, <1>1, PTL

\* No message goes to a pinned peer that has not served a card that verifies
\* (Execute, a2acall.go:136-157), however many calls share the verification.
THEOREM CardBeforeMessage == PeerSpec => []VerifiedBeforeInvoke
  <1>0. PeerSpec => []PeerInv
    BY PeerInvariance
  <1>1. PeerInv => VerifiedBeforeInvoke
    BY DEF PeerInv
  <1> QED
    BY <1>0, <1>1, PTL

\* Parallel first calls fetch the card of a peer once at a time, and never after
\* it has been verified (cardGroup.Do, a2acall.go:141-150).
THEOREM FetchesAreShared == PeerSpec => []OneFetchPerPeer
  <1>0. PeerSpec => []PeerInv
    BY PeerInvariance
  <1>1. PeerInv => OneFetchPerPeer
    BY DEF PeerInv, Flights, Fresh, OneFetchPerPeer
  <1> QED
    BY <1>0, <1>1, PTL

\* Whoever waits for a shared fetch waits for one that is under way.
THEOREM WaitersHaveALeader == PeerSpec => []NobodyWaitsInVain
  <1>0. PeerSpec => []PeerInv
    BY PeerInvariance
  <1>1. PeerInv => NobodyWaitsInVain
    <2> SUFFICES ASSUME PeerInv, NEW c \in Callers, stage[c] = "join"
                 PROVE  \E d \in Callers : stage[d] \in InFlight /\ peer[d] = peer[c]
      BY DEF NobodyWaitsInVain
    <2>1. peer[c] \in Pinned /\ flight[peer[c]] # Nobody
      BY DEF PeerInv, Flights, Joined
    <2>2. flight[peer[c]] \in Callers
      BY <2>1 DEF PeerInv, PeerTypeOK
    <2> QED
      BY <2>1, <2>2 DEF PeerInv, Flights
  <1> QED
    BY <1>0, <1>1, PTL

\* A call reports that a context ended only if it was its own: the shared fetch
\* is detached from the caller that leads it (a2acall.go:137-139).
THEOREM CancellationStaysPrivate == PeerSpec => []CancellationIsPrivate
  <1>0. PeerSpec => []PeerInv
    BY PeerInvariance
  <1>1. PeerInv => CancellationIsPrivate
    BY DEF PeerInv
  <1> QED
    BY <1>0, <1>1, PTL
=============================================================================
