------------------------------- MODULE Batch -------------------------------
(***************************************************************************)
(* The batch coordinator (internal/cmd/batch.go, with Invoke of            *)
(* internal/bridge/client.go): the documents are split over the agents,    *)
(* one goroutine of an errgroup per agent sends its share and parses the   *)
(* answer, and what came back is ranked and written as CSV.  An agent may  *)
(* answer with anything, late or never.                                    *)
(***************************************************************************)
EXTENDS Naturals, Integers, Sequences, FiniteSets, SequencesExt, FiniteSetsExt

CONSTANTS
    MaxDocs,     \* bound on the documents
    MaxAgents,   \* bound on the agents; --agents is required
    MaxResults,  \* bound on the results in an answer
    Scores       \* the scores agents give

ASSUME SizesAssumption ==
    MaxDocs \in Nat /\ MaxAgents \in Nat \ {0} /\ MaxResults \in Nat
ASSUME ScoresAssumption == Scores \subseteq Int /\ 0 \in Scores

VARIABLES
    docs,      \* len(cfg.documents); they are numbered from 1
    agents,    \* len(cfg.agents)
    worker,    \* what each goroutine has come to
    results,   \* results[i].results of the workers
    deadline,  \* the context of the command is done
    cancelled, \* the context of the errgroup is done
    main,      \* "wait", "write", "done" or "error"
    report,    \* the ranked rows that formatCSV writes
    output,    \* the rows of them that reach the file, or standard output
    stats,     \* what the command prints
    sent,      \* history: the documents each agent was sent
    answered   \* history: the results each agent's answer holds

batchVars == <<docs, agents, worker, results, deadline, cancelled, main, report, output,
               stats, sent, answered>>

Doc == 1 .. docs

\* A document_id is free text: a number outside Doc stands for an id that no
\* document has, or for none.
Candidate == [doc : 0 .. MaxDocs, score : Scores]
NoStats == [processed |-> 0, failed |-> 0]

---------------------------------------------------------------------------
(* splitDocuments *)

Least(a, b) == IF a < b THEN a ELSE b

\* Mutant: the remainder of the division is not handed out.
BatchSize_NoRemainder(i) == docs \div Least(agents, docs)

BatchSize(i) ==
    LET n == Least(agents, docs)
    IN docs \div n + (IF i <= docs % n THEN 1 ELSE 0)

\* The batches are consecutive slices of the documents; without documents there
\* is no batch.
splitDocuments ==
    LET from[i \in Nat] == IF i <= 1 THEN 0 ELSE from[i - 1] + BatchSize(i - 1)
    IN [i \in 1 .. Least(agents, docs) |-> (from[i] + 1) .. (from[i] + BatchSize(i))]

Workers == 1 .. Least(agents, docs)

---------------------------------------------------------------------------
(* Texts, the answers they come in, and parseBatchResult *)

\* A text is JSON, alone or in its first fenced block: an array of results, an
\* object, which is taken for one result, or null; or it is none of these.
AnswerText == [json : {"array"}, rows : SeqOf(Candidate, MaxResults)]
              \cup [json : {"object"}, rows : {<<c>> : c \in Candidate}]
              \cup [json : {"null", "none", "empty"}, rows : {<<>>}]
Empty == [json |-> "empty", rows |-> <<>>]

\* parseTask and parseMessage.  The text of a failed or rejected task is its
\* reason, and no error.
TextOf(a) ==
    LET filled == {k \in DOMAIN a.artifacts : a.artifacts[k] # Empty}
        reason == [json |-> "none", rows |-> <<>>]
    IN CASE a.type = "message" -> a.status
         [] a.type = "failed"  -> IF a.status = Empty THEN reason ELSE a.status
         [] OTHER              -> IF filled = {} THEN a.status ELSE a.artifacts[Min(filled)]

Parses(t) == t.json \in {"array", "object", "null"}

\* A message, a failed or rejected task, or another task with its artifacts.
AgentAnswer ==
    [type : {"message", "failed"}, artifacts : {<<>>}, status : AnswerText]
    \cup [type : {"task"}, artifacts : {<<>>}, status : AnswerText]
    \cup [type : {"task"}, artifacts : {<<Empty, t>> : t \in AnswerText}, status : {Empty}]

---------------------------------------------------------------------------
BatchInit ==
    /\ docs \in 0 .. MaxDocs /\ agents \in 1 .. MaxAgents
    /\ worker = [i \in Workers |-> "start"]
    /\ results = [i \in Workers |-> <<>>]
    /\ deadline = FALSE /\ cancelled = FALSE
    /\ main = "wait" /\ report = <<>> /\ output = <<>> /\ stats = NoStats
    /\ sent = [i \in Workers |-> {}]
    /\ answered = [i \in Workers |-> <<>>]

BatchTypeOK ==
    /\ docs \in 0 .. MaxDocs /\ agents \in 1 .. MaxAgents
    /\ worker \in [Workers -> {"start", "invoke", "ok", "error", "cancelled"}]
    /\ \A i \in Workers : results[i] \in Seq(Candidate) /\ answered[i] \in Seq(Candidate)
    /\ deadline \in BOOLEAN /\ cancelled \in BOOLEAN
    /\ main \in {"wait", "write", "done", "error"}
    /\ report \in Seq(Candidate) /\ output \in Seq(Candidate)
    /\ stats \in [processed : Nat, failed : Int]
    /\ sent \in [Workers -> SUBSET Doc]

Invoke(i) ==
    /\ worker[i] = "start"
    /\ sent' = [sent EXCEPT ![i] = splitDocuments[i]]
    /\ worker' = [worker EXCEPT ![i] = "invoke"]
    /\ UNCHANGED <<docs, agents, results, deadline, cancelled, main, report, output, stats,
                   answered>>

\* The agent answers, about any document or none, its own, another's or an invented
\* one, and the worker's slot of results is filled.
AgentAnswers(i) ==
    /\ worker[i] = "invoke"
    /\ \E a \in AgentAnswer :
          LET t == TextOf(a) IN
          /\ results' = [results EXCEPT ![i] = t.rows]
          /\ answered' = [answered EXCEPT ![i] = t.rows]
          /\ worker' = [worker EXCEPT ![i] = IF Parses(t) THEN "ok" ELSE "error"]
    /\ UNCHANGED <<docs, agents, deadline, cancelled, main, report, output, stats, sent>>

\* Mutant: the goroutine returns the error, and the errgroup cancels the others.
InvokeFails_Returned(i) ==
    /\ worker[i] = "invoke"
    /\ worker' = [worker EXCEPT ![i] = "error"]
    /\ cancelled' = TRUE
    /\ UNCHANGED <<docs, agents, results, deadline, main, report, output, stats, sent,
                   answered>>

\* Invoke returns an error: no connection, an error response, a result of another
\* type, or the 5 minutes of the HTTP client.  The goroutine returns nil.
InvokeFails(i) ==
    /\ worker[i] = "invoke"
    /\ worker' = [worker EXCEPT ![i] = "error"]
    /\ UNCHANGED <<docs, agents, results, deadline, cancelled, main, report, output, stats,
                   sent, answered>>

Deadline ==
    /\ main = "wait" /\ ~deadline
    /\ deadline' = TRUE /\ cancelled' = TRUE
    /\ UNCHANGED <<docs, agents, worker, results, main, report, output, stats, sent,
                   answered>>

Cancelled(i) ==
    /\ worker[i] = "invoke" /\ cancelled
    /\ worker' = [worker EXCEPT ![i] = "cancelled"]
    /\ UNCHANGED <<docs, agents, results, deadline, cancelled, main, report, output, stats,
                   sent, answered>>

\* Mutant: the first worker that failed ends the loop.
Rows_Break ==
    LET Before(i) == \A j \in 1 .. i : worker[j] = "ok"
    IN FlattenSeq([i \in Workers |-> IF Before(i) THEN results[i] ELSE <<>>])

\* The rows in the order of the workers; the sort by score, which is not stable.
Rows == FlattenSeq([i \in Workers |-> IF worker[i] = "ok" THEN results[i] ELSE <<>>])

Ranked(rows) ==
    { s \in {[k \in DOMAIN rows |-> rows[p[k]]] : p \in
                {f \in [DOMAIN rows -> DOMAIN rows] : IsInjective(f)}} :
      \A k \in 1 .. Len(rows) - 1 : s[k].score >= s[k + 1].score }

Failed == docs - Len(Rows)

\* g.Wait returns: the slots are read, counted and ranked.
Collect ==
    /\ main = "wait"
    /\ \A i \in Workers : worker[i] \in {"ok", "error", "cancelled"}
    /\ report' \in Ranked(Rows)
    /\ stats' = [processed |-> Len(Rows), failed |-> Failed]
    /\ main' = IF Rows = <<>> THEN "done" ELSE "write"
    /\ UNCHANGED <<docs, agents, worker, results, deadline, cancelled, output, sent,
                   answered>>

\* Rows are buffered.  If a flush fails the rows that were not flushed are lost, and
\* its error is returned; but the last flush is a deferred call, which runs after
\* cw.Error() was looked at, and its error is not.
Write ==
    /\ main = "write"
    /\ \/ output' = report /\ main' = "done"
       \/ \E n \in 0 .. Len(report) - 1 :
             output' = SubSeq(report, 1, n) /\ main' \in {"done", "error"}
    /\ UNCHANGED <<docs, agents, worker, results, deadline, cancelled, report, stats, sent,
                   answered>>

BatchEnded == main \in {"done", "error"} /\ UNCHANGED batchVars

Worker(i) == Invoke(i) \/ AgentAnswers(i) \/ InvokeFails(i) \/ Cancelled(i)

BatchNext == (\E i \in Workers : Worker(i)) \/ Deadline \/ Collect \/ Write \/ BatchEnded

BatchSpec == BatchInit /\ [][BatchNext]_batchVars

---------------------------------------------------------------------------
(* Properties *)

\* Every document goes to exactly one agent, and no agent gets two documents more
\* than another (batch.go:85-106).
EveryDocumentSent ==
    main # "wait" =>
        /\ UNION {sent[i] : i \in Workers} = Doc
        /\ \A i, j \in Workers : i # j =>
              /\ sent[i] \cap sent[j] = {}
              /\ Cardinality(sent[i]) <= Cardinality(sent[j]) + 1

\* A call is cut short only by the deadline of the whole command: one agent's
\* failure costs nothing but its own documents (batch.go:143-151).
FailureIsPrivate ==
    \A i \in Workers : worker[i] = "cancelled" => deadline

\* Where the answers that could be parsed hold a result: the worker, and the place
\* in its answer.
Places(c) ==
    UNION {{i} \X {k \in DOMAIN answered[i] : answered[i][k] = c} :
              i \in {j \in Workers : worker[j] = "ok"}}

\* The ranking holds every result of every answer that could be parsed as often as
\* the answers do, and nothing else, best score first (batch.go:54-83, 171-190).
ReportHoldsResults ==
    main # "wait" =>
        /\ \A c \in Candidate :
              Cardinality({k \in DOMAIN report : report[k] = c}) = Cardinality(Places(c))
        /\ \A j, k \in DOMAIN report : j < k => report[j].score >= report[k].score

\* What is written is a top of the ranking: when a flush fails, rows are missing at
\* its end and nowhere else, though the command may end without an error
\* (batch.go:60-82).
OutputIsTop ==
    /\ Len(output) <= Len(report)
    /\ \A k \in DOMAIN output : output[k] = report[k]

\* The documents that some row names.
NamedDocs == Doc \cap {report[k].doc : k \in DOMAIN report}

\* Every row names a document, each another one.
EachNamesOne ==
    \A k \in DOMAIN report :
        report[k].doc \in Doc /\ \A j \in DOMAIN report : report[j].doc = report[k].doc => j = k

\* "WARNING: %d documents not processed" (batch.go:303), said of the ranking: the
\* number is never above that of the documents without a row in it, and it is that
\* number if and only if the agents repeat and invent no document.  If they do, it is
\* too small, even negative, and the warning may be missing.
WarningIsRight ==
    main # "wait" =>
        /\ stats.failed <= Cardinality(Doc \ NamedDocs)
        /\ stats.failed = Cardinality(Doc \ NamedDocs) <=> EachNamesOne

\* What the command ranks and counts is what came back, and what it writes a top
\* of that.
ReportIsExact == ReportHoldsResults /\ OutputIsTop /\ WarningIsRight

===========================================================================
