----------------------------- MODULE ChatStream -----------------------------
(***************************************************************************)
(* POST /v1/chat/completions (internal/openaiapi) over an LLM provider     *)
(* (internal/openai, internal/anthropic): the handler, the provider's      *)
(* StreamWithTools reading the lines of the API's event stream, and the    *)
(* frames the client of the agent is sent.                                 *)
(*                                                                         *)
(* The API is external: it may refuse, send any lines, stop in the middle  *)
(* or stay silent.  The provider's timeout and the client's leaving may    *)
(* end the context at any time.  Nothing outlives a request, so requests   *)
(* are served one after the other.                                         *)
(***************************************************************************)
EXTENDS Conversation, FiniteSets

CONSTANTS
    Conversations,  \* the message lists clients send
    Ids,            \* the ids of the tool calls of an answer, by index
    MaxLines,       \* lines of one answer of the API
    MaxAhead,       \* lines the reader's buffer holds
    MaxIterations   \* LoopConfig.MaxIterations

ASSUME BoundsAssumption ==
    /\ MaxLines \in Nat /\ MaxAhead \in Nat \ {0} /\ MaxIterations \in Nat \ {0}
    /\ Conversations \subseteq Seq([role : Roles, content : Seq(STRING)])
    /\ Ids \in Seq(STRING)

VARIABLES
    provider,  \* Handler.Provider: "none" when it is nil
    tools,     \* the registry has definitions
    pc,        \* where the handler is
    req,       \* the request: is the body readable, is it to be streamed, its messages
    messages,  \* the conversation passed to the provider
    iter,      \* iterations of the tool loop
    body,      \* the body of the call to the API that is not answered yet
    ctx,       \* the context of the call: live, timed out, or the client is gone
    lines,     \* what the API has sent in this answer
    read,      \* how many of them have been scanned
    link,      \* the connection to the API: open, ended or broken
    content,   \* contentBuf
    calls,     \* toolCalls: index to what has come of that call
    out        \* what the client has been sent

vars == <<provider, tools, pc, req, messages, iter, body, ctx, lines, read, link,
          content, calls, out>>
server == <<provider, tools>>
upstream == <<lines, link>>
answer == <<read, content, calls>>

NoRequest == [readable |-> "yes", stream |-> FALSE, messages |-> <<>>]

---------------------------------------------------------------------------
(* Frames *)

RoleChunk == [kind |-> "role", text |-> <<>>]
TextChunk(t) == [kind |-> "text", text |-> t]
StopChunk == [kind |-> "stop", text |-> <<>>]
ErrorFrame == [kind |-> "error", text |-> <<>>]
DoneFrame == [kind |-> "DONE", text |-> <<>>]
Body(t) == [kind |-> "200", text |-> t]
writeError(status) == [kind |-> status, text |-> <<>>]

StreamError == <<ErrorFrame, DoneFrame>>

\* A finished answer, streamed as if it came in words.
StreamResponse(t) ==
    LET tokens == tokenize(t)
    IN  <<RoleChunk>> \o [i \in DOMAIN tokens |-> TextChunk(tokens[i])]
        \o <<StopChunk, DoneFrame>>

\* The three kinds of caller StreamWithTools has here.
Streaming == req.stream /\ ~tools

---------------------------------------------------------------------------
(* Lines of the API's stream                                               *)
(*   noise  a separator, a comment, a chunk that does not parse, or one    *)
(*          without text or tool calls (usage, finish_reason); for the     *)
(*          Anthropic SDK, which reads to the end, message_stop too        *)
(*   text   a text delta                                                   *)
(*   head   the first delta of a tool call: its id and the start of its    *)
(*          arguments; tail, without an id, brings the rest of them        *)
(*   done   data: [DONE], which only an OpenAI-compatible API sends        *)
(*   bad    a line the scanner's buffer cannot hold, or an event the SDK   *)
(*          cannot accumulate                                              *)

Line(kind, x) == [kind |-> kind, x |-> x]
Indexes == 0..Len(Ids) - 1
Id(i) == Ids[i + 1]
Heads == {i \in Indexes : \E k \in DOMAIN lines : lines[k] = Line("head", i)}
Tails == {i \in Indexes : \E k \in DOMAIN lines : lines[k] = Line("tail", i)}

\* An API opens a tool call before it continues it.  Anthropic's blocks are
\* numbered as they are opened; of other APIs' indexes nothing is known.
Lines ==
    {Line("noise", 0), Line("text", "w"), Line("text", Space), Line("bad", 0)}
    \cup (IF provider = "openai" THEN {Line("done", 0)} ELSE {})
    \cup {Line("head", i) : i \in {j \in Indexes \ Heads :
                                     provider = "anthropic" => \A k \in 0..j - 1 : k \in Heads}}
    \cup {Line("tail", i) : i \in Heads \ Tails}

---------------------------------------------------------------------------
Init ==
    /\ provider \in {"none", "openai", "anthropic"}
    /\ tools \in BOOLEAN
    /\ pc = "idle"
    /\ req = NoRequest
    /\ messages = <<>>
    /\ iter = 0
    /\ body = <<>>
    /\ ctx = "live"
    /\ lines = <<>>
    /\ read = 0
    /\ link = "open"
    /\ content = <<>>
    /\ calls = <<>>
    /\ out = <<>>

\* A client sends a request.
Receive ==
    /\ pc \in {"idle", "returned"}
    /\ pc' = "received"
    /\ \E r \in {"yes", "tooLarge", "malformed"}, s \in BOOLEAN, c \in Conversations :
         /\ r # "yes" => c = <<>>
         /\ req' = [readable |-> r, stream |-> s, messages |-> c]
    /\ messages' = <<>>
    /\ iter' = 0
    /\ body' = <<>>
    /\ ctx' = "live"
    /\ lines' = <<>> /\ link' = "open"
    /\ read' = 0 /\ content' = <<>> /\ calls' = <<>>
    /\ out' = <<>>
    /\ UNCHANGED server

\* The handler writes its last frames and returns.
Return(frames) ==
    /\ pc' = "returned"
    /\ out' = out \o frames
    /\ req' = [req EXCEPT !.messages = <<>>]
    /\ messages' = <<>>

---------------------------------------------------------------------------
(* ChatCompletion, streamCompletion, complete *)

Reject ==
    /\ pc = "received"
    /\ \/ req.readable = "tooLarge"  /\ Return(<<writeError("413")>>)
       \/ req.readable = "malformed" /\ Return(<<writeError("400")>>)
       \/ req.readable = "yes" /\ req.messages = <<>> /\ Return(<<writeError("400")>>)
    /\ UNCHANGED <<server, iter, body, ctx, upstream, answer>>

Accepted == pc = "received" /\ req.readable = "yes" /\ req.messages # <<>>

Unconfigured ==
    /\ Accepted
    /\ provider = "none"
    /\ LET text == <<"w", Space, "w">>
       IN  Return(IF req.stream THEN StreamResponse(text) ELSE <<Body(text)>>)
    /\ UNCHANGED <<server, iter, body, ctx, upstream, answer>>

ServerPrompt == <<"server">>

Accept ==
    /\ Accepted
    /\ provider # "none"
    /\ LET c == ConvertMessages(req.messages, ServerPrompt)
       IN  messages' = <<Message("system", c.systemPrompt)>> \o c.messages
    /\ pc' = "call"
    /\ out' = IF Streaming THEN <<RoleChunk>> ELSE <<>>
    /\ UNCHANGED <<server, req, iter, body, ctx, upstream, answer>>

---------------------------------------------------------------------------
(* StreamWithTools *)

\* A context of its own with the provider's timeout, the body, the call.
Call ==
    /\ pc = "call"
    /\ pc' = "calling"
    /\ iter' = iter + 1
    /\ ctx' = IF ctx = "gone" THEN "gone" ELSE "live"
    /\ body' = IF provider = "openai" THEN OpenAIMessages(messages) ELSE AnthropicMessages(messages)
    /\ lines' = <<>> /\ link' = "open"
    /\ read' = 0 /\ content' = <<>> /\ calls' = <<>>
    /\ UNCHANGED <<server, req, messages, out>>

\* What a caller does with an error: the streaming handler logs it, so that the
\* client learns of it only from an error event; the others report it.
Fails(event) ==
    Return(IF Streaming THEN (IF event THEN StreamError ELSE <<>>)
           ELSE IF req.stream THEN StreamError ELSE <<writeError("502")>>)

\* The request cannot be sent, the context ends, or the status is not 200.
Refused ==
    /\ pc = "calling"
    /\ body' = <<>>
    /\ Fails(TRUE)
    /\ UNCHANGED <<server, iter, ctx, upstream, answer>>

\* Only the tool loop needs the conversation again.
Answered ==
    /\ pc = "calling"
    /\ ctx = "live"
    /\ pc' = "streaming"
    /\ body' = <<>>
    /\ req' = IF tools THEN req ELSE [req EXCEPT !.messages = <<>>]
    /\ messages' = IF tools THEN messages ELSE <<>>
    /\ UNCHANGED <<server, iter, ctx, upstream, answer, out>>

Scanned == pc = "streaming" /\ read < Len(lines)
Current == lines[read + 1]

\* The check between two lines: only one of the providers has it, and it
\* returns without an event.
ContextEnded ==
    /\ Scanned
    /\ provider = "openai"
    /\ ctx # "live"
    /\ Fails(FALSE)
    /\ UNCHANGED <<server, iter, body, ctx, upstream, answer>>

Readable == Scanned /\ (provider = "openai" => ctx = "live")

ScanSkips ==
    /\ Readable
    /\ Current.kind = "noise"
    /\ read' = read + 1
    /\ UNCHANGED <<server, pc, req, messages, iter, body, ctx, upstream, content, calls, out>>

ScanText ==
    /\ Readable
    /\ Current.kind = "text"
    /\ read' = read + 1
    /\ content' = Append(content, Current.x)
    /\ out' = IF Streaming THEN Append(out, TextChunk(<<Current.x>>)) ELSE out
    /\ UNCHANGED <<server, pc, req, messages, iter, body, ctx, upstream, calls>>

\* toolCalls[tcd.Index], made when it is not there
Pending(cs, i) == IF i \in DOMAIN cs THEN cs[i] ELSE [id |-> "", args |-> <<>>]
With(cs, i, tc) == [j \in DOMAIN cs \cup {i} |-> IF j = i THEN tc ELSE cs[j]]

\* Mutant: the id is taken from every delta.
ToolDelta_EveryId(cs, line) ==
    LET i == line.x
    IN  With(cs, i, [id   |-> IF line.kind = "head" THEN Id(i) ELSE "",
                     args |-> Append(Pending(cs, i).args, line.kind)])

ToolDelta(cs, line) ==
    LET i == line.x
    IN  With(cs, i, [id   |-> IF line.kind = "head" THEN Id(i) ELSE Pending(cs, i).id,
                     args |-> Append(Pending(cs, i).args, line.kind)])

ScanTool ==
    /\ Readable
    /\ Current.kind \in {"head", "tail"}
    /\ read' = read + 1
    /\ calls' = ToolDelta(calls, Current)
    /\ UNCHANGED <<server, pc, req, messages, iter, body, ctx, upstream, content, out>>

ScanBad ==
    /\ Readable
    /\ Current.kind = "bad"
    /\ Fails(TRUE)
    /\ UNCHANGED <<server, iter, body, ctx, upstream, answer>>

\* Mutant: the error event is followed by the events of a complete answer.
Broken_NoReturn ==
    /\ pc = "streaming" /\ read = Len(lines) /\ link = "broken"
    /\ Return(IF req.stream THEN StreamError \o <<StopChunk, DoneFrame>> ELSE <<writeError("502")>>)
    /\ UNCHANGED <<server, iter, body, ctx, upstream, answer>>

\* The connection breaks and everything in the buffer has been scanned.
Broken ==
    /\ pc = "streaming" /\ read = Len(lines) /\ link = "broken"
    /\ Fails(TRUE)
    /\ UNCHANGED <<server, iter, body, ctx, upstream, answer>>

Ended ==
    /\ pc = "streaming"
    /\ \/ read = Len(lines) /\ link = "eof"
       \/ Readable /\ Current.kind = "done"

Parsed(args) == args = <<"head", "tail">>

\* The SDK's blocks are parsed one by one and the first that does not parse ends
\* the call, without an event.
UnparsedInput ==
    /\ Ended
    /\ provider = "anthropic"
    /\ \E i \in DOMAIN calls : ~Parsed(calls[i].args)
    /\ Fails(FALSE)
    /\ UNCHANGED <<server, iter, body, ctx, upstream, answer>>

Complete == Ended /\ (provider = "anthropic" => \A i \in DOMAIN calls : Parsed(calls[i].args))

\* The calls with the indexes from 0 to their number; arguments that do not
\* parse are passed on raw.
ToolCalls ==
    LET Finished(tc) == [id |-> tc.id, args |-> IF Parsed(tc.args) THEN "parsed" ELSE "_raw"]
    IN  FlattenSeq([k \in 1..Cardinality(DOMAIN calls) |->
            IF k - 1 \in DOMAIN calls THEN <<Finished(calls[k - 1])>> ELSE <<>>])

\* The answer of a call without tools, or the last one of the tool loop.
Finish ==
    /\ Complete
    /\ tools => ToolCalls = <<>>
    /\ Return(CASE Streaming -> <<StopChunk, DoneFrame>>
                [] req.stream /\ tools -> StreamResponse(content)
                [] OTHER -> <<Body(content)>>)
    /\ UNCHANGED <<server, iter, body, ctx, upstream, answer>>

---------------------------------------------------------------------------
(* RunToolLoop, whose own steps are those of ToolLoop *)

RequestTools ==
    /\ Complete
    /\ tools
    /\ ToolCalls # <<>>
    /\ messages' = Append(messages, [Message("assistant", content) EXCEPT !.calls = ToolCalls])
    /\ pc' = "tools"
    /\ UNCHANGED <<server, req, iter, body, ctx, upstream, answer, out>>

\* One result for each call, and the next iteration.
RunTools ==
    /\ pc = "tools"
    /\ ctx # "gone"
    /\ iter < MaxIterations
    /\ LET ids == [k \in DOMAIN Last(messages).calls |-> Last(messages).calls[k].id]
       IN  messages' = Append(messages, [Message("tool", <<>>) EXCEPT !.results = ids])
    /\ pc' = "call"
    /\ UNCHANGED <<server, req, iter, body, ctx, upstream, answer, out>>

\* The request's context ended while the tools ran, or this was the last
\* iteration.
LoopFails ==
    /\ pc = "tools"
    /\ ctx = "gone" \/ iter = MaxIterations
    /\ Fails(TRUE)
    /\ UNCHANGED <<server, iter, body, ctx, upstream, answer>>

---------------------------------------------------------------------------
(* Environment *)

\* The API sends a line, ends its answer, or the connection breaks.
Send ==
    /\ pc = "streaming"
    /\ link = "open"
    /\ Len(lines) < MaxLines /\ Len(lines) - read < MaxAhead
    /\ \E l \in Lines : lines' = Append(lines, l)
    /\ UNCHANGED <<server, pc, req, messages, iter, body, ctx, link, answer, out>>

HangUp ==
    /\ pc = "streaming"
    /\ link = "open"
    /\ link' \in {"eof", "broken"}
    /\ UNCHANGED <<server, pc, req, messages, iter, body, ctx, lines, answer, out>>

\* The HTTP transport breaks a connection whose context has ended.
Abort ==
    /\ pc = "streaming"
    /\ link = "open"
    /\ ctx # "live"
    /\ link' = "broken"
    /\ UNCHANGED <<server, pc, req, messages, iter, body, ctx, lines, answer, out>>

\* Mutant: the call has no timeout.
Timeout_None == FALSE /\ UNCHANGED vars

Timeout ==
    /\ pc \in {"calling", "streaming"}
    /\ ctx = "live"
    /\ ctx' = "timeout"
    /\ UNCHANGED <<server, pc, req, messages, iter, body, upstream, answer, out>>

ClientGone ==
    /\ pc \notin {"idle", "returned"}
    /\ ctx # "gone"
    /\ ctx' = "gone"
    /\ UNCHANGED <<server, pc, req, messages, iter, body, upstream, answer, out>>

---------------------------------------------------------------------------
Handler ==
    \/ Reject \/ Unconfigured \/ Accept
    \/ Call \/ ContextEnded \/ ScanSkips \/ ScanText \/ ScanTool \/ ScanBad
    \/ Broken \/ UnparsedInput \/ Finish \/ RequestTools \/ RunTools \/ LoopFails

Environment == Receive \/ Answered \/ Send \/ HangUp \/ ClientGone

Next == Handler \/ Refused \/ Abort \/ Timeout \/ Environment

Spec == Init /\ [][Next]_vars

\* A call whose context has ended is given up.
GivesUp == ctx # "live" /\ Refused

\* What holds the handler up: tools that run, and a write to a client that is
\* there and may not read, which no WriteTimeout ends (serve.go:249-260).
HeldByTools == pc = "tools"
HeldByWrite == ctx # "gone" /\ ENABLED ((Handler \/ GivesUp) /\ out' # out)

\* Where nothing holds it up the handler runs, and the timer of a call fires.
\* Nothing is assumed of the API, the tools or the client.
FairSpec ==
    /\ Spec
    /\ WF_vars((Handler \/ GivesUp) /\ ~HeldByTools /\ (ctx = "gone" \/ out' = out))
    /\ WF_vars(Timeout)
    /\ WF_vars(Abort)
---------------------------------------------------------------------------
(* Properties *)

KindAt(i) == out[i].kind

\* At every moment the frames of a streamed answer are the beginning of: a role
\* chunk, text chunks, then either the stop chunk or an error, then [DONE] and
\* nothing more.  Only a failed tool loop, or a refused request, has no role
\* chunk (StreamFromProvider, StreamError and StreamResponse write them, called
\* from the handler and from the providers' callbacks).
FramesInOrder ==
    \A i \in DOMAIN out :
        CASE KindAt(i) = "role" -> i = 1 /\ req.stream
          [] KindAt(i) = "text" -> i > 1 /\ KindAt(i - 1) \in {"role", "text"}
          [] KindAt(i) = "stop" -> i > 1 /\ KindAt(i - 1) \in {"role", "text"}
          [] KindAt(i) = "error" -> IF i = 1 THEN tools ELSE KindAt(i - 1) \in {"role", "text"}
          [] KindAt(i) = "DONE" -> i = Len(out) /\ i > 1 /\ KindAt(i - 1) \in {"stop", "error"}
          [] OTHER -> Len(out) = 1

\* A stream ends with [DONE], whoever fails: the one exception is an answer
\* passed through while it comes, when the context ends with a line in hand
\* (OpenAI) or a tool call's input does not parse (Anthropic).
MarkedEnd ==
    (pc = "returned" /\ req.stream /\ \A i \in DOMAIN out : KindAt(i) \notin {"400", "413"}) =>
        \/ Last(out).kind = "DONE"
        \/ ~tools /\ provider = "openai" /\ ctx # "live" /\ read < Len(lines)
        \/ ~tools /\ provider = "anthropic" /\ link = "eof" /\ \E i \in Heads : i \notin Tails

\* What a client of the API relies on to read a stream.
StreamWellFormed == FramesInOrder /\ MarkedEnd

\* The client has been told that the answer is complete.
Succeeded ==
    /\ pc = "returned" /\ provider # "none"
    /\ \E i \in DOMAIN out : KindAt(i) \in {"stop", "200"}

\* The lines of the API's answer: an OpenAI stream is over at [DONE].
Answer ==
    LET done == {i \in DOMAIN lines : lines[i].kind = "done"}
    IN  IF done # {}
        THEN SubSeq(lines, 1, (CHOOSE i \in done : \A j \in done : i <= j) - 1)
        ELSE lines

\* The text of some lines.
Said(ls) ==
    FlattenSeq([k \in DOMAIN ls |-> IF ls[k].kind = "text" THEN <<ls[k].x>> ELSE <<>>])

\* An answer given as complete is letter for letter what the API sent in its last
\* answer, in its order, streamed as it came, split by tokenize or as one body;
\* and the API had ended it: the client is never told so when the connection
\* broke, or a line could not be read, before the answer was over.
AnswerIsTheModels ==
    Succeeded =>
        /\ FlattenSeq([i \in DOMAIN out |-> out[i].text]) = Said(Answer)
        /\ link = "eof" \/ Len(Answer) < Len(lines)
        /\ \A i \in DOMAIN Answer : Answer[i].kind # "bad"

\* The tool calls of an assistant message in a body are answered right after it,
\* each once and in their order.
ResultsFollow(b) ==
    \A i \in DOMAIN b : b[i].calls # <<>> =>
        LET n == Len(b[i].calls)
            answers == FlattenSeq([k \in 1..(Len(b) - i) |-> b[i + k].results])
        IN  /\ Len(answers) >= n
            /\ \A k \in 1..n : answers[k] = b[i].calls[k].id
            /\ b[i + 1].results # <<>>

\* When the API numbers its tool calls from 0, the tool loop runs all of them
\* in that order, under their ids, with the arguments that came for each of
\* them however the deltas were interleaved; it ends the loop with an answer
\* only if there were none; and the next body answers each of them, in one
\* message per result (OpenAI) or in one for all (Anthropic).
CallsSurvive ==
    LET Came(kind, i) == \E k \in DOMAIN Answer : Answer[k] = Line(kind, i)
        n == Cardinality({i \in Indexes : Came("head", i)})
        contiguous == \A i \in 0..n - 1 : Came("head", i)
    IN  /\ contiguous /\ pc = "tools" =>
             Last(messages).calls =
                [k \in 1..n |-> [id   |-> Id(k - 1),
                                 args |-> IF Came("tail", k - 1) THEN "parsed" ELSE "_raw"]]
        /\ contiguous /\ Succeeded /\ tools => n = 0
        /\ ResultsFollow(body)

\* What was said in some messages, and by whom.
TurnsOf(ms) ==
    FlattenSeq([i \in DOMAIN ms |->
        IF ms[i].role \in {"user", "assistant"} /\ ms[i].content # <<>>
        THEN <<[role |-> ms[i].role, content |-> ms[i].content]>> ELSE <<>>])

\* Every call to the API carries the server's prompt first, then all of the
\* client's system messages, and every user and assistant message in its order,
\* whichever provider is configured and in every iteration of the tool loop.
PromptReachesModel ==
    pc = "calling" =>
        /\ body[1].role = "system"
        /\ body[1].content = ServerPrompt \o SystemTexts(req.messages)
        /\ IF iter = 1 THEN TurnsOf(body) = TurnsOf(req.messages)
           ELSE IsPrefix(TurnsOf(req.messages), TurnsOf(body))
        /\ \A i \in 2..Len(body) : body[i].role # "system"

\* Every request returns: a silent API is given up when the timer fires, and the
\* tool loop ends after MaxIterations.  The exceptions are a request that is for
\* ever in its tools (see LoopReturns in ToolLoop) and one that for ever writes to
\* a client that neither reads nor leaves.
EveryRequestReturns ==
    \/ pc = "received" ~> pc = "returned"
    \/ <>[]HeldByTools
    \/ <>[]HeldByWrite
=============================================================================
