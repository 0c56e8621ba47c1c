---------------------------- MODULE Conversation ----------------------------
(***************************************************************************)
(* The forms a conversation takes on its way to the LLM: the messages of a *)
(* chat completion request, the agent's own llm.Message values, and the    *)
(* body of a call to an OpenAI-compatible or to the Anthropic API; and the *)
(* tokens a finished answer is streamed back in.                           *)
(*                                                                         *)
(* A text is a sequence of parts.  A tool call is known by its id.         *)
(***************************************************************************)
EXTENDS Sequences, SequencesExt, Integers

\* What a client may put in "role"; the handler does not check it.
Roles == {"system", "user", "assistant", "tool", "developer"}

\* llm.Message
Message(role, content) == [role |-> role, content |-> content, calls |-> <<>>, results |-> <<>>]

---------------------------------------------------------------------------
(* ConvertMessages *)

\* The texts of the client's system messages, one after the other.
SystemTexts(msgs) ==
    FlattenSeq([i \in DOMAIN msgs |->
        IF msgs[i].role = "system" THEN msgs[i].content ELSE <<>>])

\* Every other message keeps its role and its text and nothing else.
Converted(msgs) ==
    FlattenSeq([i \in DOMAIN msgs |->
        IF msgs[i].role = "system" THEN <<>> ELSE <<Message(msgs[i].role, msgs[i].content)>>])

\* Mutant: the client's system messages replace the server's prompt.
ConvertMessages_ClientWins(msgs, serverPrompt) ==
    [messages     |-> Converted(msgs),
     systemPrompt |-> IF SystemTexts(msgs) = <<>> THEN serverPrompt ELSE SystemTexts(msgs)]

\* System messages are taken out of the conversation and appended to the
\* server's prompt.
ConvertMessages(msgs, serverPrompt) ==
    [messages     |-> Converted(msgs),
     systemPrompt |-> serverPrompt \o SystemTexts(msgs)]

---------------------------------------------------------------------------
(* The request bodies: [role, content, calls, results] once more, where     *)
(* "null" is the JSON null an unknown role is marshalled to.               *)

Null == Message("null", <<>>)
Result(id) == [Message("tool", <<>>) EXCEPT !.results = <<id>>]

\* One message for each tool result.
OpenAIMessages(messages) ==
    FlattenSeq([i \in DOMAIN messages |->
        LET m == messages[i] IN
        CASE m.role \in {"system", "user", "assistant"} -> <<m>>
          [] m.role = "tool" -> [k \in DOMAIN m.results |-> Result(m.results[k])]
          [] OTHER -> <<Null>>])

\* The last system message is the system parameter, absent when empty; the
\* results of a turn are the blocks of one user message; an unknown role has
\* no case.
AnthropicMessages(messages) ==
    LET system == {i \in DOMAIN messages : messages[i].role = "system"}
        prompt == IF system = {} THEN <<>> ELSE messages[Max(system)].content
        turns  == FlattenSeq([i \in DOMAIN messages |->
                    LET m == messages[i] IN
                    CASE m.role \in {"user", "assistant"} -> <<m>>
                      [] m.role = "tool" -> <<[m EXCEPT !.role = "user", !.content = <<>>]>>
                      [] OTHER -> <<>>])
    IN  (IF prompt = <<>> THEN <<>> ELSE <<Message("system", prompt)>>) \o turns

---------------------------------------------------------------------------
(* tokenize: a text of characters, each white space or not, as the sequence *)
(* of its maximal runs of one kind                                         *)

Space == " "
SameRun(s, i, j) == \A k \in i..j : (s[k] = Space) = (s[i] = Space)
RunEnd(s, i) == CHOOSE j \in i..Len(s) : /\ SameRun(s, i, j)
                                         /\ j < Len(s) => ~SameRun(s, i, j + 1)

\* Mutant: the words only, as strings.Fields splits them.
tokenize_Fields(s) ==
    LET runs[i \in 1..Len(s) + 1] ==
            IF i > Len(s) THEN <<>>
            ELSE (IF s[i] = Space THEN <<>> ELSE <<SubSeq(s, i, RunEnd(s, i))>>)
                 \o runs[RunEnd(s, i) + 1]
    IN  runs[1]

tokenize(s) ==
    LET runs[i \in 1..Len(s) + 1] ==
            IF i > Len(s) THEN <<>>
            ELSE <<SubSeq(s, i, RunEnd(s, i))>> \o runs[RunEnd(s, i) + 1]
    IN  runs[1]
=============================================================================
