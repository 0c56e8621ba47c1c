---------------------------- MODULE SessionStore ----------------------------
(***************************************************************************)
(* What the interface session.SessionStore (internal/session/store.go)     *)
(* promises of a backend: a conversation is created with the system prompt *)
(* alone, grows by one message at a time, and disappears only as a whole.  *)
(***************************************************************************)
EXTENDS Sequences

CONSTANTS
    Keys,       \* session keys
    Messages,   \* messages a caller may append
    System      \* the system message

VARIABLE conversation   \* the messages of each session, or NoConversation

\* Every conversation has its system message, so the empty one is none.
NoConversation == <<>>

Init == conversation = [k \in Keys |-> NoConversation]

Create(k) ==
    /\ conversation[k] = NoConversation
    /\ conversation' = [conversation EXCEPT ![k] = <<System>>]

Add(k, m) ==
    /\ conversation[k] # NoConversation
    /\ conversation' = [conversation EXCEPT ![k] = Append(conversation[k], m)]

Expire(ks) ==
    /\ ks # {}
    /\ conversation' = [k \in Keys |->
                          IF k \in ks THEN NoConversation ELSE conversation[k]]

Next ==
    \/ \E k \in Keys : Create(k) \/ \E m \in Messages : Add(k, m)
    \/ \E ks \in SUBSET Keys : Expire(ks)

Spec == Init /\ [][Next]_conversation
=============================================================================
