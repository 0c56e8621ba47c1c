---------------------------- MODULE MCChatStream ----------------------------
(* Small instances of ChatStream. *)
EXTENDS ChatStream

Says(role, text) == [role |-> role, content |-> <<text>>]

\* A system message that comes late, two turns, and the roles that are neither.
MCConversations ==
    {<<>>,
     <<Says("user", "m1"), Says("system", "m2")>>,
     <<Says("user", "m1"), Says("assistant", "m2")>>,
     <<Says("tool", "m1"), Says("developer", "m2")>>}

MCIds == <<"c0", "c1">>
=============================================================================
