-------------------------- MODULE MCAgentExecutor ---------------------------
(* Small instances of AgentExecutor. *)
EXTENDS AgentExecutor, TLC

CONSTANTS r1, r2, r3

\* Two clients of one user, and two callers with the separator in the subject: a|b
\* may write the key of a's client b, and the two of them are alike.  Ids with the
\* separator in them move where it falls; the long id is cut to the short one.
PlainCallers == {[sub |-> <<"a">>, azp |-> <<>>], [sub |-> <<"a">>, azp |-> <<"b">>]}
SplitCallers == {[sub |-> <<"a", "|", "b">>, azp |-> <<>>], [sub |-> <<"a", "|">>, azp |-> <<"b">>]}
AnyCallers == PlainCallers \cup SplitCallers
NoCallers == {}
Ids == {<<>>, <<"x">>, <<"|", "x">>, <<"|", "x", "y">>}
OneId == {<<"x">>}

SomeKeys == {sessionKey(c, Cut(id)) : c \in AnyCallers \cup {NoClaims}, id \in Ids \ {<<>>}}
OneKey == {<<"x">>}

ReqSymmetry == Permutations(Reqs)
=============================================================================
