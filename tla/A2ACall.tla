------------------------------ MODULE A2ACall -------------------------------
(***************************************************************************)
(* The a2a_call tool of internal/a2acall: tool calls run in parallel, and  *)
(* the first ones to a peer with a pinned key share one fetch and          *)
(* verification of its signed agent card (a singleflight group).           *)
(*                                                                         *)
(* The peers are external: what the card endpoint and the agent answer may *)
(* change at any time.  A call's context may end at any time.              *)
(***************************************************************************)
EXTENDS FiniteSets

CONSTANTS
    Callers,    \* goroutines that run Execute, one call after another
    Peers,      \* configured peers
    Pinned,     \* those with a CardKey
    Unknown,    \* a name that is no peer's
    Nobody      \* no leader

ASSUME PeersAssumption ==
    Pinned \subseteq Peers /\ Unknown \notin Peers /\ Nobody \notin Callers

VARIABLES
    cardVerified,  \* t.cardVerified: peers whose card verified in this process
    flight,        \* t.cardGroup: the caller that leads the fetch for a pinned peer
    stage,         \* where each caller is in Execute
    peer,          \* the peer each caller asks for
    ended,         \* callCtx is done: cancelled, or the peer's timeout
    outcome,       \* what verifyCard returned, or what Execute did
    endpoint,      \* what the card endpoint of each pinned peer answers now
    authentic      \* history: peers that have served a card that verifies

peerVars == <<cardVerified, flight, stage, peer, ended, outcome, endpoint, authentic>>

Stages == {"idle", "start", "group", "lead", "fetch", "mark", "leave", "join",
        "invoke", "returned"}
InFlight == {"lead", "fetch", "mark", "leave"}

---------------------------------------------------------------------------
(* verifyCard *)

\* A signature entry is malformed, does not verify, or verifies.
Entries == {"malformed", "mismatch", "valid"}

\* The endpoint cannot be reached in time, refuses, serves what is no card, or
\* serves a card with a set of signature entries.
CardAnswers == [kind : {"transport", "http", "format"}, entries : {{}}]
               \cup [kind : {"card"}, entries : SUBSET Entries]

\* Mutant: any entry that is not malformed will do.
verifyCard_Lax(a) ==
    CASE a.kind # "card" -> a.kind
      [] a.entries \ {"malformed"} # {} -> "verified"
      [] OTHER -> "format"

\* Mutant: every entry must verify.
verifyCard_All(a) ==
    CASE a.kind # "card" -> a.kind
      [] a.kind = "card" /\ a.entries = {"valid"} -> "verified"
      [] OTHER -> "signature"

\* The error is told apart so that the LLM sees a denial, a format problem, a
\* forged card or a transport failure (cardErrorReason).
verifyCard(a) ==
    CASE a.kind # "card" -> a.kind
      [] a.kind = "card" /\ "valid" \in a.entries -> "verified"
      [] a.kind = "card" /\ a.entries = {"malformed"} -> "format"
      [] OTHER -> "signature"

CardErrors == {"transport", "http", "format", "signature"}

\* How Execute ends once the message is sent: the state of the task or message
\* decides in formatResult; a response of status 400 or more is captured.
Replies == {"ok", "taskFailed", "denied", "requestFailed"}
Outcomes == {"none", "verified", "unknownPeer", "ctx"} \cup CardErrors \cup Replies

PeerTypeOK ==
    /\ cardVerified \subseteq Peers
    /\ flight \in [Pinned -> Callers \cup {Nobody}]
    /\ stage \in [Callers -> Stages]
    /\ peer \in [Callers -> Peers \cup {Unknown}]
    /\ ended \in [Callers -> BOOLEAN]
    /\ outcome \in [Callers -> Outcomes]
    /\ endpoint \in [Pinned -> CardAnswers]
    /\ authentic \subseteq Peers

PeerInit ==
    /\ cardVerified = {}
    /\ flight = [p \in Pinned |-> Nobody]
    /\ stage = [c \in Callers |-> "idle"]
    /\ peer = [c \in Callers |-> Unknown]
    /\ ended = [c \in Callers |-> FALSE]
    /\ outcome = [c \in Callers |-> "none"]
    /\ endpoint \in [Pinned -> CardAnswers]
    /\ authentic = {}

---------------------------------------------------------------------------
(* Execute *)

Goto(c, l) == stage' = [stage EXCEPT ![c] = l]
Return(c, o) == Goto(c, "returned") /\ outcome' = [outcome EXCEPT ![c] = o]

Call(c, p) ==
    /\ stage[c] \in {"idle", "returned"}
    /\ peer' = [peer EXCEPT ![c] = p]
    /\ ended' = [ended EXCEPT ![c] = FALSE]
    /\ outcome' = [outcome EXCEPT ![c] = "none"]
    /\ Goto(c, "start")
    /\ UNCHANGED <<cardVerified, flight, endpoint, authentic>>

UnknownPeer(c) ==
    /\ stage[c] = "start"
    /\ peer[c] = Unknown
    /\ Return(c, "unknownPeer")
    /\ UNCHANGED <<cardVerified, flight, peer, ended, endpoint, authentic>>

\* peer.CardKey == nil || t.cardOK(peer.Name)
CardNotNeeded(c) ==
    /\ stage[c] = "start"
    /\ peer[c] \in Peers
    /\ peer[c] \notin Pinned \/ peer[c] \in cardVerified
    /\ Goto(c, "invoke")
    /\ UNCHANGED <<cardVerified, flight, peer, ended, outcome, endpoint, authentic>>

CardNeeded(c) ==
    /\ stage[c] = "start"
    /\ peer[c] \in Pinned \ cardVerified
    /\ Goto(c, "group")
    /\ UNCHANGED <<cardVerified, flight, peer, ended, outcome, endpoint, authentic>>

\* cardGroup.Do: the first caller for the peer runs the function,
Lead(c) ==
    /\ stage[c] = "group"
    /\ flight[peer[c]] = Nobody
    /\ flight' = [flight EXCEPT ![peer[c]] = c]
    /\ Goto(c, "lead")
    /\ UNCHANGED <<cardVerified, peer, ended, outcome, endpoint, authentic>>

\* and the others wait for its result, whatever becomes of their own context.
Join(c) ==
    /\ stage[c] = "group"
    /\ flight[peer[c]] # Nobody
    /\ Goto(c, "join")
    /\ UNCHANGED <<cardVerified, flight, peer, ended, outcome, endpoint, authentic>>

\* The card was verified between the first look and the group.
AlreadyVerified(c) ==
    /\ stage[c] = "lead"
    /\ peer[c] \in cardVerified
    /\ outcome' = [outcome EXCEPT ![c] = "verified"]
    /\ Goto(c, "leave")
    /\ UNCHANGED <<cardVerified, flight, peer, ended, endpoint, authentic>>

FetchCard(c) ==
    /\ stage[c] = "lead"
    /\ peer[c] \notin cardVerified
    /\ Goto(c, "fetch")
    /\ UNCHANGED <<cardVerified, flight, peer, ended, outcome, endpoint, authentic>>

\* Mutant: the fetch runs under the context of the caller that leads it.
CardArrives_LeaderContext(c) ==
    LET o == IF ended[c] THEN "ctx" ELSE verifyCard(endpoint[peer[c]]) IN
    /\ stage[c] = "fetch"
    /\ outcome' = [outcome EXCEPT ![c] = o]
    /\ authentic' = IF o = "verified" THEN authentic \cup {peer[c]} ELSE authentic
    /\ Goto(c, IF o = "verified" THEN "mark" ELSE "leave")
    /\ UNCHANGED <<cardVerified, flight, peer, ended, endpoint>>

\* The fetch is detached from the leader's context, bounded by the timeout of
\* the peer, and ends with what the endpoint answers at this moment.
CardArrives(c) ==
    LET a == endpoint[peer[c]] IN
    /\ stage[c] = "fetch"
    /\ outcome' = [outcome EXCEPT ![c] = verifyCard(a)]
    /\ authentic' = IF "valid" \in a.entries THEN authentic \cup {peer[c]} ELSE authentic
    /\ Goto(c, IF verifyCard(a) = "verified" THEN "mark" ELSE "leave")
    /\ UNCHANGED <<cardVerified, flight, peer, ended, endpoint>>

markCardOK(c) ==
    /\ stage[c] = "mark"
    /\ cardVerified' = cardVerified \cup {peer[c]}
    /\ Goto(c, "leave")
    /\ UNCHANGED <<flight, peer, ended, outcome, endpoint, authentic>>

\* Mutant: the waiters are left behind.
Leave_Alone(c) ==
    /\ stage[c] = "leave"
    /\ flight' = [flight EXCEPT ![peer[c]] = Nobody]
    /\ Goto(c, IF outcome[c] = "verified" THEN "invoke" ELSE "returned")
    /\ UNCHANGED <<cardVerified, peer, ended, outcome, endpoint, authentic>>

\* The function returns: the group forgets the peer, and the leader and all its
\* waiters go on with the same result.
Leave(c) ==
    LET shared == {d \in Callers : d = c \/ (stage[d] = "join" /\ peer[d] = peer[c])} IN
    /\ stage[c] = "leave"
    /\ flight' = [flight EXCEPT ![peer[c]] = Nobody]
    /\ outcome' = [d \in Callers |-> IF d \in shared THEN outcome[c] ELSE outcome[d]]
    /\ stage' = [d \in Callers |->
                IF d \notin shared THEN stage[d]
                ELSE IF outcome[c] = "verified" THEN "invoke" ELSE "returned"]
    /\ UNCHANGED <<cardVerified, peer, ended, endpoint, authentic>>

\* The message is sent and answered, or refused, or cannot be delivered.
Invoke(c) ==
    /\ stage[c] = "invoke"
    /\ IF ended[c] THEN Return(c, "ctx") ELSE \E o \in Replies : Return(c, o)
    /\ UNCHANGED <<cardVerified, flight, peer, ended, endpoint, authentic>>

---------------------------------------------------------------------------
(* The world around it. *)

CallCancelled(c) ==
    /\ stage[c] \notin {"idle", "returned"}
    /\ ~ended[c]
    /\ ended' = [ended EXCEPT ![c] = TRUE]
    /\ UNCHANGED <<cardVerified, flight, stage, peer, outcome, endpoint, authentic>>

EndpointChanges(p) ==
    /\ \E a \in CardAnswers : endpoint' = [endpoint EXCEPT ![p] = a]
    /\ UNCHANGED <<cardVerified, flight, stage, peer, ended, outcome, authentic>>

ExecuteStep(c) ==
    \/ UnknownPeer(c) \/ CardNotNeeded(c) \/ CardNeeded(c) \/ Lead(c) \/ Join(c)
    \/ AlreadyVerified(c) \/ FetchCard(c) \/ CardArrives(c) \/ markCardOK(c)
    \/ Leave(c) \/ Invoke(c)

PeerNext ==
    \/ \E c \in Callers : ExecuteStep(c) \/ CallCancelled(c)
    \/ \E c \in Callers, p \in Peers \cup {Unknown} : Call(c, p)
    \/ \E p \in Pinned : EndpointChanges(p)

PeerSpec == PeerInit /\ [][PeerNext]_peerVars

\* Goroutines run; the fetch and the call end within the peer's timeout.
PeerFairness == \A c \in Callers : WF_peerVars(ExecuteStep(c))
FairPeerSpec == PeerSpec /\ PeerFairness

---------------------------------------------------------------------------
(* Properties *)

\* "CardKey verifies the peer's signed agent card before the first call"
\* (a2acall.go:30): no caller gets to Invoke on a pinned peer that has not
\* served a card with a valid signature, whoever fetched it.
VerifiedBeforeInvoke ==
    \A c \in Callers : stage[c] = "invoke" /\ peer[c] \in Pinned => peer[c] \in authentic

\* "cardGroup collapses concurrent first calls for the same peer into one card
\* fetch" (a2acall.go:68): one leader per peer, and none for a peer that is
\* verified already, even if the caller looked before it was.
OneFetchPerPeer ==
    \A c \in Callers : stage[c] \in InFlight =>
        /\ flight[peer[c]] = c
        /\ stage[c] = "fetch" => peer[c] \notin cardVerified

\* A caller that waits for a shared fetch waits for one that is under way.
NobodyWaitsInVain ==
    \A c \in Callers : stage[c] = "join" =>
        \E d \in Callers : stage[d] \in InFlight /\ peer[d] = peer[c]

\* "The shared fetch must not be cancelled by whichever caller leads"
\* (a2acall.go:137): a call fails because of a context only if its own ended.
CancellationIsPrivate == \A c \in Callers : outcome[c] = "ctx" => ended[c]

\* Every call ends, waiters of a shared fetch included.
EveryCallReturns == \A c \in Callers : stage[c] = "start" ~> stage[c] = "returned"

\* "Only successes are recorded; a failed verification is retried next call"
\* (a2acall.go:192): once a peer serves a good card for good, its calls stop
\* failing for its card.
FixedPeerRecovers ==
    \A p \in Pinned :
        \/ []<>("valid" \notin endpoint[p].entries)
        \/ <>[][\A c \in Callers :
                  peer[c] = p /\ stage[c] # "returned" /\ stage'[c] = "returned" =>
                      outcome'[c] \notin CardErrors]_peerVars
=============================================================================
