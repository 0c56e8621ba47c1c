---------------------------- MODULE MemoryStore -----------------------------
(***************************************************************************)
(* The in-memory session store of internal/session/store.go, one action    *)
(* per hold of its mutex, with the clock that expires idle sessions.       *)
(***************************************************************************)
EXTENDS Naturals, Sequences

CONSTANTS
    Keys,       \* session keys
    System,     \* the system message of a new session
    TTL,        \* s.ttl, in clock ticks
    MaxTime     \* bound on the clock

ASSUME ClockAssumption == TTL \in Nat /\ MaxTime \in Nat

VARIABLES
    sessions,   \* s.sessions: a Session for each key, or NoSession
    now         \* time.Now()

store == <<sessions, now>>

NoSession == [messages |-> <<>>, lastActive |-> 0]

\* Every session has at least its system message, so NoSession is none.
Has(k) == sessions[k] # NoSession

StoreInit ==
    /\ sessions = [k \in Keys |-> NoSession]
    /\ now = 0

GetOrCreate(k) ==
    /\ sessions' = IF Has(k) THEN sessions
                   ELSE [sessions EXCEPT ![k] =
                           [messages |-> <<System>>, lastActive |-> now]]
    /\ UNCHANGED now

\* Mutant: Append to a session that is gone starts a new one.
AppendMessage_Recreates(k, m) ==
    /\ sessions' = [sessions EXCEPT ![k] =
                       [messages |-> Append(@.messages, m), lastActive |-> now]]
    /\ UNCHANGED now

\* Append to a session that is gone does nothing and reports no error.
AppendMessage(k, m) ==
    /\ sessions' = IF Has(k)
                   THEN [sessions EXCEPT ![k] =
                           [messages |-> Append(@.messages, m), lastActive |-> now]]
                   ELSE sessions
    /\ UNCHANGED now

\* Mutant: the snapshot is taken before the append.
Snapshot_Early(k, m) == sessions[k].messages

\* What AppendAndSnapshot returns: nil if the session is gone.
Snapshot(k, m) == IF Has(k) THEN Append(sessions[k].messages, m) ELSE <<>>

Idle(k) == Has(k) /\ now > sessions[k].lastActive + TTL

\* One run of the reaper's loop.
Reap ==
    /\ \E k \in Keys : Idle(k)
    /\ sessions' = [k \in Keys |-> IF Idle(k) THEN NoSession ELSE sessions[k]]
    /\ UNCHANGED now

Tick ==
    /\ now < MaxTime
    /\ now' = now + 1
    /\ UNCHANGED sessions
=============================================================================
