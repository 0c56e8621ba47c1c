---------------------------- MODULE SQLiteStore -----------------------------
(***************************************************************************)
(* The persistent session store of internal/session/sqlite_store.go: two   *)
(* tables, transactions of several statements any of which may fail, and a *)
(* process that may crash between any two of them.                         *)
(*                                                                         *)
(* The mutex s.mu is held through each operation, so one is in progress at *)
(* a time (op).  SQLite itself is external: a transaction works on a copy  *)
(* of the tables that Commit installs and everything else throws away.     *)
(***************************************************************************)
EXTENDS Integers, Sequences, FiniteSets, SequencesExt

CONSTANTS
    Keys,       \* session ids
    Messages,   \* messages to append
    System,     \* the system message
    TTL,        \* s.ttl, in clock ticks
    MaxTime,    \* bound on the clock
    MaxLen,     \* bound on the messages of a session
    FallBack,   \* the tick at which local time is set back (end of DST)
    Shift       \* by how many ticks; 0 where local time is UTC

ASSUME SQLiteAssumption ==
    /\ TTL \in Nat /\ MaxTime \in Nat /\ MaxLen \in Nat
    /\ FallBack \in Nat /\ Shift \in Nat

VARIABLES
    db,         \* the committed tables
    tx,         \* the tables as the open transaction sees them, or NoTx
    op,         \* the operation that holds s.mu, or NoOp
    reply,      \* what the last operation returned, or NoReply
    foreignKeys,\* PRAGMA foreign_keys of the open connection
    up,         \* the process runs and the database is open
    now         \* time.Now()

vars == <<db, tx, op, reply, foreignKeys, up, now>>

\* Rows of sessions are [id, lastActive]; rows of messages [id, seq, msg].
Rows == [sessions : SUBSET [id : Keys, lastActive : 0 .. MaxTime],
         messages : SUBSET [id : Keys, seq : Nat, msg : Messages \cup {System}]]
NoRows == [sessions |-> {}, messages |-> {}]
NoTx == [sessions |-> {}, messages |-> {}, none |-> TRUE]
NoOp == [name |-> "none"]
NoReply == [name |-> "none"]

HasSession(t, k) == \E row \in t.sessions : row.id = k
RowsOf(t, k) == {row \in t.messages : row.id = k}

\* SELECT ... FROM messages WHERE session_id = k ORDER BY seq: the i-th message
\* is in the row that i - 1 others precede.
Load(t, k) ==
    LET rows == RowsOf(t, k)
        Before(row) == {r \in rows : r.seq < row.seq}
    IN  [i \in 1 .. Cardinality(rows) |->
            (CHOOSE row \in rows : Cardinality(Before(row)) = i - 1).msg]

\* SELECT COALESCE(MAX(seq), -1) + 1
NextSeq(t, k) ==
    LET seqs == {row.seq : row \in RowsOf(t, k)}
    IN  IF seqs = {} THEN 0 ELSE 1 + CHOOSE s \in seqs : \A q \in seqs : q <= s

\* The order of two RFC 3339 strings in local time: the wall clock first, then
\* the offset.
Offset(t) == IF t < FallBack THEN Shift ELSE 0
LexicallyBefore(a, b) ==
    \/ a + Offset(a) < b + Offset(b)
    \/ a + Offset(a) = b + Offset(b) /\ Offset(a) < Offset(b)

Init ==
    /\ db = NoRows
    /\ tx = NoTx
    /\ op = NoOp
    /\ reply = NoReply
    /\ foreignKeys = FALSE
    /\ up = FALSE
    /\ now = 0

---------------------------------------------------------------------------
(* NewSQLiteStore, and the end of the process or of the store. *)

\* Mutant: foreign keys are left off, SQLite's default.
Open_NoForeignKeys ==
    /\ ~up
    /\ up' = TRUE
    /\ UNCHANGED <<db, tx, op, reply, foreignKeys, now>>

Open ==
    /\ ~up
    /\ up' = TRUE
    /\ foreignKeys' = TRUE
    /\ UNCHANGED <<db, tx, op, reply, now>>

\* A crash, or Close while an operation runs: an open transaction is lost.
Crash ==
    /\ up
    /\ up' = FALSE
    /\ foreignKeys' = FALSE
    /\ tx' = NoTx
    /\ op' = NoOp
    /\ reply' = NoReply
    /\ UNCHANGED <<db, now>>

---------------------------------------------------------------------------
(* The operations, one action per statement. *)

At(name, step) == up /\ op # NoOp /\ op.name = name /\ op.step = step
InTx(step) == up /\ op # NoOp /\ op.name \in {"Append", "AppendAndSnapshot"} /\ op.step = step
Step(step) == op' = [op EXCEPT !.step = step]

\* The operation returns; the deferred Rollback discards what is not committed.
Return(err, msgs) ==
    /\ op' = NoOp
    /\ tx' = NoTx
    /\ reply' = [name |-> op.name, key |-> op.key, msg |-> op.msg,
                 err |-> err, msgs |-> msgs]

Begin(name, k, m, step) ==
    /\ up
    /\ op = NoOp
    /\ op' = [name |-> name, key |-> k, msg |-> m, step |-> step]
    /\ reply' = NoReply
    /\ UNCHANGED <<db, foreignKeys, up, now>>

\* GetOrCreate takes s.mu and loads the session; Append begins its transaction.
CallGetOrCreate(k) == Begin("GetOrCreate", k, System, "load") /\ UNCHANGED tx
CallAppend(k, m, name) ==
    /\ name \in {"Append", "AppendAndSnapshot"}
    /\ Cardinality(RowsOf(db, k)) < MaxLen
    /\ Begin(name, k, m, "check")
    /\ tx' = db

\* Any statement may fail: the operation returns the error.
StatementFails ==
    /\ up
    /\ op # NoOp
    /\ Return(TRUE, <<>>)
    /\ UNCHANGED <<db, foreignKeys, up, now>>

LoadFound ==
    /\ At("GetOrCreate", "load")
    /\ HasSession(db, op.key)
    /\ Return(FALSE, Load(db, op.key))
    /\ UNCHANGED <<db, foreignKeys, up, now>>

LoadMissing ==
    /\ At("GetOrCreate", "load")
    /\ ~HasSession(db, op.key)
    /\ tx' = db
    /\ Step("insertSession")
    /\ UNCHANGED <<db, reply, foreignKeys, up, now>>

InsertSession ==
    /\ At("GetOrCreate", "insertSession")
    /\ tx' = [tx EXCEPT !.sessions = @ \cup {[id |-> op.key, lastActive |-> now]}]
    /\ Step("insertSystem")
    /\ UNCHANGED <<db, reply, foreignKeys, up, now>>

\* UNIQUE(session_id, seq) refuses the row if seq 0 is taken.
InsertSystem ==
    /\ At("GetOrCreate", "insertSystem")
    /\ \A row \in RowsOf(tx, op.key) : row.seq # 0
    /\ tx' = [tx EXCEPT !.messages = @ \cup {[id |-> op.key, seq |-> 0, msg |-> System]}]
    /\ Step("commit")
    /\ UNCHANGED <<db, reply, foreignKeys, up, now>>

CommitCreate ==
    /\ At("GetOrCreate", "commit")
    /\ db' = tx
    /\ Return(FALSE, <<System>>)
    /\ UNCHANGED <<foreignKeys, up, now>>

\* No such session: nil, and for a snapshot an empty one.
CheckMissing ==
    /\ InTx("check")
    /\ ~HasSession(tx, op.key)
    /\ Return(FALSE, <<>>)
    /\ UNCHANGED <<db, foreignKeys, up, now>>

CheckFound ==
    /\ InTx("check")
    /\ HasSession(tx, op.key)
    /\ Step("insert")
    /\ UNCHANGED <<db, tx, reply, foreignKeys, up, now>>

\* Mutant: the insert is repeated.
InsertMessage_Twice ==
    LET n == NextSeq(tx, op.key) IN
    /\ InTx("insert")
    /\ tx' = [tx EXCEPT !.messages =
                @ \cup {[id |-> op.key, seq |-> s, msg |-> op.msg] : s \in {n, n + 1}}]
    /\ Step("touch")
    /\ UNCHANGED <<db, reply, foreignKeys, up, now>>

InsertMessage ==
    /\ InTx("insert")
    /\ tx' = [tx EXCEPT !.messages =
                @ \cup {[id |-> op.key, seq |-> NextSeq(tx, op.key), msg |-> op.msg]}]
    /\ Step("touch")
    /\ UNCHANGED <<db, reply, foreignKeys, up, now>>

\* UPDATE sessions SET last_active = now WHERE id = key
Touch ==
    /\ InTx("touch")
    /\ tx' = [tx EXCEPT !.sessions =
                {row \in @ : row.id # op.key} \cup {[id |-> op.key, lastActive |-> now]}]
    /\ Step("commit")
    /\ UNCHANGED <<db, reply, foreignKeys, up, now>>

\* Mutant: the snapshot is loaded before the commit.
CommitAppend_EarlySnapshot ==
    /\ InTx("commit")
    /\ db' = tx
    /\ Return(FALSE, IF op.name = "Append" THEN <<>> ELSE Load(db, op.key))
    /\ UNCHANGED <<foreignKeys, up, now>>

CommitAppend ==
    /\ InTx("commit")
    /\ db' = tx
    /\ IF op.name = "Append"
       THEN Return(FALSE, <<>>)
       ELSE tx' = NoTx /\ Step("reload") /\ UNCHANGED reply
    /\ UNCHANGED <<foreignKeys, up, now>>

Reload ==
    /\ InTx("reload")
    /\ Return(FALSE, Load(db, op.key))
    /\ UNCHANGED <<db, foreignKeys, up, now>>

\* Mutant: the cutoff is now.
Expired_NoTTL(row) == LexicallyBefore(row.lastActive, now)

\* DELETE FROM sessions WHERE last_active < cutoff, and the cascade.
Expired(row) == LexicallyBefore(row.lastActive, now - TTL)

Reap ==
    LET gone == {row \in db.sessions : Expired(row)} IN
    /\ up
    /\ op = NoOp
    /\ gone # {}
    /\ db' = [sessions |-> db.sessions \ gone,
              messages |-> IF foreignKeys
                           THEN {m \in db.messages : \A s \in gone : s.id # m.id}
                           ELSE db.messages]
    /\ reply' = NoReply
    /\ UNCHANGED <<tx, op, foreignKeys, up, now>>

Tick ==
    /\ now < MaxTime
    /\ now' = now + 1
    /\ UNCHANGED <<db, tx, op, reply, foreignKeys, up>>

Next ==
    \/ Open \/ Crash
    \/ \E k \in Keys : CallGetOrCreate(k)
    \/ \E k \in Keys, m \in Messages :
          CallAppend(k, m, "Append") \/ CallAppend(k, m, "AppendAndSnapshot")
    \/ LoadFound \/ LoadMissing \/ InsertSession \/ InsertSystem \/ CommitCreate
    \/ CheckMissing \/ CheckFound \/ InsertMessage \/ Touch \/ CommitAppend \/ Reload
    \/ StatementFails \/ Reap \/ Tick

Spec == Init /\ [][Next]_vars

---------------------------------------------------------------------------
(* Properties *)

TypeOK ==
    /\ db \in Rows
    /\ up \in BOOLEAN /\ foreignKeys \in BOOLEAN
    /\ now \in 0 .. MaxTime
    /\ tx = NoTx \/ tx \in Rows
    /\ reply # NoReply => reply.err \in BOOLEAN /\ reply.msgs \in Seq(Messages \cup {System})

\* The tables stay consistent whatever statement fails and wherever the process
\* dies: one row per session, no message without a session, the messages of a
\* session numbered 0, 1, 2 ... and number 0 the system prompt.
TablesConsistent ==
    /\ \A a, b \in db.sessions : a.id = b.id => a = b
    /\ \A row \in db.messages : HasSession(db, row.id)
    /\ \A k \in Keys : HasSession(db, k) =>
          /\ {row.seq : row \in RowsOf(db, k)} = 0 .. (Cardinality(RowsOf(db, k)) - 1)
          /\ [id |-> k, seq |-> 0, msg |-> System] \in db.messages

\* A snapshot is the whole conversation and ends with the message just appended;
\* GetOrCreate and AppendAndSnapshot without error on a live session return
\* what is in the database.
SnapshotIsCommitted ==
    reply # NoReply /\ ~reply.err /\ reply.name # "Append" /\ HasSession(db, reply.key) =>
        /\ reply.msgs = Load(db, reply.key)
        /\ reply.name = "AppendAndSnapshot" => Last(reply.msgs) = reply.msg

\* SQLiteStore implements session.SessionStore: a transaction that fails or is
\* cut off by a crash leaves no trace in any conversation.
Promised == INSTANCE SessionStore WITH
    conversation <- [k \in Keys |-> IF HasSession(db, k) THEN Load(db, k) ELSE <<>>]
ImplementsSessionStore == Promised!Spec

\* A session disappears only if it has been idle for longer than the TTL, and
\* in particular survives a crash: design notes,
\* docs/superpowers/specs/2026-05-04-server-side-sessions-design.md:42.  The
\* exception lasts for one TTL after local time is set back: last_active and the
\* cutoff are compared as text in two offsets, and a session in use is reaped.
ReapsOnlyIdle ==
    [][\A row \in db.sessions :
          (\A r \in db'.sessions : r.id # row.id) =>
              \/ now - row.lastActive > TTL
              \/ Shift > 0 /\ now - TTL < FallBack /\ FallBack <= row.lastActive]_vars
=============================================================================
