------------------------- MODULE SQLiteStore_proofs -------------------------
(***************************************************************************)
(* Proofs about the session store in SQLite, for any sessions, messages    *)
(* and clock, with statements that fail and a process that dies anywhere.  *)
(*                                                                         *)
(* The open transaction is, at each statement, the committed tables and    *)
(* what the statements so far have written; what is committed has, for     *)
(* each session, the rows 0, 1, 2 ... and the system prompt in row 0.      *)
(***************************************************************************)
EXTENDS SQLiteStore, FiniteSetTheorems, SequenceTheorems, TLAPS

Stored == Messages \cup {System}
SessionRow(k, t) == [id |-> k, lastActive |-> t]
MessageRow(k, n, m) == [id |-> k, seq |-> n, msg |-> m]

Writes == {"Append", "AppendAndSnapshot"}
Ops == [name : {"GetOrCreate"}, key : Keys, msg : {System},
        step : {"load", "insertSession", "insertSystem", "commit"}]
         \cup [name : Writes, key : Keys, msg : Messages,
               step : {"check", "insert", "touch", "commit", "reload"}]

Size(k) == Cardinality(RowsOf(db, k))

\* The messages of a session are numbered without gaps from the system prompt on.
Numbered(t, k) ==
    LET rows == RowsOf(t, k) IN
    /\ IsFiniteSet(rows)
    /\ {row.seq : row \in rows} = 0 .. (Cardinality(rows) - 1)
    /\ HasSession(t, k) => MessageRow(k, 0, System) \in rows

OneRowEach(t) == \A a, b \in t.sessions : a.id = b.id => a = b
NoOrphans(t) == \A row \in t.messages : HasSession(t, row.id)

Consistent(t) ==
    /\ t \in Rows
    /\ OneRowEach(t)
    /\ NoOrphans(t)
    /\ \A k \in Keys : Numbered(t, k)

Types ==
    /\ up \in BOOLEAN /\ foreignKeys \in BOOLEAN /\ (up => foreignKeys)
    /\ now \in 0 .. MaxTime
    /\ op = NoOp \/ op \in Ops

\* What the statements of GetOrCreate and of the appends have written so far.
Creating(k) ==
    /\ op.step # "load" => ~HasSession(db, k)
    /\ op.step = "insertSession" => tx = db
    /\ op.step \in {"insertSystem", "commit"} =>
          \E t \in 0 .. MaxTime :
             tx = [sessions |-> db.sessions \cup {SessionRow(k, t)},
                   messages |-> db.messages \cup
                       (IF op.step = "commit" THEN {MessageRow(k, 0, System)} ELSE {})]

Appending(k, m) ==
    /\ op.step # "check" => HasSession(db, k)
    /\ op.step \in {"check", "insert"} => tx = db
    /\ op.step = "touch" =>
          tx = [sessions |-> db.sessions,
                messages |-> db.messages \cup {MessageRow(k, Size(k), m)}]
    /\ op.step = "commit" =>
          \E t \in 0 .. MaxTime :
             tx = [sessions |-> {row \in db.sessions : row.id # k} \cup {SessionRow(k, t)},
                   messages |-> db.messages \cup {MessageRow(k, Size(k), m)}]
    /\ op.step = "reload" => MessageRow(k, Size(k) - 1, m) \in db.messages

Progress ==
    op # NoOp =>
        /\ reply = NoReply
        /\ op.name = "GetOrCreate" => Creating(op.key)
        /\ op.name \in Writes => Appending(op.key, op.msg)

Inv == Types /\ Consistent(db) /\ Progress /\ SnapshotIsCommitted

---------------------------------------------------------------------------
(* Rows in the order of seq *)

\* Rows numbered without gaps: no number occurs twice, and a row has as many
\* before it as its number says.
LEMMA Ranks ==
    ASSUME NEW rows, IsFiniteSet(rows), NEW n \in Nat, Cardinality(rows) = n,
           {row.seq : row \in rows} = 0 .. (n - 1)
    PROVE  /\ \A a, b \in rows : a.seq = b.seq => a = b
           /\ \A row \in rows : Cardinality({r \in rows : r.seq < row.seq}) = row.seq
  <1> DEFINE T == 0 .. (n - 1)
             f == [row \in rows |-> row.seq]
  <1>1. IsFiniteSet(T) /\ Cardinality(T) = n
    BY FS_Interval
  <1>2. \A row \in rows : row.seq \in T
    OBVIOUS
  <1>3. \A i \in T : \E row \in rows : row.seq = i
    OBVIOUS
  <1>4. f \in Surjection(rows, T)
    BY <1>2, <1>3 DEF Surjection
  <1>5. f \in Injection(rows, T)
    BY <1>1, <1>4, FS_SurjSameCardinalityImpliesInj
  <1>6. \A a, b \in rows : a.seq = b.seq => a = b
    BY <1>5 DEF Injection, IsInjective
  <1>7. ASSUME NEW row \in rows
        PROVE  Cardinality({r \in rows : r.seq < row.seq}) = row.seq
    <2> DEFINE B == {r \in rows : r.seq < row.seq}
               I == 0 .. (row.seq - 1)
               g == [r \in B |-> r.seq]
    <2>0. row.seq \in Nat /\ row.seq \in T
      BY <1>2
    <2>1. IsFiniteSet(I) /\ Cardinality(I) = row.seq
      <3>1. 0 \in Int /\ row.seq - 1 \in Int
        BY <2>0
      <3>2. /\ IsFiniteSet(I)
            /\ Cardinality(I) = IF 0 > row.seq - 1 THEN 0 ELSE (row.seq - 1) - 0 + 1
        BY <3>1, FS_Interval
      <3> QED
        BY <2>0, <3>2
    <2>2. IsFiniteSet(B)
      BY FS_Subset
    <2>3. \A r \in B : r.seq \in I
      BY <1>2, <2>0
    <2>4. \A i \in I : i \in T /\ i < row.seq
      BY <2>0
    <2>5. \A i \in I : \E r \in B : r.seq = i
      BY <1>3, <2>4
    <2>6. \A a, b \in B : a.seq = b.seq => a = b
      BY <1>6
    <2> HIDE DEF B, I
    <2>7. g \in Bijection(B, I)
      BY <2>3, <2>5, <2>6 DEF Bijection, Injection, Surjection, IsInjective
    <2>8. ExistsBijection(B, I)
      BY <2>7 DEF ExistsBijection
    <2> QED
      BY <2>1, <2>2, <2>8, FS_Bijection DEF B
  <1> QED
    BY <1>6, <1>7

\* loadSession returns the rows of the session in the order of their numbers.
LEMMA LoadIs ==
    ASSUME NEW t, NEW k \in Keys, t \in Rows, Numbered(t, k)
    PROVE  LET rows == RowsOf(t, k)
               n == Cardinality(rows) IN
           /\ n \in Nat
           /\ DOMAIN Load(t, k) = 1 .. n
           /\ Load(t, k) \in Seq(Stored) /\ Len(Load(t, k)) = n
           /\ \A row \in rows : row.seq + 1 \in 1 .. n /\ Load(t, k)[row.seq + 1] = row.msg
           /\ \A i \in 1 .. n : \E row \in rows : row.seq = i - 1
  <1> DEFINE rows == RowsOf(t, k)
             n == Cardinality(rows)
             Rank(row) == Cardinality({r \in rows : r.seq < row.seq})
             RowAt(i) == CHOOSE row \in rows : Rank(row) = i - 1
  <1>1. /\ IsFiniteSet(rows) /\ n \in Nat
        /\ {row.seq : row \in rows} = 0 .. (n - 1)
    BY FS_CardinalityType DEF Numbered
  <1>2. /\ \A a, b \in rows : a.seq = b.seq => a = b
        /\ \A row \in rows : Rank(row) = row.seq
    BY <1>1, Ranks
  <1>3. Load(t, k) = [i \in 1 .. n |-> RowAt(i).msg]
    BY DEF Load
  <1>4. \A row \in rows : row.msg \in Stored
    BY DEF Rows, RowsOf, Stored
  <1> HIDE DEF rows, n, Rank
  <1>5. \A i \in 1 .. n : \E row \in rows : row.seq = i - 1
    <2> TAKE i \in 1 .. n
    <2>1. i - 1 \in 0 .. (n - 1)
      BY <1>1
    <2> QED
      BY <1>1, <2>1
  <1>6. ASSUME NEW i \in 1 .. n, NEW row \in rows, row.seq = i - 1
        PROVE  RowAt(i) = row
    <2>1. RowAt(i) \in rows /\ Rank(RowAt(i)) = i - 1
      BY <1>2, <1>6
    <2> QED
      BY <1>2, <1>6, <2>1
  <1> HIDE DEF RowAt
  <1>7. \A i \in 1 .. n : RowAt(i).msg \in Stored
    BY <1>4, <1>5, <1>6
  <1>8. Load(t, k) \in Seq(Stored) /\ Len(Load(t, k)) = n /\ DOMAIN Load(t, k) = 1 .. n
    BY <1>1, <1>3, <1>7
  <1>9. ASSUME NEW row \in rows
        PROVE  row.seq + 1 \in 1 .. n /\ Load(t, k)[row.seq + 1] = row.msg
    <2>1. row.seq \in 0 .. (n - 1)
      BY <1>1
    <2>2. row.seq + 1 \in 1 .. n /\ row.seq = (row.seq + 1) - 1
      BY <1>1, <2>1
    <2>3. RowAt(row.seq + 1) = row
      BY <1>6, <2>2
    <2> QED
      BY <1>3, <2>2, <2>3
  <1> QED
    BY <1>1, <1>5, <1>8, <1>9 DEF rows, n

\* COALESCE(MAX(seq), -1) + 1 is the number of messages.
LEMMA NextSeqIs ==
    ASSUME NEW t, NEW k \in Keys, t \in Rows, Numbered(t, k)
    PROVE  NextSeq(t, k) = Cardinality(RowsOf(t, k))
  <1> DEFINE n == Cardinality(RowsOf(t, k))
             seqs == {row.seq : row \in RowsOf(t, k)}
             top == CHOOSE s \in seqs : \A q \in seqs : q <= s
  <1>1. n \in Nat /\ seqs = 0 .. (n - 1)
    BY FS_CardinalityType DEF Numbered
  <1>2. NextSeq(t, k) = IF seqs = {} THEN 0 ELSE 1 + top
    BY DEF NextSeq
  <1> HIDE DEF n, seqs
  <1>3. CASE n = 0
    <2>1. seqs = {}
      BY <1>1, <1>3
    <2> QED
      BY <1>2, <1>3, <2>1 DEF n
  <1>4. CASE n # 0
    <2>1. n - 1 \in seqs /\ \A q \in seqs : q <= n - 1
      BY <1>1, <1>4
    <2>2. top \in seqs /\ \A q \in seqs : q <= top
      BY <2>1
    <2> HIDE DEF top
    <2>3. top = n - 1
      BY <1>1, <2>1, <2>2
    <2>4. seqs # {} /\ 1 + top = n
      BY <1>1, <2>1, <2>3
    <2> QED
      BY <1>2, <2>4 DEF n
  <1> QED
    BY <1>3, <1>4

---------------------------------------------------------------------------
(* What the transactions make of the tables *)

\* The rows that the statements insert.
LEMMA RowTypes ==
    ASSUME NEW k \in Keys, NEW n \in Nat, NEW m \in Stored, NEW t \in 0 .. MaxTime
    PROVE  /\ MessageRow(k, n, m) \in [id : Keys, seq : Nat, msg : Messages \cup {System}]
           /\ MessageRow(k, n, m).id = k /\ MessageRow(k, n, m).seq = n
           /\ MessageRow(k, n, m).msg = m
           /\ SessionRow(k, t) \in [id : Keys, lastActive : 0 .. MaxTime]
           /\ SessionRow(k, t).id = k
  BY DEF MessageRow, SessionRow, Stored

\* A session that is not in the tables has no messages there.
LEMMA NoSessionNoRows ==
    ASSUME NEW t, Consistent(t), NEW k \in Keys, ~HasSession(t, k)
    PROVE  RowsOf(t, k) = {}
  BY DEF Consistent, NoOrphans, RowsOf

\* Without rows there is nothing to number.
LEMMA EmptyIsNumbered ==
    ASSUME NEW t, NEW k, ~HasSession(t, k), RowsOf(t, k) = {}
    PROVE  Numbered(t, k)
  <1>1. IsFiniteSet({}) /\ Cardinality({}) = 0 /\ 0 .. (0 - 1) = {}
    BY FS_EmptySet
  <1> QED
    BY <1>1 DEF Numbered

\* GetOrCreate adds a session of which there was nothing.
Created(t, k, time) ==
    [sessions |-> t.sessions \cup {SessionRow(k, time)},
     messages |-> t.messages \cup {MessageRow(k, 0, System)}]

\* It has its system prompt, and the other sessions stay as they were.
LEMMA CreatedIs ==
    ASSUME NEW t, Consistent(t), NEW k \in Keys, ~HasSession(t, k), NEW time \in 0 .. MaxTime
    PROVE  LET u == Created(t, k, time) IN
           /\ Consistent(u)
           /\ \A j \in Keys : HasSession(u, j) <=> HasSession(t, j) \/ j = k
           /\ RowsOf(u, k) = {MessageRow(k, 0, System)}
           /\ \A j \in Keys : j # k => RowsOf(u, j) = RowsOf(t, j)
  <1> DEFINE u == Created(t, k, time)
             s == SessionRow(k, time)
             r == MessageRow(k, 0, System)
  <1>0. System \in Stored /\ 0 \in Nat
    BY DEF Stored
  <1>1. /\ s.id = k /\ r.id = k /\ r.seq = 0
        /\ s \in [id : Keys, lastActive : 0 .. MaxTime]
        /\ r \in [id : Keys, seq : Nat, msg : Messages \cup {System}]
    BY <1>0, RowTypes
  <1>2. u.sessions = t.sessions \cup {s} /\ u.messages = t.messages \cup {r}
    BY DEF Created
  <1>3. RowsOf(t, k) = {}
    BY NoSessionNoRows
  <1>4. u \in Rows
    <2>1. /\ t.sessions \in SUBSET [id : Keys, lastActive : 0 .. MaxTime]
          /\ t.messages \in SUBSET [id : Keys, seq : Nat, msg : Messages \cup {System}]
      BY DEF Consistent, Rows
    <2> QED
      BY <1>1, <2>1 DEF Created, Rows
  <1> HIDE DEF u, s, r
  <1>5. \A j : HasSession(u, j) <=> HasSession(t, j) \/ j = k
    BY <1>1, <1>2 DEF HasSession
  <1>6. /\ RowsOf(u, k) = {r}
        /\ \A j : j # k => RowsOf(u, j) = RowsOf(t, j)
    BY <1>1, <1>2, <1>3 DEF RowsOf
  <1>7. OneRowEach(u)
    BY <1>1, <1>2 DEF OneRowEach, Consistent, HasSession
  <1>8. NoOrphans(u)
    BY <1>1, <1>2, <1>5 DEF NoOrphans, Consistent
  <1>9. Numbered(u, k)
    <2>1. IsFiniteSet({r}) /\ Cardinality({r}) = 1
      BY FS_Singleton
    <2>2. {row.seq : row \in {r}} = 0 .. (1 - 1)
      BY <1>1
    <2> QED
      BY <1>6, <2>1, <2>2 DEF Numbered, r
  <1>10. ASSUME NEW j \in Keys, j # k PROVE Numbered(u, j)
    <2>1. Numbered(t, j) /\ RowsOf(u, j) = RowsOf(t, j) /\ (HasSession(u, j) <=> HasSession(t, j))
      BY <1>5, <1>6, <1>10 DEF Consistent
    <2> QED
      BY <2>1 DEF Numbered
  <1>11. Consistent(u)
    BY <1>4, <1>7, <1>8, <1>9, <1>10 DEF Consistent
  <1> QED
    BY <1>5, <1>6, <1>11 DEF u, r

\* An append adds the row after the last and touches the session.
Appended(t, k, m, time) ==
    [sessions |-> {row \in t.sessions : row.id # k} \cup {SessionRow(k, time)},
     messages |-> t.messages \cup {MessageRow(k, Cardinality(RowsOf(t, k)), m)}]

\* The session has one message more, and the others stay as they were.
LEMMA AppendedIs ==
    ASSUME NEW t, Consistent(t), NEW k \in Keys, HasSession(t, k),
           NEW m \in Messages, NEW time \in 0 .. MaxTime
    PROVE  LET u == Appended(t, k, m, time)
               n == Cardinality(RowsOf(t, k)) IN
           /\ Consistent(u)
           /\ \A j \in Keys : HasSession(u, j) <=> HasSession(t, j)
           /\ RowsOf(u, k) = RowsOf(t, k) \cup {MessageRow(k, n, m)}
           /\ n \in Nat /\ Cardinality(RowsOf(u, k)) = n + 1
           /\ \A j \in Keys : j # k => RowsOf(u, j) = RowsOf(t, j)
  <1> DEFINE u == Appended(t, k, m, time)
             n == Cardinality(RowsOf(t, k))
             s == SessionRow(k, time)
             r == MessageRow(k, n, m)
  <1>0. /\ t \in Rows /\ Numbered(t, k) /\ m \in Stored
    BY DEF Consistent, Stored
  <1>1. /\ n \in Nat /\ IsFiniteSet(RowsOf(t, k))
        /\ {row.seq : row \in RowsOf(t, k)} = 0 .. (n - 1)
    BY <1>0, FS_CardinalityType DEF Numbered
  <1>2. /\ s.id = k /\ r.id = k /\ r.seq = n
        /\ s \in [id : Keys, lastActive : 0 .. MaxTime]
        /\ r \in [id : Keys, seq : Nat, msg : Messages \cup {System}]
    BY <1>0, <1>1, RowTypes
  <1>3. /\ u.sessions = {row \in t.sessions : row.id # k} \cup {s}
        /\ u.messages = t.messages \cup {r}
    BY DEF Appended
  <1>4. u \in Rows
    <2>1. /\ t.sessions \in SUBSET [id : Keys, lastActive : 0 .. MaxTime]
          /\ t.messages \in SUBSET [id : Keys, seq : Nat, msg : Messages \cup {System}]
      BY <1>0 DEF Rows
    <2> QED
      BY <1>2, <2>1 DEF Appended, Rows
  <1> HIDE DEF u, s, r, n
  <1>5. \A j : HasSession(u, j) <=> HasSession(t, j)
    BY <1>2, <1>3 DEF HasSession
  <1>6. /\ RowsOf(u, k) = RowsOf(t, k) \cup {r}
        /\ \A j : j # k => RowsOf(u, j) = RowsOf(t, j)
    BY <1>2, <1>3 DEF RowsOf
  <1>7. OneRowEach(u)
    BY <1>2, <1>3 DEF OneRowEach, Consistent
  <1>8. NoOrphans(u)
    BY <1>2, <1>3, <1>5 DEF NoOrphans, Consistent
  <1>9. r \notin RowsOf(t, k)
    BY <1>1, <1>2
  <1>10. /\ IsFiniteSet(RowsOf(t, k) \cup {r})
         /\ Cardinality(RowsOf(t, k) \cup {r}) = n + 1
    BY <1>1, <1>9, FS_AddElement DEF n
  <1>11. Numbered(u, k)
    <2>1. {row.seq : row \in RowsOf(t, k) \cup {r}} = 0 .. ((n + 1) - 1)
      <3>1. {row.seq : row \in RowsOf(t, k) \cup {r}} = (0 .. (n - 1)) \cup {n}
        BY <1>1, <1>2
      <3> QED
        BY <1>1, <3>1
    <2>2. MessageRow(k, 0, System) \in RowsOf(t, k)
      BY <1>0 DEF Numbered
    <2> QED
      BY <1>6, <1>10, <2>1, <2>2 DEF Numbered
  <1>12. ASSUME NEW j \in Keys, j # k PROVE Numbered(u, j)
    <2>1. Numbered(t, j) /\ RowsOf(u, j) = RowsOf(t, j) /\ (HasSession(u, j) <=> HasSession(t, j))
      BY <1>5, <1>6, <1>12 DEF Consistent
    <2> QED
      BY <2>1 DEF Numbered
  <1>13. Consistent(u)
    BY <1>4, <1>7, <1>8, <1>11, <1>12 DEF Consistent
  <1> QED
    BY <1>1, <1>5, <1>6, <1>10, <1>13 DEF u, r, n

\* The reaper's DELETE, with its cascade, takes sessions as a whole.
Reaped(t, gone) ==
    [sessions |-> t.sessions \ gone,
     messages |-> {m \in t.messages : \A s \in gone : s.id # m.id}]

\* Those that stay keep all of their messages.
LEMMA ReapedIs ==
    ASSUME NEW t, Consistent(t), NEW gone \in SUBSET t.sessions
    PROVE  LET u == Reaped(t, gone) IN
           /\ Consistent(u)
           /\ \A j \in Keys : HasSession(u, j) <=> HasSession(t, j) /\ \A s \in gone : s.id # j
           /\ \A j \in Keys : HasSession(u, j) => RowsOf(u, j) = RowsOf(t, j)
  <1> DEFINE u == Reaped(t, gone)
  <1>1. /\ u.sessions = t.sessions \ gone
        /\ u.messages = {m \in t.messages : \A s \in gone : s.id # m.id}
    BY DEF Reaped
  <1>2. u \in Rows
    <2>1. /\ t.sessions \in SUBSET [id : Keys, lastActive : 0 .. MaxTime]
          /\ t.messages \in SUBSET [id : Keys, seq : Nat, msg : Messages \cup {System}]
      BY DEF Consistent, Rows
    <2> QED
      BY <2>1 DEF Reaped, Rows
  <1> HIDE DEF u
  <1>3. \A j : HasSession(u, j) <=> HasSession(t, j) /\ \A s \in gone : s.id # j
    BY <1>1 DEF HasSession, OneRowEach, Consistent
  <1>4. \A j : RowsOf(u, j) = IF \A s \in gone : s.id # j THEN RowsOf(t, j) ELSE {}
    BY <1>1 DEF RowsOf
  <1>5. OneRowEach(u) /\ NoOrphans(u)
    BY <1>1, <1>3 DEF OneRowEach, NoOrphans, Consistent
  <1>6. ASSUME NEW j \in Keys PROVE Numbered(u, j)
    <2>1. CASE \A s \in gone : s.id # j
      <3>1. Numbered(t, j) /\ RowsOf(u, j) = RowsOf(t, j) /\ (HasSession(u, j) <=> HasSession(t, j))
        BY <1>3, <1>4, <2>1 DEF Consistent
      <3> QED
        BY <3>1 DEF Numbered
    <2>2. CASE ~(\A s \in gone : s.id # j)
      BY <1>3, <1>4, <2>2, EmptyIsNumbered
    <2> QED
      BY <2>1, <2>2
  <1>7. Consistent(u)
    BY <1>2, <1>5, <1>6 DEF Consistent
  <1> QED
    BY <1>3, <1>4, <1>7 DEF u

---------------------------------------------------------------------------
(* What they make of the conversations *)

\* A conversation is made of the rows of its session only.
LEMMA LoadSame ==
    ASSUME NEW t, NEW u, NEW k, RowsOf(u, k) = RowsOf(t, k)
    PROVE  Load(u, k) = Load(t, k)
  BY DEF Load

\* A new conversation is the system prompt alone.
LEMMA LoadCreated ==
    ASSUME NEW t, Consistent(t), NEW k \in Keys, ~HasSession(t, k), NEW time \in 0 .. MaxTime
    PROVE  Load(Created(t, k, time), k) = <<System>>
  <1> DEFINE u == Created(t, k, time)
             r == MessageRow(k, 0, System)
  <1>1. Consistent(u) /\ RowsOf(u, k) = {r}
    BY CreatedIs
  <1>2. u \in Rows /\ Numbered(u, k) /\ System \in Stored /\ 0 \in Nat
    BY <1>1 DEF Consistent, Stored
  <1>3. r.seq = 0 /\ r.msg = System
    BY DEF MessageRow
  <1>4. Cardinality({r}) = 1
    BY FS_Singleton
  <1> HIDE DEF u, r
  <1>5. /\ Load(u, k) \in Seq(Stored) /\ Len(Load(u, k)) = 1
        /\ Load(u, k)[r.seq + 1] = r.msg
    BY <1>1, <1>2, <1>4, LoadIs
  <1>6. Load(u, k)[1] = System
    BY <1>3, <1>5
  <1> DEFINE l == Load(u, k)
  <1> HIDE DEF l
  <1>7. l \in Seq(Stored) /\ Len(l) = 1 /\ l[1] = System
    BY <1>5, <1>6 DEF l
  <1>8. <<System>> \in Seq(Stored) /\ Len(<<System>>) = 1 /\ <<System>>[1] = System
    BY <1>2
  <1>9. l = <<System>>
    BY <1>7, <1>8, SeqEqual
  <1> QED
    BY <1>9 DEF l, u

\* An append adds its message at the end of the conversation.
LEMMA LoadAppended ==
    ASSUME NEW t, Consistent(t), NEW k \in Keys, HasSession(t, k),
           NEW m \in Messages, NEW time \in 0 .. MaxTime
    PROVE  Load(Appended(t, k, m, time), k) = Append(Load(t, k), m)
  <1> DEFINE u == Appended(t, k, m, time)
             n == Cardinality(RowsOf(t, k))
             r == MessageRow(k, n, m)
             old == Load(t, k)
             new == Load(u, k)
             a == Append(old, m)
  <1>1. /\ Consistent(u) /\ RowsOf(u, k) = RowsOf(t, k) \cup {r}
        /\ n \in Nat /\ Cardinality(RowsOf(u, k)) = n + 1
    BY AppendedIs
  <1>2. /\ t \in Rows /\ Numbered(t, k) /\ u \in Rows /\ Numbered(u, k) /\ m \in Stored
    BY <1>1 DEF Consistent, Stored
  <1>3. r.seq = n /\ r.msg = m
    BY DEF MessageRow
  <1> HIDE DEF u, r
  <1>4. /\ old \in Seq(Stored) /\ Len(old) = n
        /\ \A row \in RowsOf(t, k) : old[row.seq + 1] = row.msg
        /\ \A i \in 1 .. n : \E row \in RowsOf(t, k) : row.seq = i - 1
    BY <1>2, LoadIs
  <1>5. /\ new \in Seq(Stored) /\ Len(new) = n + 1
        /\ \A row \in RowsOf(u, k) : new[row.seq + 1] = row.msg
    BY <1>1, <1>2, LoadIs
  <1> HIDE DEF n, old, new
  <1>6. /\ a \in Seq(Stored) /\ Len(a) = n + 1
        /\ \A i \in 1 .. n : a[i] = old[i]
        /\ a[n + 1] = m
    BY <1>2, <1>4, AppendProperties
  <1> HIDE DEF a
  <1>7. new[n + 1] = m
    BY <1>1, <1>3, <1>5
  <1>8. ASSUME NEW i \in 1 .. n PROVE new[i] = old[i]
    <2>1. PICK row \in RowsOf(t, k) : row.seq = i - 1
      BY <1>4
    <2>2. row.seq + 1 = i
      BY <1>1, <2>1
    <2> QED
      BY <1>1, <1>4, <1>5, <2>2
  <1>9. \A i \in 1 .. n + 1 : new[i] = a[i]
    <2>1. \A i \in 1 .. n + 1 : i \in 1 .. n \/ i = n + 1
      BY <1>1
    <2> QED
      BY <1>6, <1>7, <1>8, <2>1
  <1>10. new = a
    BY <1>5, <1>6, <1>9, SeqEqual
  <1> QED
    BY <1>10 DEF new, a, old, u

---------------------------------------------------------------------------
(* Steps *)

\* What a step that leaves the committed tables and the reply alone keeps.
LEMMA TablesKept ==
    ASSUME Inv, UNCHANGED db
    PROVE  /\ Consistent(db)'
           /\ (reply' = reply \/ reply' = NoReply) => SnapshotIsCommitted'
  <1>1. Consistent(db)'
    BY DEF Inv
  <1>2. ASSUME reply' = reply PROVE SnapshotIsCommitted'
    BY <1>2 DEF Inv, SnapshotIsCommitted
  <1>3. ASSUME reply' = NoReply PROVE SnapshotIsCommitted'
    BY <1>3 DEF SnapshotIsCommitted
  <1> QED
    BY <1>1, <1>2, <1>3

\* The operations in progress.
LEMMA OpTypes ==
    ASSUME Inv, op # NoOp
    PROVE  /\ op \in Ops /\ op.key \in Keys /\ reply = NoReply
           /\ op.name \in {"GetOrCreate"} \cup Writes
           /\ op.name = "GetOrCreate" => Creating(op.key) /\ op.msg = System
           /\ op.name \in Writes => Appending(op.key, op.msg) /\ op.msg \in Messages
  <1>1. op \in Ops
    BY DEF Inv, Types
  <1>2. /\ op.key \in Keys /\ op.name \in {"GetOrCreate"} \cup Writes
        /\ op.name = "GetOrCreate" => op.msg = System
        /\ op.name \in Writes => op.msg \in Messages
    BY <1>1 DEF Ops, Writes
  <1> QED
    BY <1>1, <1>2 DEF Inv, Progress

\* The next statement of an operation.
LEMMA StepTypes ==
    ASSUME Inv, op # NoOp, NEW step, Step(step),
           \/ op.name = "GetOrCreate" /\ step \in {"insertSession", "insertSystem", "commit"}
           \/ op.name \in Writes /\ step \in {"insert", "touch", "commit", "reload"}
    PROVE  /\ op' \in Ops /\ op'.name = op.name /\ op'.key = op.key /\ op'.msg = op.msg
           /\ op'.step = step
  <1>1. op \in Ops
    BY OpTypes
  <1>2. CASE op.name = "GetOrCreate" /\ step \in {"insertSession", "insertSystem", "commit"}
    <2>1. op \in [name : {"GetOrCreate"}, key : Keys, msg : {System},
                  step : {"load", "insertSession", "insertSystem", "commit"}]
      BY <1>1, <1>2 DEF Ops, Writes
    <2>2. op' = [op EXCEPT !.step = step]
      BY DEF Step
    <2> QED
      BY <1>2, <2>1, <2>2 DEF Ops
  <1>3. CASE op.name \in Writes /\ step \in {"insert", "touch", "commit", "reload"}
    <2>1. op \in [name : Writes, key : Keys, msg : Messages,
                  step : {"check", "insert", "touch", "commit", "reload"}]
      BY <1>1, <1>3 DEF Ops, Writes
    <2>2. op' = [op EXCEPT !.step = step]
      BY DEF Step
    <2> QED
      BY <1>3, <2>1, <2>2 DEF Ops
  <1> QED
    BY <1>2, <1>3

\* An operation goes on, with nothing committed yet or nothing left to commit.
LEMMA MovedInv ==
    ASSUME Inv, op # NoOp, NEW k, k = op.key, NEW m, m = op.msg,
           op' \in Ops, op'.name = op.name, op'.key = k, op'.msg = m,
           UNCHANGED <<reply, foreignKeys, up, now>>, Consistent(db)',
           op.name = "GetOrCreate" => Creating(k)',
           op.name \in Writes => Appending(k, m)'
    PROVE  Inv'
  <1>1. reply' = NoReply
    BY OpTypes
  <1>2. SnapshotIsCommitted'
    BY <1>1 DEF SnapshotIsCommitted
  <1>3. Types'
    BY DEF Inv, Types
  <1>4. Progress'
    BY <1>1 DEF Progress
  <1> QED
    BY <1>2, <1>3, <1>4 DEF Inv

\* An operation returns.
LEMMA ReturnInv ==
    ASSUME Inv, op # NoOp, NEW err, NEW msgs, Return(err, msgs),
           UNCHANGED <<foreignKeys, up, now>>, Consistent(db)',
           ~err /\ op.name # "Append" /\ HasSession(db', op.key) =>
              /\ msgs = Load(db', op.key)
              /\ op.name = "AppendAndSnapshot" => Last(msgs) = op.msg
    PROVE  Inv'
  <1>1. /\ op' = NoOp
        /\ reply' = [name |-> op.name, key |-> op.key, msg |-> op.msg, err |-> err, msgs |-> msgs]
    BY DEF Return
  <1>2. /\ reply'.name = op.name /\ reply'.key = op.key /\ reply'.msg = op.msg
        /\ reply'.err = err /\ reply'.msgs = msgs
    BY <1>1
  <1>3. SnapshotIsCommitted'
    BY <1>2 DEF SnapshotIsCommitted
  <1>4. Types' /\ Progress'
    BY <1>1 DEF Inv, Types, Progress
  <1> QED
    BY <1>3, <1>4 DEF Inv

\* An operation begins.
LEMMA BeginInv ==
    ASSUME Inv, NEW name, NEW k \in Keys, NEW m, NEW step, Begin(name, k, m, step),
           \/ name = "GetOrCreate" /\ m = System /\ step = "load"
           \/ name \in Writes /\ m \in Messages /\ step = "check" /\ tx' = db
    PROVE  Inv'
  <1>1. /\ op' = [name |-> name, key |-> k, msg |-> m, step |-> step]
        /\ reply' = NoReply /\ UNCHANGED <<db, foreignKeys, up, now>>
    BY DEF Begin
  <1>2. op'.name = name /\ op'.key = k /\ op'.msg = m /\ op'.step = step /\ op' \in Ops
    BY <1>1 DEF Ops
  <1>3. Consistent(db)' /\ SnapshotIsCommitted'
    BY <1>1, TablesKept
  <1>4. Types'
    BY <1>1, <1>2 DEF Inv, Types
  <1>5. CASE name = "GetOrCreate" /\ m = System /\ step = "load"
    <2>1. Progress'
      BY <1>1, <1>2, <1>5 DEF Progress, Creating, Writes
    <2> QED
      BY <1>3, <1>4, <2>1 DEF Inv
  <1>6. CASE name \in Writes /\ m \in Messages /\ step = "check" /\ tx' = db
    <2>1. Progress'
      BY <1>1, <1>2, <1>6 DEF Progress, Appending, Writes
    <2> QED
      BY <1>3, <1>4, <2>1 DEF Inv
  <1> QED
    BY <1>5, <1>6

\* GetOrCreate, statement by statement.
LEMMA GetOrCreateInv ==
    ASSUME Inv, LoadFound \/ LoadMissing \/ InsertSession \/ InsertSystem \/ CommitCreate
    PROVE  Inv'
  <1>1. op # NoOp /\ op.name = "GetOrCreate"
    BY DEF LoadFound, LoadMissing, InsertSession, InsertSystem, CommitCreate, At
  <1>2. PICK k \in Keys : k = op.key
    BY <1>1, OpTypes
  <1>3. Creating(k) /\ op.msg = System /\ op.name \notin Writes
    BY <1>1, <1>2, OpTypes DEF Writes
  <1>4. Consistent(db) /\ now \in 0 .. MaxTime
    BY DEF Inv, Types
  <1>5. CASE LoadFound
    <2>1. Consistent(db)' /\ db' = db
      BY <1>5, TablesKept DEF LoadFound
    <2> QED
      BY <1>1, <1>5, <2>1, ReturnInv DEF LoadFound
  <1>6. CASE LoadMissing
    <2>1. /\ op' \in Ops /\ op'.name = op.name /\ op'.key = k /\ op'.msg = op.msg
          /\ op'.step = "insertSession"
      BY <1>1, <1>2, <1>6, StepTypes DEF LoadMissing
    <2>2. Creating(k)'
      BY <1>2, <1>6, <2>1 DEF LoadMissing, Creating
    <2>3. Consistent(db)'
      BY <1>6, TablesKept DEF LoadMissing
    <2> QED
      BY <1>1, <1>2, <1>3, <1>6, <2>1, <2>2, <2>3, MovedInv DEF LoadMissing
  <1>7. CASE InsertSession
    <2>1. /\ op' \in Ops /\ op'.name = op.name /\ op'.key = k /\ op'.msg = op.msg
          /\ op'.step = "insertSystem"
      BY <1>1, <1>2, <1>7, StepTypes DEF InsertSession
    <2>2. tx = db /\ ~HasSession(db, k)
      BY <1>3, <1>7 DEF InsertSession, At, Creating
    <2>3. tx' = [sessions |-> db.sessions \cup {SessionRow(k, now)},
                 messages |-> db.messages \cup {}]
      <3>1. db = [sessions |-> db.sessions, messages |-> db.messages]
        BY <1>4 DEF Consistent, Rows
      <3>2. tx' = [db EXCEPT !.sessions = @ \cup {SessionRow(k, now)}]
        BY <1>2, <1>7, <2>2 DEF InsertSession, SessionRow
      <3> QED
        BY <3>1, <3>2
    <2>4. Creating(k)'
      BY <1>4, <1>7, <2>1, <2>2, <2>3 DEF InsertSession, Creating, SessionRow, MessageRow
    <2>5. Consistent(db)'
      BY <1>7, TablesKept DEF InsertSession
    <2> QED
      BY <1>1, <1>2, <1>3, <1>7, <2>1, <2>4, <2>5, MovedInv DEF InsertSession
  <1>8. CASE InsertSystem
    <2>1. /\ op' \in Ops /\ op'.name = op.name /\ op'.key = k /\ op'.msg = op.msg
          /\ op'.step = "commit"
      BY <1>1, <1>2, <1>8, StepTypes DEF InsertSystem
    <2>2. PICK t \in 0 .. MaxTime :
             tx = [sessions |-> db.sessions \cup {SessionRow(k, t)},
                   messages |-> db.messages \cup {}]
      BY <1>3, <1>8 DEF InsertSystem, At, Creating
    <2>3. tx' = [sessions |-> db.sessions \cup {SessionRow(k, t)},
                 messages |-> db.messages \cup {MessageRow(k, 0, System)}]
      <3>1. tx' = [tx EXCEPT !.messages = @ \cup {MessageRow(k, 0, System)}]
        BY <1>2, <1>8 DEF InsertSystem, MessageRow
      <3> QED
        BY <2>2, <3>1
    <2>4. ~HasSession(db, k)
      BY <1>3, <1>8 DEF InsertSystem, At, Creating
    <2>5. Creating(k)'
      BY <1>8, <2>1, <2>3, <2>4 DEF InsertSystem, Creating, SessionRow, MessageRow
    <2>6. Consistent(db)'
      BY <1>8, TablesKept DEF InsertSystem
    <2> QED
      BY <1>1, <1>2, <1>3, <1>8, <2>1, <2>5, <2>6, MovedInv DEF InsertSystem
  <1>9. CASE CommitCreate
    <2>1. PICK t \in 0 .. MaxTime : tx = Created(db, k, t) /\ ~HasSession(db, k)
      BY <1>3, <1>9 DEF CommitCreate, At, Creating, Created
    <2>2. db' = Created(db, k, t)
      BY <1>9, <2>1 DEF CommitCreate
    <2>3. Consistent(db') /\ Load(db', k) = <<System>>
      BY <1>4, <2>1, <2>2, CreatedIs, LoadCreated
    <2>4. Consistent(db)'
      BY <2>3 DEF Consistent, OneRowEach, NoOrphans, Numbered, RowsOf, HasSession, Rows, MessageRow
    <2> QED
      BY <1>1, <1>2, <1>9, <2>3, <2>4, ReturnInv DEF CommitCreate
  <1> QED
    BY <1>5, <1>6, <1>7, <1>8, <1>9

\* Append and AppendAndSnapshot, statement by statement.
LEMMA AppendInv ==
    ASSUME Inv,
           CheckMissing \/ CheckFound \/ InsertMessage \/ Touch \/ CommitAppend \/ Reload
    PROVE  Inv'
  <1>1. op # NoOp /\ op.name \in Writes
    BY DEF CheckMissing, CheckFound, InsertMessage, Touch, CommitAppend, Reload, InTx, Writes
  <1>2. PICK k \in Keys : k = op.key
    BY <1>1, OpTypes
  <1>3. PICK m \in Messages : m = op.msg
    BY <1>1, OpTypes
  <1>4. /\ Appending(k, m) /\ op.name # "GetOrCreate"
        /\ op.name \in {"Append", "AppendAndSnapshot"}
    BY <1>1, <1>2, <1>3, OpTypes DEF Writes
  <1>5. Consistent(db) /\ now \in 0 .. MaxTime /\ Numbered(db, k) /\ db \in Rows
    BY DEF Inv, Types, Consistent
  <1>6. CASE CheckMissing
    <2>1. Consistent(db)' /\ db' = db
      BY <1>6, TablesKept DEF CheckMissing
    <2>2. ~HasSession(db', k)
      BY <1>2, <1>4, <1>6, <2>1 DEF CheckMissing, InTx, Appending
    <2> QED
      BY <1>1, <1>2, <1>6, <2>1, <2>2, ReturnInv DEF CheckMissing
  <1>7. CASE CheckFound
    <2>1. /\ op' \in Ops /\ op'.name = op.name /\ op'.key = k /\ op'.msg = m
          /\ op'.step = "insert"
      BY <1>1, <1>2, <1>3, <1>7, StepTypes DEF CheckFound
    <2>2. tx = db /\ HasSession(db, k)
      BY <1>2, <1>4, <1>7 DEF CheckFound, InTx, Appending
    <2>3. Appending(k, m)'
      BY <1>7, <2>1, <2>2 DEF CheckFound, Appending
    <2>4. Consistent(db)'
      BY <1>7, TablesKept DEF CheckFound
    <2> QED
      BY <1>1, <1>2, <1>3, <1>4, <1>7, <2>1, <2>3, <2>4, MovedInv DEF CheckFound
  <1>8. CASE InsertMessage
    <2>1. /\ op' \in Ops /\ op'.name = op.name /\ op'.key = k /\ op'.msg = m
          /\ op'.step = "touch"
      BY <1>1, <1>2, <1>3, <1>8, StepTypes DEF InsertMessage
    <2>2. tx = db /\ HasSession(db, k)
      BY <1>4, <1>8 DEF InsertMessage, InTx, Appending
    <2>3. NextSeq(db, k) = Size(k)
      BY <1>5, NextSeqIs DEF Size
    <2>4. tx' = [sessions |-> db.sessions,
                 messages |-> db.messages \cup {MessageRow(k, Size(k), m)}]
      <3>1. db = [sessions |-> db.sessions, messages |-> db.messages]
        BY <1>5 DEF Rows
      <3>2. tx' = [db EXCEPT !.messages = @ \cup {MessageRow(k, Size(k), m)}]
        BY <1>2, <1>3, <1>8, <2>2, <2>3 DEF InsertMessage, MessageRow
      <3> QED
        BY <3>1, <3>2
    <2>5. db' = db
      BY <1>8 DEF InsertMessage
    <2>6. Appending(k, m)'
      BY <2>1, <2>2, <2>4, <2>5 DEF Appending, Size, MessageRow
    <2>7. Consistent(db)'
      BY <2>5, TablesKept
    <2> QED
      BY <1>1, <1>2, <1>3, <1>4, <1>8, <2>1, <2>6, <2>7, MovedInv DEF InsertMessage
  <1>9. CASE Touch
    <2>1. /\ op' \in Ops /\ op'.name = op.name /\ op'.key = k /\ op'.msg = m
          /\ op'.step = "commit"
      BY <1>1, <1>2, <1>3, <1>9, StepTypes DEF Touch
    <2>2. /\ HasSession(db, k)
          /\ tx = [sessions |-> db.sessions,
                   messages |-> db.messages \cup {MessageRow(k, Size(k), m)}]
      BY <1>4, <1>9 DEF Touch, InTx, Appending
    <2>3. tx' = [sessions |-> {row \in db.sessions : row.id # k} \cup {SessionRow(k, now)},
                 messages |-> db.messages \cup {MessageRow(k, Size(k), m)}]
      <3>1. tx' = [tx EXCEPT !.sessions =
                     {row \in @ : row.id # k} \cup {SessionRow(k, now)}]
        BY <1>2, <1>9 DEF Touch, SessionRow
      <3> QED
        BY <2>2, <3>1
    <2>4. db' = db
      BY <1>9 DEF Touch
    <2>5. Appending(k, m)'
      BY <1>5, <2>1, <2>2, <2>3, <2>4 DEF Appending, Size, MessageRow, SessionRow
    <2>6. Consistent(db)'
      BY <2>4, TablesKept
    <2> QED
      BY <1>1, <1>2, <1>3, <1>4, <1>9, <2>1, <2>5, <2>6, MovedInv DEF Touch
  <1>10. CASE CommitAppend
    <2>1. PICK t \in 0 .. MaxTime : tx = Appended(db, k, m, t) /\ HasSession(db, k)
      BY <1>4, <1>10 DEF CommitAppend, InTx, Appending, Appended, Size
    <2>2. db' = Appended(db, k, m, t)
      BY <1>10, <2>1 DEF CommitAppend
    <2>3. /\ Consistent(db') /\ HasSession(db', k) /\ Size(k) \in Nat
          /\ RowsOf(db', k) = RowsOf(db, k) \cup {MessageRow(k, Size(k), m)}
          /\ Cardinality(RowsOf(db', k)) = Size(k) + 1
      BY <1>5, <2>1, <2>2, AppendedIs DEF Size
    <2>4. Consistent(db)'
      BY <2>3 DEF Consistent, OneRowEach, NoOrphans, Numbered, RowsOf, HasSession, Rows, MessageRow
    <2>5. CASE op.name = "Append"
      BY <1>1, <1>10, <2>4, <2>5, ReturnInv DEF CommitAppend
    <2>6. CASE op.name # "Append"
      <3>1. Step("reload") /\ UNCHANGED <<reply, foreignKeys, up, now>>
        BY <1>10, <2>6 DEF CommitAppend
      <3>2. /\ op' \in Ops /\ op'.name = op.name /\ op'.key = k /\ op'.msg = m
            /\ op'.step = "reload"
        BY <1>1, <1>2, <1>3, <3>1, StepTypes
      <3>3. (Size(k))' - 1 = Size(k)
        BY <2>3 DEF Size, RowsOf
      <3>4. MessageRow(k, Size(k), m) \in db'.messages
        BY <2>3 DEF RowsOf
      <3>5. Appending(k, m)'
        BY <2>3, <3>2, <3>3, <3>4 DEF Appending, MessageRow, HasSession
      <3> QED
        BY <1>1, <1>2, <1>3, <1>4, <2>4, <3>1, <3>2, <3>5, MovedInv
    <2> QED
      BY <2>5, <2>6
  <1>11. CASE Reload
    <2>1. Consistent(db)' /\ db' = db
      BY <1>11, TablesKept DEF Reload
    <2>2. MessageRow(k, Size(k) - 1, m) \in db.messages
      BY <1>4, <1>11 DEF Reload, InTx, Appending
    <2> DEFINE r == MessageRow(k, Size(k) - 1, m)
    <2>3. r.seq = Size(k) - 1 /\ r.msg = m /\ r \in RowsOf(db, k)
      BY <2>2 DEF MessageRow, RowsOf
    <2> HIDE DEF r
    <2>4. /\ Size(k) \in Nat /\ Len(Load(db, k)) = Size(k)
          /\ Load(db, k)[r.seq + 1] = r.msg
      BY <1>5, <2>3, LoadIs DEF Size
    <2>5. Last(Load(db, k)) = m
      BY <2>3, <2>4 DEF Last
    <2> QED
      BY <1>1, <1>2, <1>3, <1>11, <2>1, <2>5, ReturnInv DEF Reload
  <1> QED
    BY <1>6, <1>7, <1>8, <1>9, <1>10, <1>11

\* The end of the process, the reaper, and statements that fail.
LEMMA OtherInv ==
    ASSUME Inv, Open \/ Crash \/ StatementFails \/ Reap \/ Tick
    PROVE  Inv'
  <1>1. CASE Open
    BY <1>1, TablesKept DEF Open, Inv, Types, Progress, Creating, Appending, Size
  <1>2. CASE Crash
    BY <1>2, TablesKept DEF Crash, Inv, Types, Progress
  <1>3. CASE StatementFails
    <2>1. Consistent(db)'
      BY <1>3, TablesKept DEF StatementFails
    <2> QED
      BY <1>3, <2>1, ReturnInv DEF StatementFails
  <1>4. CASE Tick
    <2>1. Consistent(db)' /\ SnapshotIsCommitted'
      BY <1>4, TablesKept DEF Tick
    <2>2. Types'
      BY <1>4, SQLiteAssumption DEF Tick, Inv, Types
    <2>3. Progress'
      BY <1>4 DEF Tick, Inv, Progress, Creating, Appending, Size
    <2> QED
      BY <2>1, <2>2, <2>3 DEF Inv
  <1>5. CASE Reap
    <2> DEFINE gone == {row \in db.sessions : Expired(row)}
    <2>1. db' = Reaped(db, gone)
      BY <1>5 DEF Reap, Reaped, Inv, Types
    <2>2. Consistent(db')
      BY <2>1, ReapedIs DEF Inv
    <2>3. Consistent(db)'
      BY <2>2 DEF Consistent, OneRowEach, NoOrphans, Numbered, RowsOf, HasSession, Rows, MessageRow
    <2>4. Types' /\ Progress' /\ SnapshotIsCommitted'
      BY <1>5 DEF Reap, Inv, Types, Progress, SnapshotIsCommitted
    <2> QED
      BY <2>3, <2>4 DEF Inv
  <1> QED
    BY <1>1, <1>2, <1>3, <1>4, <1>5

\* The database is empty to begin with.
LEMMA InitInv == Init => Inv
  <1> SUFFICES ASSUME Init PROVE Inv
    OBVIOUS
  <1>1. db.sessions = {} /\ db.messages = {} /\ db \in Rows
    BY DEF Init, NoRows, Rows
  <1>2. \A k : ~HasSession(db, k) /\ RowsOf(db, k) = {}
    BY <1>1 DEF HasSession, RowsOf
  <1>3. \A k \in Keys : Numbered(db, k)
    BY <1>2, EmptyIsNumbered
  <1>4. Consistent(db)
    BY <1>1, <1>3 DEF Consistent, OneRowEach, NoOrphans
  <1>5. now \in 0 .. MaxTime
    BY SQLiteAssumption DEF Init
  <1>6. Types
    BY <1>5 DEF Init, Types
  <1>7. Progress /\ SnapshotIsCommitted
    BY DEF Init, Progress, SnapshotIsCommitted
  <1> QED
    BY <1>4, <1>6, <1>7 DEF Inv

\* Every statement, failure and crash keeps the invariant.
LEMMA InvStep == Inv /\ [Next]_vars => Inv'
  <1> SUFFICES ASSUME Inv, [Next]_vars PROVE Inv'
    OBVIOUS
  <1>1. CASE Open \/ Crash \/ StatementFails \/ Reap \/ Tick
    BY <1>1, OtherInv
  <1>2. ASSUME NEW k \in Keys, CallGetOrCreate(k) PROVE Inv'
    BY <1>2, BeginInv DEF CallGetOrCreate
  <1>3. ASSUME NEW k \in Keys, NEW m \in Messages, NEW name, CallAppend(k, m, name) PROVE Inv'
    BY <1>3, BeginInv DEF CallAppend, Writes
  <1>4. CASE LoadFound \/ LoadMissing \/ InsertSession \/ InsertSystem \/ CommitCreate
    BY <1>4, GetOrCreateInv
  <1>5. CASE CheckMissing \/ CheckFound \/ InsertMessage \/ Touch \/ CommitAppend \/ Reload
    BY <1>5, AppendInv
  <1>6. CASE UNCHANGED vars
    BY <1>6, TablesKept DEF vars, Inv, Types, Progress, Creating, Appending, Size
  <1> QED
    BY <1>1, <1>2, <1>3, <1>4, <1>5, <1>6 DEF Next

\* Wherever statements fail and the process dies, the open transaction is the
\* committed tables and what its statements so far have written, and the committed
\* tables are consistent (sqlite_store.go:78-126, 197-280, 296-309).
THEOREM Invariance == Spec => []Inv
  <1>1. Init => Inv
    BY InitInv
  <1>2. Inv /\ [Next]_vars => Inv'
    BY InvStep
  <1> QED
    BY <1>1, <1>2, PTL DEF Spec

\* The messages of a session stay numbered 0, 1, 2 ... from the system prompt
\* on, and every message has its session, whatever statement fails and wherever
\* the process dies (sqlite_store.go: GetOrCreate, appendMessage, reap).
THEOREM TablesStayConsistent == Spec => []TablesConsistent
  <1>1. Inv => TablesConsistent
    <2> SUFFICES ASSUME Inv PROVE TablesConsistent
      OBVIOUS
    <2>1. OneRowEach(db) /\ NoOrphans(db) /\ \A k \in Keys : Numbered(db, k)
      BY DEF Inv, Consistent
    <2>2. ASSUME NEW k \in Keys, HasSession(db, k)
          PROVE  /\ {row.seq : row \in RowsOf(db, k)} = 0 .. (Cardinality(RowsOf(db, k)) - 1)
                 /\ [id |-> k, seq |-> 0, msg |-> System] \in db.messages
      BY <2>1, <2>2 DEF Numbered, RowsOf, MessageRow
    <2> QED
      BY <2>1, <2>2 DEF TablesConsistent, OneRowEach, NoOrphans
  <1> QED
    BY <1>1, Invariance, PTL

\* What GetOrCreate and AppendAndSnapshot return is the committed conversation,
\* the message just appended at its end (sqlite_store.go:203-219).
THEOREM SnapshotsAreCommitted == Spec => []SnapshotIsCommitted
  <1>1. Inv => SnapshotIsCommitted
    BY DEF Inv
  <1> QED
    BY <1>1, Invariance, PTL

---------------------------------------------------------------------------
(* The store keeps the promise of its interface *)

\* The committed tables change by a whole transaction or not at all.
LEMMA TransactionsAreWhole ==
    ASSUME Inv, [Next]_vars
    PROVE  \/ db' = db
           \/ \E k \in Keys, t \in 0 .. MaxTime : ~HasSession(db, k) /\ db' = Created(db, k, t)
           \/ \E k \in Keys, m \in Messages, t \in 0 .. MaxTime :
                 HasSession(db, k) /\ db' = Appended(db, k, m, t)
           \/ \E gone \in SUBSET db.sessions :
                 gone # {} /\ (\A row \in gone : Expired(row)) /\ db' = Reaped(db, gone)
  <1>1. CASE CommitCreate
    <2>1. op # NoOp /\ op.name = "GetOrCreate" /\ op.step = "commit" /\ db' = tx
      BY <1>1 DEF CommitCreate, At
    <2>2. op.key \in Keys /\ Creating(op.key)
      BY <2>1, OpTypes
    <2> QED
      BY <2>1, <2>2 DEF Creating, Created
  <1>2. CASE CommitAppend
    <2>1. op # NoOp /\ op.name \in Writes /\ op.step = "commit" /\ db' = tx
      BY <1>2 DEF CommitAppend, InTx, Writes
    <2>2. op.key \in Keys /\ op.msg \in Messages /\ Appending(op.key, op.msg)
      BY <2>1, OpTypes
    <2> QED
      BY <2>1, <2>2 DEF Appending, Appended, Size
  <1>3. CASE Reap
    <2> DEFINE gone == {row \in db.sessions : Expired(row)}
    <2>1. db' = Reaped(db, gone) /\ gone # {}
      BY <1>3 DEF Reap, Reaped, Inv, Types
    <2> QED
      BY <2>1
  <1>4. CASE UNCHANGED db
    BY <1>4
  <1> QED
    BY <1>1, <1>2, <1>3, <1>4
    DEF Next, Open, Crash, CallGetOrCreate, CallAppend, Begin, LoadFound, LoadMissing,
        InsertSession, InsertSystem, CheckMissing, CheckFound, InsertMessage, Touch, Reload,
        StatementFails, Tick, vars

conv == [k \in Keys |-> IF HasSession(db, k) THEN Load(db, k) ELSE <<>>]

\* Commits are Create and Add, the reaper is Expire, and all else is no step.
LEMMA StepKeepsPromise ==
    ASSUME Inv, [Next]_vars
    PROVE  [Promised!Next]_conv
  <1>0. Consistent(db)
    BY DEF Inv
  <1>1. CASE db' = db
    BY <1>1 DEF conv, HasSession, Load, RowsOf
  <1>p. conv' = [j \in Keys |-> IF HasSession(db', j) THEN Load(db', j) ELSE <<>>]
    BY DEF conv, HasSession, Load, RowsOf
  <1>2. ASSUME NEW k \in Keys, NEW t \in 0 .. MaxTime, ~HasSession(db, k),
               db' = Created(db, k, t)
        PROVE  Promised!Next
    <2>1. /\ \A j \in Keys : HasSession(db', j) <=> HasSession(db, j) \/ j = k
          /\ \A j \in Keys : j # k => RowsOf(db', j) = RowsOf(db, j)
      BY <1>0, <1>2, CreatedIs
    <2>2. Load(db', k) = <<System>>
      BY <1>0, <1>2, LoadCreated
    <2>3. \A j \in Keys : j # k => Load(db', j) = Load(db, j)
      BY <2>1, LoadSame
    <2>4. conv' = [conv EXCEPT ![k] = <<System>>] /\ conv[k] = <<>>
      BY <1>p, <1>2, <2>1, <2>2, <2>3 DEF conv
    <2> QED
      BY <2>4 DEF conv, Promised!Next, Promised!Create, Promised!NoConversation
  <1>3. ASSUME NEW k \in Keys, NEW m \in Messages, NEW t \in 0 .. MaxTime, HasSession(db, k),
               db' = Appended(db, k, m, t)
        PROVE  Promised!Next
    <2>1. /\ \A j \in Keys : HasSession(db', j) <=> HasSession(db, j)
          /\ \A j \in Keys : j # k => RowsOf(db', j) = RowsOf(db, j)
      BY <1>0, <1>3, AppendedIs
    <2>2. Load(db', k) = Append(Load(db, k), m)
      BY <1>0, <1>3, LoadAppended
    <2>3. \A j \in Keys : j # k => Load(db', j) = Load(db, j)
      BY <2>1, LoadSame
    <2>4. conv' = [conv EXCEPT ![k] = Append(conv[k], m)]
      BY <1>p, <1>3, <2>1, <2>2, <2>3 DEF conv
    <2>5. conv[k] # <<>>
      <3>1. db \in Rows /\ Numbered(db, k) /\ MessageRow(k, 0, System) \in RowsOf(db, k)
        BY <1>0, <1>3 DEF Consistent, Numbered
      <3>2. 1 \in DOMAIN Load(db, k)
        <4>1. MessageRow(k, 0, System).seq + 1 = 1
          BY DEF MessageRow
        <4> QED
          BY <3>1, <4>1, LoadIs
      <3> QED
        BY <1>3, <3>2 DEF conv
    <2> QED
      BY <2>4, <2>5 DEF conv, Promised!Next, Promised!Add, Promised!NoConversation
  <1>4. ASSUME NEW gone \in SUBSET db.sessions, gone # {}, db' = Reaped(db, gone)
        PROVE  Promised!Next
    <2> DEFINE ks == {k \in Keys : \E row \in gone : row.id = k}
    <2>1. /\ \A j \in Keys : HasSession(db', j) <=> HasSession(db, j) /\ j \notin ks
          /\ \A j \in Keys : HasSession(db', j) => RowsOf(db', j) = RowsOf(db, j)
      BY <1>0, <1>4, ReapedIs
    <2>2. \A j \in Keys : HasSession(db', j) => Load(db', j) = Load(db, j)
      BY <2>1, LoadSame
    <2>3. ks # {} /\ ks \in SUBSET Keys
      <3>1. \A row \in gone : row.id \in Keys
        BY <1>0 DEF Consistent, Rows
      <3> QED
        BY <1>4, <3>1
    <2> HIDE DEF ks
    <2>4. conv' = [j \in Keys |-> IF j \in ks THEN <<>> ELSE conv[j]]
      BY <1>p, <2>1, <2>2 DEF conv
    <2> QED
      BY <2>3, <2>4 DEF conv, Promised!Next, Promised!Expire, Promised!NoConversation
  <1> QED
    BY <1>1, <1>2, <1>3, <1>4, TransactionsAreWhole

\* The store in SQLite implements session.SessionStore (store.go:21-29): an
\* append or a creation takes effect as a whole at its commit, and a failed
\* statement or a crash leaves no trace in any conversation.
THEOREM StorePromise == Spec => ImplementsSessionStore
  <1>1. Init => Promised!Init
    BY DEF Init, NoRows, HasSession, Promised!Init, Promised!NoConversation
  <1>2. Inv /\ [Next]_vars => [Promised!Next]_conv
    BY StepKeepsPromise
  <1> QED
    BY <1>1, <1>2, Invariance, PTL DEF Spec, ImplementsSessionStore, Promised!Spec, conv

\* A text comparison of two local times finds one earlier that is not only
\* across the tick at which local time is set back.
LEMMA TextOrder ==
    ASSUME NEW a \in Int, NEW b \in Int, LexicallyBefore(a, b)
    PROVE  a < b \/ (Shift > 0 /\ b < FallBack /\ FallBack <= a)
  BY SQLiteAssumption DEF LexicallyBefore, Offset

\* The reaper deletes a session only if it has been idle for longer than the TTL
\* (sqlite_store.go, reap), except for one TTL after local time is set back; and
\* nothing else, a crash included, deletes one.
THEOREM OnlyIdleIsReaped == Spec => ReapsOnlyIdle
  <1> DEFINE Gone == \A row \in db.sessions :
                        (\A r \in db'.sessions : r.id # row.id) =>
                            \/ now - row.lastActive > TTL
                            \/ Shift > 0 /\ now - TTL < FallBack /\ FallBack <= row.lastActive
  <1>1. Inv /\ [Next]_vars => [Gone]_vars
    <2> SUFFICES ASSUME Inv, [Next]_vars PROVE Gone
      OBVIOUS
    <2> SUFFICES ASSUME NEW row \in db.sessions, \A r \in db'.sessions : r.id # row.id
                 PROVE  \/ now - row.lastActive > TTL
                        \/ Shift > 0 /\ now - TTL < FallBack /\ FallBack <= row.lastActive
      OBVIOUS
    <2>1. db' # db
      OBVIOUS
    <2>2. \A k, t : db' # Created(db, k, t)
      BY DEF Created
    <2>3. ASSUME NEW k, NEW m, NEW t, db' = Appended(db, k, m, t) PROVE FALSE
      <3>1. db'.sessions = {r \in db.sessions : r.id # k} \cup {SessionRow(k, t)}
        BY <2>3 DEF Appended
      <3>2. SessionRow(k, t).id = k
        BY DEF SessionRow
      <3> QED
        BY <3>1, <3>2
    <2>4. PICK gone \in SUBSET db.sessions :
             (\A r \in gone : Expired(r)) /\ db' = Reaped(db, gone)
      BY <2>1, <2>2, <2>3, TransactionsAreWhole
    <2>5. Expired(row)
      BY <2>4 DEF Reaped
    <2>6. row.lastActive \in Int /\ now \in Int /\ now - TTL \in Int /\ TTL \in Int
      BY SQLiteAssumption DEF Inv, Types, Consistent, Rows
    <2>7. \/ row.lastActive < now - TTL
          \/ Shift > 0 /\ now - TTL < FallBack /\ FallBack <= row.lastActive
      BY <2>5, <2>6, TextOrder DEF Expired
    <2> QED
      BY <2>6, <2>7
  <1> QED
    BY <1>1, Invariance, PTL DEF Spec, ReapsOnlyIdle
=============================================================================
