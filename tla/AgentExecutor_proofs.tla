------------------------ MODULE AgentExecutor_proofs ------------------------
(***************************************************************************)
(* Proofs about the A2A executor and the session store in memory, for any  *)
(* set of requests, callers and session ids.                               *)
(*                                                                         *)
(* A session holds the turns of the requests whose key it has, each turn   *)
(* only after its request has come to the append; keys of callers whose    *)
(* names hold equally many separators are equal only if the callers are.   *)
(***************************************************************************)
EXTENDS AgentExecutor, FiniteSetTheorems, SequenceTheorems, TLAPS

\* Inbound auth is on for every request or for none, and only requests with a
\* session key come to the steps on the store.
Callers ==
    /\ (\A r \in Reqs : req[r].claims = NoClaims) \/ (\A r \in Reqs : req[r].claims \in Claims)
    /\ \A r \in Reqs : pc[r] \in {"create", "append", "save"} => Stateful(r)

\* The positions at which the user turn, and the assistant turn, may have been
\* appended.
Asked == {"process", "save", "artifact", "complete", "fail", "end"}
Told == {"artifact", "complete", "end"}

\* A session is a conversation of the requests with its key.
Session(k) ==
    LET msgs == sessions[k].messages IN
    /\ sessions[k] # NoSession => msgs # <<>> /\ msgs[1] = System
    /\ \A i \in DOMAIN msgs : msgs[i] # System =>
          /\ Key(msgs[i].req) = k
          /\ pc[msgs[i].req] \in IF msgs[i].role = "user" THEN Asked ELSE Told
    /\ \A i, j \in DOMAIN msgs : msgs[i] = msgs[j] => i = j

Sessions == \A k \in Keys : Session(k)

\* A prompt is one, of the requests with the key of its own.
Prompt(r) ==
    /\ prompt[r] # <<>> =>
          /\ prompt[r][1] = System
          /\ prompt[r][Len(prompt[r])] = User(r)
    /\ \A i \in DOMAIN prompt[r] : prompt[r][i] # System =>
          \/ prompt[r][i].req = r
          \/ Stateful(r) /\ Key(prompt[r][i].req) = Key(r)
    /\ \A i, j \in DOMAIN prompt[r] : prompt[r][i] = prompt[r][j] => i = j

Prompts == \A r \in Reqs : Prompt(r)

Inv == TypeOK /\ Callers /\ Sessions /\ Prompts

---------------------------------------------------------------------------
(* Session keys *)

Count(s) == Cardinality(Separators(s))

\* A text that goes on with a separator where another ends holds more of them.
LEMMA LongerHoldsMore ==
    ASSUME NEW s \in Seq(Chars), NEW t \in Seq(Chars), Len(s) < Len(t),
           \A i \in 1 .. Len(s) : s[i] = t[i], t[Len(s) + 1] = Separator
    PROVE  Count(s) # Count(t)
  <1>1. Len(s) \in Nat /\ Len(t) \in Nat
    BY LenProperties
  <1>2. IsFiniteSet(Separators(t))
    <2>1. IsFiniteSet(1 .. Len(t))
      BY <1>1, FS_Interval
    <2> QED
      BY <2>1, FS_Subset DEF Separators
  <1>3. Separators(s) \subseteq Separators(t)
    BY <1>1 DEF Separators
  <1>4. Len(s) + 1 \in Separators(t) /\ Len(s) + 1 \notin Separators(s)
    BY <1>1 DEF Separators
  <1>5. Cardinality(Separators(t)) = Cardinality(Separators(s)) => Separators(t) = Separators(s)
    BY <1>2, <1>3, FS_Subset
  <1> QED
    BY <1>4, <1>5 DEF Count

\* The number of separators of the first part tells where it ends.
LEMMA CountTellsEnd ==
    ASSUME NEW s \in Seq(Chars), NEW t \in Seq(Chars),
           NEW x \in Seq(Chars), NEW y \in Seq(Chars),
           Count(s) = Count(t),
           Join(s, x) = Join(t, y)
    PROVE  s = t /\ x = y
  <1> DEFINE sx == <<Separator>> \o x
             ty == <<Separator>> \o y
             w == s \o sx
  <1>1. <<Separator>> \in Seq(Chars) /\ Len(<<Separator>>) = 1 /\ <<Separator>>[1] = Separator
    BY RequestAssumption
  <1>2. /\ Len(s) \in Nat /\ Len(t) \in Nat /\ Len(x) \in Nat /\ Len(y) \in Nat
    BY LenProperties
  <1>3. /\ sx \in Seq(Chars) /\ Len(sx) = 1 + Len(x) /\ sx[1] = Separator
        /\ ty \in Seq(Chars) /\ Len(ty) = 1 + Len(y) /\ ty[1] = Separator
    BY <1>1, <1>2, ConcatProperties
  <1>0. w = t \o ty
    BY Zenon DEF Join
  <1> HIDE DEF sx, ty
  <1>4. /\ w = t \o ty
        /\ \A i \in 1 .. Len(s) + Len(sx) : w[i] = IF i <= Len(s) THEN s[i] ELSE sx[i - Len(s)]
        /\ \A i \in 1 .. Len(t) + Len(ty) : w[i] = IF i <= Len(t) THEN t[i] ELSE ty[i - Len(t)]
        /\ Len(w) = Len(s) + Len(sx) /\ Len(w) = Len(t) + Len(ty)
    <2>1. \A i \in 1 .. Len(s) + Len(sx) :
             w[i] = IF i <= Len(s) THEN s[i] ELSE sx[i - Len(s)]
      BY <1>3, ConcatProperties
    <2>2. \A i \in 1 .. Len(t) + Len(ty) :
             (t \o ty)[i] = IF i <= Len(t) THEN t[i] ELSE ty[i - Len(t)]
      BY <1>3, ConcatProperties
    <2>3. Len(w) = Len(s) + Len(sx) /\ Len(t \o ty) = Len(t) + Len(ty)
      BY <1>3, ConcatProperties
    <2> HIDE DEF w
    <2> QED
      BY <1>0, <2>1, <2>2, <2>3
  <1> HIDE DEF w
  <1>5. w[Len(s) + 1] = Separator /\ w[Len(t) + 1] = Separator
    <2>1. /\ Len(s) + 1 \in 1 .. Len(s) + Len(sx) /\ ~(Len(s) + 1 <= Len(s))
          /\ (Len(s) + 1) - Len(s) = 1
      BY <1>2, <1>3
    <2>2. /\ Len(t) + 1 \in 1 .. Len(t) + Len(ty) /\ ~(Len(t) + 1 <= Len(t))
          /\ (Len(t) + 1) - Len(t) = 1
      BY <1>2, <1>3
    <2>3. w[Len(s) + 1] = sx[(Len(s) + 1) - Len(s)]
      BY <1>4, <2>1, Zenon
    <2>4. w[Len(t) + 1] = ty[(Len(t) + 1) - Len(t)]
      BY <1>4, <2>2, Zenon
    <2> QED
      BY <1>3, <2>1, <2>2, <2>3, <2>4
  <1>6. /\ \A i \in 1 .. Len(s) : w[i] = s[i]
        /\ \A i \in 1 .. Len(t) : w[i] = t[i]
    BY <1>2, <1>3, <1>4
  <1>7. Len(s) = Len(t)
    <2>1. ~(Len(s) < Len(t))
      <3>1. Len(s) < Len(t) => Len(s) + 1 \in 1 .. Len(t) /\ \A i \in 1 .. Len(s) : i \in 1 .. Len(t)
        BY <1>2
      <3>2. Len(s) < Len(t) => t[Len(s) + 1] = Separator /\ \A i \in 1 .. Len(s) : s[i] = t[i]
        BY <3>1, <1>5, <1>6
      <3> QED
        BY <3>2, LongerHoldsMore
    <2>2. ~(Len(t) < Len(s))
      <3>1. Len(t) < Len(s) => Len(t) + 1 \in 1 .. Len(s) /\ \A i \in 1 .. Len(t) : i \in 1 .. Len(s)
        BY <1>2
      <3>2. Len(t) < Len(s) => s[Len(t) + 1] = Separator /\ \A i \in 1 .. Len(t) : t[i] = s[i]
        BY <3>1, <1>5, <1>6
      <3> QED
        BY <3>2, LongerHoldsMore
    <2> QED
      BY <1>2, <2>1, <2>2
  <1>8. s = t
    BY <1>6, <1>7, SeqEqual
  <1>9. sx = ty
    <2>1. s \o sx = s \o ty
      BY <1>0, <1>8 DEF w
    <2> QED
      BY <1>3, <2>1, ConcatSimplifications
  <1>10. x = y
    BY <1>1, <1>9, ConcatSimplifications DEF sx, ty
  <1> QED
    BY <1>8, <1>10

\* Joining two texts gives a text.
LEMMA JoinType ==
    ASSUME NEW a \in Seq(Chars), NEW b \in Seq(Chars)
    PROVE  Join(a, b) \in Seq(Chars)
  <1>1. <<Separator>> \in Seq(Chars)
    BY RequestAssumption
  <1>2. <<Separator>> \o b \in Seq(Chars)
    BY <1>1, ConcatProperties
  <1> QED
    BY <1>2, ConcatProperties DEF Join

\* Verified callers with the same key whose names hold equally many separators are
\* the same caller, whatever the ids are.
LEMMA KeyTellsCaller ==
    ASSUME NEW c \in Claims, NEW d \in Claims,
           NEW i \in Seq(Chars), NEW j \in Seq(Chars), i # <<>>, j # <<>>,
           sessionKey(c, i) = sessionKey(d, j), Alike(c, d)
    PROVE  c = d
  <1>1. /\ c \in [sub : Seq(Chars), azp : Seq(Chars)] /\ c # NoClaims
        /\ d \in [sub : Seq(Chars), azp : Seq(Chars)] /\ d # NoClaims
    BY RequestAssumption
  <1>2. /\ c.sub \in Seq(Chars) /\ c.azp \in Seq(Chars)
        /\ d.sub \in Seq(Chars) /\ d.azp \in Seq(Chars)
    BY <1>1
  <1>3. Count(c.sub) = Count(d.sub) /\ Count(c.azp) = Count(d.azp)
    BY DEF Alike, Count
  <1>4. /\ sessionKey(c, i) = Join(c.sub, Join(c.azp, i))
        /\ sessionKey(d, j) = Join(d.sub, Join(d.azp, j))
    BY <1>1 DEF sessionKey
  <1>5. Join(c.azp, i) \in Seq(Chars) /\ Join(d.azp, j) \in Seq(Chars)
    BY <1>2, JoinType
  <1>6. c.sub = d.sub /\ Join(c.azp, i) = Join(d.azp, j)
    <2>1. Join(c.sub, Join(c.azp, i)) = Join(d.sub, Join(d.azp, j))
      BY <1>4
    <2> QED
      BY <1>2, <1>3, <1>5, <2>1, CountTellsEnd
  <1>7. c.azp = d.azp
    BY <1>2, <1>3, <1>6, CountTellsEnd
  <1> QED
    BY <1>1, <1>6, <1>7

\* The key of a request with a session: one of Keys, from an id that is not empty.
LEMMA KeyOfStateful ==
    ASSUME TypeOK, NEW r \in Reqs, Stateful(r)
    PROVE  /\ Key(r) \in Keys
           /\ Cut(req[r].id) \in Seq(Chars) /\ Cut(req[r].id) # <<>>
  <1> DEFINE c == req[r].claims
             id == req[r].id
  <1>1. c \in Claims \cup {NoClaims} /\ id \in SessionIds /\ id \in Seq(Chars)
    BY RequestAssumption DEF TypeOK
  <1> HIDE DEF c, id
  <1>2. Cut(id) \in Seq(Chars)
    <2>1. Len(id) \in Nat /\ \A i \in 1 .. Len(id) : id[i] \in Chars
      BY <1>1, LenProperties, ElementOfSeq
    <2> DEFINE n == IF Len(id) > MaxIdLen THEN MaxIdLen ELSE Len(id)
    <2>2. n \in Int /\ \A i \in 1 .. n : id[i] \in Chars
      BY <2>1, RequestAssumption
    <2> HIDE DEF n
    <2>3. SubSeq(id, 1, n) \in Seq(Chars)
      BY <2>2, SubSeqProperties
    <2> QED
      BY <2>3 DEF Cut, n
  <1>3. Key(r) = sessionKey(c, Cut(id)) /\ Key(r) # <<>>
    BY DEF Key, Stateful, c, id
  <1>4. Cut(id) # <<>>
    BY <1>3 DEF sessionKey
  <1>5. id # <<>>
    <2>1. CASE id = <<>>
      <3>1. Cut(<<>>) = SubSeq(<<>>, 1, 0)
        BY RequestAssumption DEF Cut
      <3>2. SubSeq(<<>>, 1, 0) = <<>>
        BY SubSeqEmpty
      <3> QED
        BY <1>4, <2>1, <3>1, <3>2
    <2> QED
      BY <2>1
  <1>6. Key(r) \in Keys
    BY <1>1, <1>3, <1>5, KeysAssumption
  <1> QED
    BY <1>2, <1>4, <1>6 DEF id

\* Requests with the same session are of the same caller, if their callers are alike.
LEMMA SameKeySameCaller ==
    ASSUME TypeOK, Callers, NEW q \in Reqs, NEW r \in Reqs, Stateful(r), Key(q) = Key(r),
           Alike(req[q].claims, req[r].claims)
    PROVE  req[q].claims = req[r].claims
  <1>1. CASE \A p \in Reqs : req[p].claims = NoClaims
    BY <1>1
  <1>2. CASE \A p \in Reqs : req[p].claims \in Claims
    <2>1. Stateful(q)
      BY DEF Stateful
    <2>2. /\ Cut(req[q].id) \in Seq(Chars) /\ Cut(req[q].id) # <<>>
          /\ Cut(req[r].id) \in Seq(Chars) /\ Cut(req[r].id) # <<>>
      BY <2>1, KeyOfStateful
    <2> QED
      BY <1>2, <2>2, KeyTellsCaller DEF Key
  <1> QED
    BY <1>1, <1>2 DEF Callers

---------------------------------------------------------------------------
(* Conversations *)

Stored == Turns \cup {System}

Distinct(msgs) == \A i, j \in DOMAIN msgs : msgs[i] = msgs[j] => i = j

\* A conversation with one more turn, that was not in it.
LEMMA Grown ==
    ASSUME NEW msgs \in Seq(Stored), NEW m \in Stored, Distinct(msgs),
           \A i \in DOMAIN msgs : msgs[i] # m
    PROVE  LET a == Append(msgs, m) IN
           /\ a \in Seq(Stored) /\ Len(a) = Len(msgs) + 1 /\ a # <<>>
           /\ DOMAIN a = 1 .. Len(msgs) + 1
           /\ \A i \in 1 .. Len(msgs) : a[i] = msgs[i]
           /\ a[Len(msgs) + 1] = m
           /\ \A i \in DOMAIN a : a[i] # m => i \in DOMAIN msgs /\ a[i] = msgs[i]
           /\ Distinct(a)
  <1> DEFINE a == Append(msgs, m)
             n == Len(msgs)
  <1>1. n \in Nat /\ DOMAIN msgs = 1 .. n
    BY LenProperties
  <1>2. /\ a \in Seq(Stored) /\ Len(a) = n + 1 /\ a # <<>>
        /\ \A i \in 1 .. n : a[i] = msgs[i]
        /\ a[n + 1] = m
    BY AppendProperties
  <1>3. DOMAIN a = 1 .. n + 1
    BY <1>2, LenProperties
  <1> HIDE DEF a, n
  <1>4. \A i \in 1 .. n + 1 : i \in 1 .. n \/ i = n + 1
    BY <1>1
  <1>5. \A i \in DOMAIN a : a[i] # m => i \in DOMAIN msgs /\ a[i] = msgs[i]
    BY <1>1, <1>2, <1>3, <1>4
  <1>6. Distinct(a)
    BY <1>1, <1>2, <1>3, <1>4 DEF Distinct
  <1> QED
    BY <1>2, <1>3, <1>5, <1>6 DEF a, n

\* What a step leaves of the requests: who asks for what, and how far they are.
Onward ==
    /\ UNCHANGED <<agent, req>>
    /\ \A q \in Reqs : /\ pc[q] \in Asked => pc'[q] \in Asked
                       /\ pc[q] \in Told => pc'[q] \in Told

SessionType == [messages : Seq(Stored), lastActive : Nat]

\* The sessions as records of conversations.
LEMMA SessionsType ==
    TypeOK => /\ sessions \in [Keys -> SessionType]
              /\ \A k \in Keys : sessions[k].messages \in Seq(Stored)
  BY DEF TypeOK, SessionType, Stored

\* The session that is none has no messages.
LEMMA NoSessionType == NoSession \in SessionType /\ NoSession.messages = <<>>
  BY DEF NoSession, SessionType

\* A session that a step leaves alone, deletes or creates.
LEMMA SessionKept ==
    ASSUME Inv, Onward, NEW k \in Keys,
           \/ sessions'[k] = sessions[k]
           \/ sessions'[k] = NoSession
           \/ sessions'[k] = [messages |-> <<System>>, lastActive |-> now]
    PROVE  Session(k)' /\ sessions'[k] \in SessionType
  <1> USE DEF Inv
  <1>1. CASE sessions'[k] = sessions[k]
    <2>1. sessions[k] \in SessionType
      BY SessionsType
    <2> DEFINE msgs == sessions[k].messages
    <2>2. msgs \in Seq(Stored)
      BY SessionsType
    <2>3. ASSUME NEW i \in DOMAIN msgs, msgs[i] # System
          PROVE  msgs[i].req \in Reqs
      <3>1. msgs[i] \in Stored
        BY <2>2, LenProperties, ElementOfSeq
      <3>2. msgs[i] \in Turns
        BY <2>3, <3>1 DEF Stored
      <3> QED
        BY <3>2 DEF Turns
    <2>4. Session(k)
      BY DEF Sessions
    <2>5. \A q \in Reqs : Key(q)' = Key(q)
      BY DEF Onward, Key
    <2>6. Session(k)'
      BY <1>1, <2>3, <2>4, <2>5 DEF Session, Onward
    <2> QED
      BY <1>1, <2>1, <2>6
  <1>2. CASE sessions'[k] = NoSession
    BY <1>2, NoSessionType DEF Session
  <1>3. CASE sessions'[k] = [messages |-> <<System>>, lastActive |-> now]
    <2>1. now \in Nat
      BY ClockAssumption DEF TypeOK
    <2>2. <<System>> \in Seq(Stored)
      BY DEF Stored
    <2>3. sessions'[k].messages = <<System>> /\ sessions'[k] \in SessionType
      BY <1>3, <2>1, <2>2 DEF SessionType
    <2> QED
      BY <2>3 DEF Session
  <1> QED
    BY <1>1, <1>2, <1>3

\* The turns of a request are told apart by their role.
LEMMA OwnTurns ==
    ASSUME NEW r \in Reqs
    PROVE  /\ User(r) \in Turns /\ User(r) \in Stored /\ User(r) # System
           /\ User(r).req = r /\ User(r).role = "user"
           /\ Assistant(r) \in Turns /\ Assistant(r) \in Stored /\ Assistant(r) # System
           /\ Assistant(r).req = r /\ Assistant(r).role = "assistant"
  <1>1. /\ User(r) \in Turns /\ Assistant(r) \in Turns
        /\ User(r).req = r /\ Assistant(r).req = r
        /\ User(r).role = "user" /\ Assistant(r).role = "assistant"
    BY DEF User, Assistant, Turns
  <1> QED
    BY <1>1, SystemAssumption DEF Stored

\* A request appends its turn to its session.
LEMMA SessionGrown ==
    ASSUME Inv, Onward, NEW r \in Reqs, NEW m \in {User(r), Assistant(r)},
           NEW k \in Keys, Key(r) = k, sessions[k] # NoSession,
           m = User(r) => pc[r] \notin Asked /\ pc'[r] \in Asked,
           m = Assistant(r) => pc[r] \notin Told /\ pc'[r] \in Told,
           sessions'[k] = [messages |-> Append(sessions[k].messages, m),
                           lastActive |-> now]
    PROVE  /\ Session(k)' /\ sessions'[k] \in SessionType
           /\ \A i \in DOMAIN sessions[k].messages : sessions[k].messages[i] # m
  <1> USE DEF Inv
  <1> DEFINE msgs == sessions[k].messages
             a == Append(msgs, m)
  <1>2. msgs \in Seq(Stored) /\ now \in Nat
    BY SessionsType, ClockAssumption DEF TypeOK
  <1>3. /\ m \in Turns /\ m \in Stored /\ m.req = r /\ m # System
        /\ \/ m.role = "user" /\ m = User(r)
           \/ m.role = "assistant" /\ m = Assistant(r)
    BY OwnTurns
  <1>4. Session(k)
    BY DEF Sessions
  <1>5. ASSUME NEW i \in DOMAIN msgs PROVE msgs[i] # m
    <2>1. msgs[i] = m => pc[r] \in IF m.role = "user" THEN Asked ELSE Told
      BY <1>3, <1>4 DEF Session
    <2> QED
      BY <1>3, <2>1
  <1>6. Distinct(msgs)
    BY <1>4 DEF Session, Distinct
  <1>7. sessions'[k].messages = a
    OBVIOUS
  <1>8. /\ a \in Seq(Stored) /\ Len(a) = Len(msgs) + 1 /\ a # <<>>
        /\ DOMAIN a = 1 .. Len(msgs) + 1
        /\ \A i \in 1 .. Len(msgs) : a[i] = msgs[i]
        /\ \A i \in DOMAIN a : a[i] # m => i \in DOMAIN msgs /\ a[i] = msgs[i]
        /\ Distinct(a)
    BY <1>2, <1>3, <1>5, <1>6, Grown
  <1>9. sessions'[k] \in SessionType
    BY <1>2, <1>8 DEF SessionType
  <1>10. a[1] = System
    <2>1. msgs # <<>> /\ msgs[1] = System
      BY <1>4 DEF Session
    <2>2. Len(msgs) \in Nat \ {0}
      BY <1>2, <2>1, EmptySeq
    <2> QED
      BY <1>8, <2>1, <2>2
  <1>11. ASSUME NEW i \in DOMAIN a, a[i] # System
         PROVE  /\ Key(a[i].req) = k
                /\ pc'[a[i].req] \in IF a[i].role = "user" THEN Asked ELSE Told
    <2>1. CASE a[i] = m
      BY <1>3, <2>1
    <2>2. CASE a[i] # m
      <3>1. i \in DOMAIN msgs /\ a[i] = msgs[i]
        BY <1>8, <2>2
      <3>2. msgs[i] \in Stored
        BY <1>2, <3>1, LenProperties, ElementOfSeq
      <3>3. msgs[i].req \in Reqs
        BY <1>11, <3>1, <3>2 DEF Turns, Stored
      <3>4. /\ Key(msgs[i].req) = k
            /\ pc[msgs[i].req] \in IF msgs[i].role = "user" THEN Asked ELSE Told
        BY <1>4, <1>11, <3>1 DEF Session
      <3> HIDE DEF msgs, a
      <3> QED
        BY <3>1, <3>3, <3>4 DEF Onward
    <2> QED
      BY <2>1, <2>2
  <1>12. req' = req
    BY DEF Onward
  <1> HIDE DEF a
  <1>13. Session(k)'
    BY <1>7, <1>8, <1>10, <1>11, <1>12 DEF Session, Distinct, Key
  <1> QED
    BY <1>5, <1>9, <1>13

---------------------------------------------------------------------------
(* Steps *)

\* A request moves on: the keys stay, and no turn gets ahead of its request.
LEMMA MoveStep ==
    ASSUME Inv, NEW r \in Reqs, NEW l \in PCs, Goto(r, l), UNCHANGED <<agent, req>>,
           l \in {"create", "append", "save"} => Stateful(r),
           pc[r] \in Asked => l \in Asked,
           pc[r] \in Told => l \in Told
    PROVE  /\ Onward /\ Callers'
           /\ pc' \in [Reqs -> PCs] /\ pc'[r] = l
  <1>1. pc' = [pc EXCEPT ![r] = l] /\ pc \in [Reqs -> PCs]
    BY DEF Goto, Inv, TypeOK
  <1>2. /\ pc' \in [Reqs -> PCs] /\ pc'[r] = l
        /\ \A q \in Reqs : q # r => pc'[q] = pc[q]
    BY <1>1
  <1>3. Onward
    BY <1>2 DEF Onward
  <1>4. \A q \in Reqs : Stateful(q)' = Stateful(q)
    BY DEF Stateful, Key
  <1>5. Callers'
    <2>1. \A q \in Reqs : pc'[q] \in {"create", "append", "save"} => Stateful(q)
      BY <1>2 DEF Inv, Callers
    <2> QED
      BY <1>4, <2>1 DEF Inv, Callers
  <1> QED
    BY <1>2, <1>3, <1>5

\* A prompt, once handed over, is not written again.
LEMMA PromptKept ==
    ASSUME NEW q \in Reqs, Prompt(q), prompt'[q] = prompt[q], UNCHANGED <<agent, req>>
    PROVE  Prompt(q)'
  BY DEF Prompt, Stateful, Key, User

\* Neither are the prompts of the other requests.
LEMMA PromptsKept ==
    ASSUME Inv, UNCHANGED <<agent, req, prompt>>
    PROVE  Prompts'
  BY PromptKept DEF Inv, Prompts

\* A step that leaves the store alone leaves the sessions conversations.
LEMMA StoreKept ==
    ASSUME Inv, Onward, UNCHANGED store
    PROVE  Sessions' /\ (sessions \in [Keys -> SessionType])' /\ (now \in 0 .. MaxTime)'
  <1>1. sessions' = sessions /\ now' = now
    BY DEF store
  <1>2. Sessions'
    BY <1>1, SessionKept DEF Sessions
  <1> QED
    BY <1>1, <1>2, SessionsType DEF Inv, TypeOK

\* The parts of the type invariant together.
LEMMA TypeStep ==
    ASSUME Inv, UNCHANGED <<agent, req>>, (sessions \in [Keys -> SessionType])',
           (now \in 0 .. MaxTime)', pc' \in [Reqs -> PCs],
           (prompt \in [Reqs -> Seq(Stored)])', (events \in [Reqs -> Seq(Events)])'
    PROVE  TypeOK'
  BY DEF Inv, TypeOK, SessionType, Stored

\* A request moves on and changes nothing else but its events.
LEMMA QuietStep ==
    ASSUME Inv, NEW r \in Reqs, NEW l \in PCs, Goto(r, l),
           UNCHANGED <<store, agent, req, prompt>>,
           (events \in [Reqs -> Seq(Events)])',
           l \in {"create", "append", "save"} => Stateful(r),
           pc[r] \in Asked => l \in Asked,
           pc[r] \in Told => l \in Told
    PROVE  Inv'
  <1>1. Onward /\ Callers' /\ pc' \in [Reqs -> PCs]
    BY MoveStep
  <1>2. Sessions' /\ (sessions \in [Keys -> SessionType])' /\ (now \in 0 .. MaxTime)'
    BY <1>1, StoreKept
  <1>3. Prompts'
    BY PromptsKept
  <1>4. (prompt \in [Reqs -> Seq(Stored)])'
    BY DEF Inv, TypeOK, Stored
  <1>5. TypeOK'
    BY <1>1, <1>2, <1>4, TypeStep
  <1> QED
    BY <1>1, <1>2, <1>3, <1>5 DEF Inv

\* An event is yielded, and the consumer may stop there.
LEMMA YieldStep ==
    ASSUME Inv, NEW r \in Reqs, NEW e \in Events, NEW next \in PCs, Yield(r, e, next),
           UNCHANGED <<store, agent, req, prompt>>,
           next \notin {"create", "append", "save"},
           pc[r] \in Asked => next \in Asked,
           pc[r] \in Told => next \in Told
    PROVE  Inv'
  <1>1. (events \in [Reqs -> Seq(Events)])'
    <2>1. events \in [Reqs -> Seq(Events)] /\ events[r] \in Seq(Events)
      BY DEF Inv, TypeOK
    <2>2. Append(events[r], e) \in Seq(Events)
      BY <2>1, AppendProperties
    <2> QED
      BY <2>1, <2>2 DEF Yield
  <1>2. CASE Goto(r, next)
    BY <1>1, <1>2, QuietStep
  <1>3. CASE Goto(r, "end")
    BY <1>1, <1>3, QuietStep DEF PCs, Asked, Told
  <1> QED
    BY <1>2, <1>3 DEF Yield

\* AppendMessage of a request's own turn to its own session.
LEMMA AppendStep ==
    ASSUME Inv, Onward, NEW r \in Reqs, NEW m \in {User(r), Assistant(r)}, Stateful(r),
           AppendMessage(Key(r), m),
           m = User(r) => pc[r] \notin Asked /\ pc'[r] \in Asked,
           m = Assistant(r) => pc[r] \notin Told /\ pc'[r] \in Told
    PROVE  /\ Sessions' /\ (sessions \in [Keys -> SessionType])' /\ (now \in 0 .. MaxTime)'
           /\ Has(Key(r)) => \A i \in DOMAIN sessions[Key(r)].messages :
                                sessions[Key(r)].messages[i] # m
  <1>1. PICK k \in Keys : k = Key(r)
    BY KeyOfStateful DEF Inv
  <1>2. sessions \in [Keys -> SessionType] /\ now' = now /\ now \in 0 .. MaxTime
    BY SessionsType DEF Inv, TypeOK, AppendMessage
  <1>3. CASE ~Has(k)
    <2>1. UNCHANGED store
      BY <1>1, <1>3 DEF AppendMessage, store
    <2> QED
      BY <1>1, <1>3, <2>1, StoreKept
  <1>4. CASE Has(k)
    <2> DEFINE s == [messages |-> Append(sessions[k].messages, m), lastActive |-> now]
    <2>1. sessions' = [sessions EXCEPT ![k] = s]
      BY <1>1, <1>4 DEF AppendMessage
    <2>2. sessions'[k] = s /\ \A j \in Keys : j # k => sessions'[j] = sessions[j]
      BY <1>2, <2>1
    <2>3. /\ Session(k)' /\ sessions'[k] \in SessionType
          /\ \A i \in DOMAIN sessions[k].messages : sessions[k].messages[i] # m
      BY <1>1, <1>4, <2>2, SessionGrown DEF Has
    <2> HIDE DEF s
    <2>4. ASSUME NEW j \in Keys, j # k
          PROVE  Session(j)' /\ sessions'[j] \in SessionType
      BY <2>2, <2>4, SessionKept
    <2>5. sessions' \in [Keys -> SessionType]
      BY <1>2, <2>1, <2>2, <2>3
    <2>6. Sessions'
      BY <2>3, <2>4 DEF Sessions
    <2> QED
      BY <1>1, <1>2, <2>3, <2>5, <2>6
  <1> QED
    BY <1>3, <1>4

\* The prompt of a request that keeps its conversation itself.
LEMMA StatelessInv ==
    ASSUME Inv, NEW r \in Reqs, Stateless(r)
    PROVE  Inv'
  <1> DEFINE p == <<System, User(r)>>
  <1>1. Onward /\ Callers' /\ pc' \in [Reqs -> PCs]
    BY MoveStep DEF Stateless, PCs, Asked, Told
  <1>2. Sessions' /\ (sessions \in [Keys -> SessionType])' /\ (now \in 0 .. MaxTime)'
    BY <1>1, StoreKept DEF Stateless
  <1>3. User(r) \in Stored /\ System \in Stored /\ User(r) # System /\ User(r).req = r
    BY OwnTurns DEF Stored
  <1>4. /\ p \in Seq(Stored) /\ p # <<>> /\ Len(p) = 2 /\ DOMAIN p = {1, 2}
        /\ p[1] = System /\ p[2] = User(r)
    BY <1>3
  <1>5. /\ prompt \in [Reqs -> Seq(Stored)] /\ UNCHANGED <<agent, req, events>>
        /\ prompt' = [prompt EXCEPT ![r] = p]
    BY DEF Stateless, Inv, TypeOK, Stored
  <1> HIDE DEF p
  <1>6. /\ prompt' \in [Reqs -> Seq(Stored)] /\ prompt'[r] = p
        /\ \A q \in Reqs : q # r => prompt'[q] = prompt[q]
    BY <1>4, <1>5
  <1>7. Prompt(r)'
    <2>1. User(r)' = User(r)
      BY DEF User
    <2>2. Len(prompt'[r]) = 2 /\ DOMAIN prompt'[r] = {1, 2}
      BY <1>4, <1>6
    <2> QED
      BY <1>3, <1>4, <1>6, <2>1, <2>2 DEF Prompt
  <1>8. Prompts'
    BY <1>5, <1>6, <1>7, PromptKept DEF Inv, Prompts
  <1>9. TypeOK'
    BY <1>1, <1>2, <1>5, <1>6, TypeStep DEF Inv, TypeOK
  <1> QED
    BY <1>1, <1>2, <1>8, <1>9 DEF Inv

\* GetOrCreate.
LEMMA GetOrCreateInv ==
    ASSUME Inv, NEW r \in Reqs, SessionsGetOrCreate(r)
    PROVE  Inv'
  <1>0. Stateful(r) /\ pc[r] = "create"
    BY DEF Inv, Callers, SessionsGetOrCreate
  <1>1. Onward /\ Callers' /\ pc' \in [Reqs -> PCs]
    BY <1>0, MoveStep DEF SessionsGetOrCreate, PCs, Asked, Told
  <1>2. PICK k \in Keys : k = Key(r)
    BY <1>0, KeyOfStateful DEF Inv
  <1>3. sessions \in [Keys -> SessionType] /\ now \in 0 .. MaxTime /\ now' = now
    BY SessionsType DEF Inv, TypeOK, SessionsGetOrCreate, GetOrCreate
  <1>4. \A j \in Keys : \/ sessions'[j] = sessions[j]
                        \/ sessions'[j] = [messages |-> <<System>>, lastActive |-> now]
    BY <1>2, <1>3 DEF SessionsGetOrCreate, GetOrCreate
  <1>5. \A j \in Keys : Session(j)' /\ sessions'[j] \in SessionType
    BY <1>1, <1>4, SessionKept
  <1>6. sessions' \in [Keys -> SessionType]
    <2>1. CASE Has(k)
      BY <1>2, <1>3, <2>1 DEF SessionsGetOrCreate, GetOrCreate
    <2>2. CASE ~Has(k)
      <3>1. sessions' = [sessions EXCEPT ![k] = [messages |-> <<System>>, lastActive |-> now]]
        BY <1>2, <2>2 DEF SessionsGetOrCreate, GetOrCreate
      <3>2. sessions'[k] = [messages |-> <<System>>, lastActive |-> now]
        BY <1>3, <3>1
      <3> QED
        BY <1>3, <1>5, <3>1, <3>2
    <2> QED
      BY <2>1, <2>2
  <1>7. Prompts'
    BY PromptsKept DEF SessionsGetOrCreate
  <1>8. TypeOK'
    BY <1>1, <1>3, <1>6, TypeStep DEF SessionsGetOrCreate, Inv, TypeOK, Stored
  <1> QED
    BY <1>1, <1>5, <1>7, <1>8 DEF Inv, Sessions

\* AppendAndSnapshot: the prompt is the conversation with the new turn.
LEMMA AppendAndSnapshotInv ==
    ASSUME Inv, NEW r \in Reqs, SessionsAppendAndSnapshot(r)
    PROVE  Inv'
  <1>0. Stateful(r) /\ pc[r] = "append"
    BY DEF Inv, Callers, SessionsAppendAndSnapshot
  <1>1. Onward /\ Callers' /\ pc' \in [Reqs -> PCs] /\ pc'[r] = "process"
    BY <1>0, MoveStep DEF SessionsAppendAndSnapshot, PCs, Asked, Told
  <1> DEFINE m == User(r)
             p == Snapshot(Key(r), m)
             msgs == sessions[Key(r)].messages
  <1>2. m # Assistant(r) /\ m \in Stored /\ m # System /\ m.req = r
    BY OwnTurns
  <1>3. /\ Sessions' /\ (sessions \in [Keys -> SessionType])' /\ (now \in 0 .. MaxTime)'
        /\ Has(Key(r)) => \A i \in DOMAIN msgs : msgs[i] # m
    <2>1. AppendMessage(Key(r), m)
      BY DEF SessionsAppendAndSnapshot
    <2> QED
      BY <1>0, <1>1, <1>2, <2>1, AppendStep DEF Asked
  <1>4. /\ p \in Seq(Stored)
        /\ p # <<>> => p[1] = System /\ p[Len(p)] = m
        /\ \A i \in DOMAIN p : p[i] # System => p[i].req = r \/ Key(p[i].req) = Key(r)
        /\ Distinct(p)
    <2>1. CASE ~Has(Key(r))
      BY <2>1 DEF Snapshot, Distinct
    <2>2. CASE Has(Key(r))
      <3>1. Key(r) \in Keys
        BY <1>0, KeyOfStateful DEF Inv
      <3>2. Session(Key(r)) /\ msgs \in Seq(Stored)
        BY <3>1, SessionsType DEF Inv, Sessions
      <3>3. msgs # <<>> /\ msgs[1] = System
        BY <2>2, <3>2 DEF Session, Has
      <3>4. Distinct(msgs) /\ \A i \in DOMAIN msgs : msgs[i] # System => Key(msgs[i].req) = Key(r)
        BY <3>2 DEF Session, Distinct
      <3>5. Len(msgs) \in Nat \ {0}
        BY <3>2, <3>3, EmptySeq
      <3>6. p = Append(msgs, m)
        BY <2>2 DEF Snapshot
      <3> HIDE DEF m, p, msgs
      <3>7. /\ p \in Seq(Stored) /\ Len(p) = Len(msgs) + 1
            /\ \A i \in 1 .. Len(msgs) : p[i] = msgs[i]
            /\ p[Len(msgs) + 1] = m
            /\ \A i \in DOMAIN p : p[i] # m => i \in DOMAIN msgs /\ p[i] = msgs[i]
            /\ Distinct(p)
        BY <1>2, <1>3, <2>2, <3>2, <3>4, <3>6, Grown
      <3> QED
        BY <1>2, <3>3, <3>4, <3>5, <3>7
    <2> QED
      BY <2>1, <2>2
  <1>5. /\ prompt \in [Reqs -> Seq(Stored)] /\ UNCHANGED <<agent, req, events>>
        /\ prompt' = [prompt EXCEPT ![r] = p]
    BY DEF SessionsAppendAndSnapshot, Inv, TypeOK, Stored
  <1>6. \A q \in Reqs : User(q)' = User(q) /\ Key(q)' = Key(q) /\ Stateful(q)' = Stateful(q)
    BY <1>5 DEF User, Key, Stateful
  <1> HIDE DEF p
  <1>7. /\ prompt' \in [Reqs -> Seq(Stored)] /\ prompt'[r] = p
        /\ \A q \in Reqs : q # r => prompt'[q] = prompt[q]
    BY <1>4, <1>5
  <1>8. \A i \in DOMAIN p : p[i] # System => p[i].req \in Reqs
    <2>1. \A i \in DOMAIN p : p[i] \in Stored
      BY <1>4, LenProperties, ElementOfSeq
    <2> QED
      BY <2>1 DEF Stored, Turns
  <1>9. Prompt(r)'
    BY <1>0, <1>4, <1>6, <1>7, <1>8 DEF Prompt, Distinct
  <1>10. Prompts'
    BY <1>5, <1>7, <1>9, PromptKept DEF Inv, Prompts
  <1>11. TypeOK'
    BY <1>1, <1>3, <1>5, <1>7, TypeStep DEF Inv, TypeOK
  <1> QED
    BY <1>1, <1>3, <1>10, <1>11 DEF Inv

\* A request moves on with its turn appended, or not, and its prompt as it was.
LEMMA StoreStep ==
    ASSUME Inv, NEW r \in Reqs, NEW l \in PCs, NEW m \in {User(r), Assistant(r)},
           Stateful(r), Goto(r, l), UNCHANGED <<agent, req, prompt, events>>,
           UNCHANGED store \/ AppendMessage(Key(r), m),
           l \notin {"create", "append", "save"},
           pc[r] \in Asked => l \in Asked, pc[r] \notin Told,
           m = User(r) => pc[r] \notin Asked /\ l \in Asked,
           m = Assistant(r) => l \in Told
    PROVE  Inv'
  <1>1. Onward /\ Callers' /\ pc' \in [Reqs -> PCs] /\ pc'[r] = l
    BY MoveStep
  <1>2. Sessions' /\ (sessions \in [Keys -> SessionType])' /\ (now \in 0 .. MaxTime)'
    <2>1. CASE UNCHANGED store
      BY <1>1, <2>1, StoreKept
    <2>2. CASE AppendMessage(Key(r), m)
      BY <1>1, <2>2, AppendStep
    <2> QED
      BY <2>1, <2>2
  <1>3. Prompts'
    BY PromptsKept
  <1>4. TypeOK'
    BY <1>1, <1>2, TypeStep DEF Inv, TypeOK, Stored
  <1> QED
    BY <1>1, <1>2, <1>3, <1>4 DEF Inv

\* Reaper and clock: sessions go as a whole, and no request moves.
LEMMA ReaperInv ==
    ASSUME Inv, Reaper
    PROVE  Inv'
  <1>1. UNCHANGED <<agent, req, pc, prompt, events>> /\ Onward
    BY DEF Reaper, Onward
  <1>2. /\ sessions' = [k \in Keys |-> IF Idle(k) THEN NoSession ELSE sessions[k]]
        /\ now' = now
    BY DEF Reaper, Reap
  <1>3. \A k \in Keys : sessions'[k] = sessions[k] \/ sessions'[k] = NoSession
    BY <1>2
  <1>4. \A k \in Keys : Session(k)' /\ sessions'[k] \in SessionType
    BY <1>1, <1>3, SessionKept
  <1>5. sessions' \in [Keys -> SessionType]
    BY <1>2, <1>4
  <1>6. TypeOK'
    BY <1>1, <1>2, <1>5, TypeStep DEF Inv, TypeOK, Stored
  <1>7. Callers' /\ Prompts'
    BY <1>1, PromptsKept DEF Inv, Callers, Stateful, Key
  <1> QED
    BY <1>4, <1>6, <1>7 DEF Inv, Sessions

\* Time passes, and no request moves.
LEMMA ClockInv ==
    ASSUME Inv, Clock
    PROVE  Inv'
  <1>1. UNCHANGED <<agent, req, pc, prompt, events, sessions>> /\ Onward
    BY DEF Clock, Tick, Onward
  <1>2. sessions \in [Keys -> SessionType] /\ Sessions'
    BY <1>1, SessionsType, SessionKept DEF Inv, Sessions
  <1>3. (now \in 0 .. MaxTime)'
    BY ClockAssumption DEF Inv, TypeOK, Clock, Tick
  <1>4. TypeOK'
    BY <1>1, <1>2, <1>3, TypeStep DEF Inv, TypeOK, Stored
  <1>5. Callers' /\ Prompts'
    BY <1>1, PromptsKept DEF Inv, Callers, Stateful, Key
  <1> QED
    BY <1>2, <1>4, <1>5 DEF Inv

\* No session and no prompt to begin with.
LEMMA InitInv == Init => Inv
  <1> SUFFICES ASSUME Init PROVE Inv
    OBVIOUS
  <1>1. /\ sessions = [k \in Keys |-> NoSession] /\ now = 0
        /\ agent \in [configured : BOOLEAN, sessions : BOOLEAN]
        /\ pc = [r \in Reqs |-> "start"]
        /\ prompt = [r \in Reqs |-> <<>>]
        /\ events = [r \in Reqs |-> <<>>]
    BY DEF Init, StoreInit
  <1>2. PICK auth \in BOOLEAN :
          req \in [Reqs -> [claims : IF auth THEN Claims ELSE {NoClaims},
                            id : SessionIds, new : BOOLEAN]]
    BY DEF Init
  <1>3. /\ req \in [Reqs -> [claims : Claims \cup {NoClaims}, id : SessionIds, new : BOOLEAN]]
        /\ (\A r \in Reqs : req[r].claims = NoClaims) \/ (\A r \in Reqs : req[r].claims \in Claims)
    <2>1. CASE auth
      BY <1>2, <2>1
    <2>2. CASE ~auth
      BY <1>2, <2>2
    <2> QED
      BY <2>1, <2>2
  <1>4. sessions \in [Keys -> SessionType] /\ \A k \in Keys : sessions[k].messages = <<>>
    BY <1>1, NoSessionType
  <1>5. TypeOK
    <2>1. sessions \in [Keys -> [messages : Seq(Turns \cup {System}), lastActive : Nat]]
      BY <1>4 DEF SessionType, Stored
    <2>2. prompt \in [Reqs -> Seq(Turns \cup {System})] /\ events \in [Reqs -> Seq(Events)]
      BY <1>1
    <2>3. pc \in [Reqs -> PCs] /\ now \in 0 .. MaxTime
      BY <1>1, ClockAssumption DEF PCs
    <2> QED
      BY <1>1, <1>3, <2>1, <2>2, <2>3 DEF TypeOK
  <1>6. Callers
    BY <1>1, <1>3 DEF Callers
  <1>7. Sessions
    <2> SUFFICES ASSUME NEW k \in Keys PROVE Session(k)
      BY DEF Sessions
    <2>1. sessions[k] = NoSession /\ sessions[k].messages = <<>>
      BY <1>1, <1>4
    <2>2. DOMAIN sessions[k].messages = {}
      BY <2>1
    <2> QED
      BY <2>1, <2>2 DEF Session
  <1>8. Prompts
    BY <1>1 DEF Prompts, Prompt
  <1> QED
    BY <1>5, <1>6, <1>7, <1>8 DEF Inv

\* Every step of Execute, of the reaper and of the clock keeps the invariant.
LEMMA InvStep == Inv /\ [Next]_vars => Inv'
  <1> SUFFICES ASSUME Inv, [Next]_vars PROVE Inv'
    OBVIOUS
  <1>0. events \in [Reqs -> Seq(Events)]
    BY DEF Inv, TypeOK
  <1>1. ASSUME NEW r \in Reqs, ExecuteStep(r) PROVE Inv'
    <2>1. CASE Submit(r)
      <3>1. CASE Yield(r, "submitted", "submitted")
        BY <2>1, <3>1, YieldStep DEF Submit, PCs, Events, Asked, Told
      <3>2. CASE Goto(r, "submitted") /\ UNCHANGED events
        BY <1>0, <2>1, <3>2, QuietStep DEF Submit, PCs, Asked, Told
      <3> QED
        BY <2>1, <3>1, <3>2 DEF Submit
    <2>2. CASE Work(r)
      BY <2>2, YieldStep DEF Work, PCs, Events, Asked, Told
    <2>3. CASE NotConfigured(r)
      BY <1>0, <2>3, QuietStep DEF NotConfigured, PCs, Asked, Told
    <2>4. CASE BeginSession(r)
      BY <1>0, <2>4, QuietStep DEF BeginSession, PCs, Asked, Told
    <2>5. CASE Stateless(r)
      BY <2>5, StatelessInv
    <2>6. CASE SessionsGetOrCreate(r)
      BY <2>6, GetOrCreateInv
    <2>7. CASE SessionsAppendAndSnapshot(r)
      BY <2>7, AppendAndSnapshotInv
    <2>8. CASE SessionError(r)
      <3>1. Stateful(r) /\ pc[r] \notin Asked /\ pc[r] \notin Told
        BY <2>8 DEF SessionError, Inv, Callers, Asked, Told
      <3>2. UNCHANGED store \/ AppendMessage(Key(r), User(r))
        BY <2>8 DEF SessionError
      <3>3. User(r) # Assistant(r)
        BY OwnTurns
      <3> QED
        BY <2>8, <3>1, <3>2, <3>3, StoreStep DEF SessionError, PCs, Asked, Told
    <2>9. CASE ProcessFails(r)
      BY <1>0, <2>9, QuietStep DEF ProcessFails, PCs, Asked, Told
    <2>10. CASE ProcessReturns(r)
      <3>1. PICK l \in {"save", "artifact"} : Goto(r, l) /\ (l = "save" => Stateful(r))
        BY <2>10 DEF ProcessReturns
      <3> QED
        BY <1>0, <2>10, <3>1, QuietStep DEF ProcessReturns, PCs, Asked, Told
    <2>11. CASE SessionsAppend(r)
      <3>1. Stateful(r) /\ pc[r] \notin Told
        BY <2>11 DEF SessionsAppend, Inv, Callers, Told
      <3>2. UNCHANGED store \/ AppendMessage(Key(r), Assistant(r))
        BY <2>11 DEF SessionsAppend
      <3>3. User(r) # Assistant(r)
        BY OwnTurns
      <3> QED
        BY <2>11, <3>1, <3>2, <3>3, StoreStep DEF SessionsAppend, PCs, Asked, Told
    <2>12. CASE WriteArtifact(r)
      BY <2>12, YieldStep DEF WriteArtifact, PCs, Events, Asked, Told
    <2>13. CASE Complete(r)
      BY <2>13, YieldStep DEF Complete, PCs, Events, Asked, Told
    <2>14. CASE Fail(r)
      BY <2>14, YieldStep DEF Fail, PCs, Events, Asked, Told
    <2> QED
      BY <1>1, <2>1, <2>2, <2>3, <2>4, <2>5, <2>6, <2>7, <2>8, <2>9, <2>10, <2>11,
         <2>12, <2>13, <2>14 DEF ExecuteStep
  <1>2. CASE Reaper
    BY <1>2, ReaperInv
  <1>3. CASE Clock
    BY <1>3, ClockInv
  <1>4. CASE UNCHANGED vars
    <2>1. UNCHANGED <<sessions, now, agent, req, pc, prompt, events>>
      BY <1>4 DEF vars, store
    <2>2. Onward /\ UNCHANGED store
      BY <2>1 DEF Onward, store
    <2>3. Sessions' /\ Prompts'
      BY <2>1, <2>2, StoreKept, PromptsKept
    <2>4. TypeOK' /\ Callers'
      BY <2>1 DEF Inv, TypeOK, Callers, Stateful, Key
    <2> QED
      BY <2>3, <2>4 DEF Inv
  <1> QED
    BY <1>1, <1>2, <1>3, <1>4 DEF Next, Served

\* Whatever requests, reaper and store do, a session holds the turns of requests
\* with its key only, each once and none ahead of its request, and so does a prompt
\* (executor.go:41-141, store.go:47-130).
THEOREM Invariance == Spec => []Inv
  <1>1. Init => Inv
    BY InitInv
  <1>2. Inv /\ [Next]_vars => Inv'
    BY InvStep
  <1> QED
    BY <1>1, <1>2, PTL DEF Spec

\* What sessionKey isolates (executor.go:145-155), for all requests, session ids
\* and callers, whatever their names are: a prompt holds a turn that another
\* identity sent or was sent only if their names hold different numbers of
\* separators.
THEOREM Isolation == Spec => []CallerIsolation
  <1>1. Inv => CallerIsolation
    <2> SUFFICES ASSUME Inv, NEW r \in Reqs, NEW i \in 1 .. Len(prompt[r]),
                        prompt[r][i] # System,
                        Alike(req[prompt[r][i].req].claims, req[r].claims)
                 PROVE  req[prompt[r][i].req].claims = req[r].claims
      BY DEF CallerIsolation
    <2>1. prompt[r] \in Seq(Stored)
      BY DEF Inv, TypeOK, Stored
    <2>2. i \in DOMAIN prompt[r] /\ prompt[r][i] \in Stored
      BY <2>1, LenProperties, ElementOfSeq
    <2>3. prompt[r][i].req \in Reqs
      BY <2>2 DEF Stored, Turns
    <2>4. \/ prompt[r][i].req = r
          \/ Stateful(r) /\ Key(prompt[r][i].req) = Key(r)
      BY <2>2 DEF Inv, Prompts, Prompt
    <2> QED
      BY <2>3, <2>4, SameKeySameCaller DEF Inv
  <1> QED
    BY <1>1, Invariance, PTL

\* What AppendAndSnapshot hands to the processor is a conversation that ends
\* with the request's own turn (executor.go:95-107), however many requests
\* append to the session at the same time and whenever the reaper runs.
THEOREM Prompted == Spec => []PromptIsConversation
  <1>1. Inv => PromptIsConversation
    <2> SUFFICES ASSUME Inv, NEW r \in Reqs, prompt[r] # <<>>
                 PROVE  /\ prompt[r][1] = System
                        /\ prompt[r][Len(prompt[r])] = User(r)
                        /\ \A i, j \in 1 .. Len(prompt[r]) :
                              prompt[r][i] = prompt[r][j] => i = j
      BY DEF PromptIsConversation
    <2>1. prompt[r] \in Seq(Stored)
      BY DEF Inv, TypeOK, Stored
    <2>2. DOMAIN prompt[r] = 1 .. Len(prompt[r])
      BY <2>1, LenProperties
    <2> QED
      BY <2>2 DEF Inv, Prompts, Prompt
  <1> QED
    BY <1>1, Invariance, PTL

---------------------------------------------------------------------------
(* The store keeps the promise of its interface *)

conv == [k \in Keys |-> sessions[k].messages]

\* A session is there exactly when its conversation is not empty.
LEMMA HasConversation ==
    ASSUME Inv, NEW k \in Keys
    PROVE  Has(k) <=> conv[k] # <<>>
  <1>1. Session(k)
    BY DEF Inv, Sessions
  <1> QED
    BY <1>1, NoSessionType DEF Session, Has, conv

\* Appending is Add, or nothing if the session has been reaped.
LEMMA AppendIsAdd ==
    ASSUME Inv, NEW k \in Keys, NEW m \in Turns, AppendMessage(k, m)
    PROVE  Promised!Add(k, m) \/ UNCHANGED conv
  <1>0. sessions \in [Keys -> SessionType]
    BY SessionsType DEF Inv
  <1>1. CASE Has(k)
    <2> DEFINE s == [messages |-> Append(sessions[k].messages, m), lastActive |-> now]
    <2>1. sessions' = [sessions EXCEPT ![k] = s]
      BY <1>1 DEF AppendMessage
    <2>2. s.messages = Append(conv[k], m)
      BY DEF conv
    <2> HIDE DEF s
    <2>3. conv' = [conv EXCEPT ![k] = Append(conv[k], m)]
      BY <1>0, <2>1, <2>2 DEF conv
    <2>4. conv[k] # <<>>
      BY <1>1, HasConversation
    <2> QED
      BY <2>3, <2>4 DEF conv, Promised!Add, Promised!NoConversation
  <1>2. CASE ~Has(k)
    BY <1>2 DEF AppendMessage, conv
  <1> QED
    BY <1>1, <1>2

\* GetOrCreate is Create, the appends are Add, the reaper is Expire; a call that
\* finds its session there already, or gone, is no step at all.
LEMMA StepKeepsPromise ==
    ASSUME Inv, [Next]_vars
    PROVE  [Promised!Next]_conv
  <1>0. sessions \in [Keys -> SessionType]
    BY SessionsType DEF Inv
  <1>1. ASSUME NEW r \in Reqs, ExecuteStep(r) PROVE Promised!Next \/ UNCHANGED conv
    <2>1. CASE SessionsGetOrCreate(r)
      <3>1. PICK k \in Keys : k = Key(r)
        BY <2>1, KeyOfStateful DEF Inv, Callers, SessionsGetOrCreate
      <3>2. CASE Has(k)
        BY <2>1, <3>1, <3>2 DEF SessionsGetOrCreate, GetOrCreate, conv
      <3>3. CASE ~Has(k)
        <4> DEFINE s == [messages |-> <<System>>, lastActive |-> now]
        <4>1. sessions' = [sessions EXCEPT ![k] = s] /\ s.messages = <<System>>
          BY <2>1, <3>1, <3>3 DEF SessionsGetOrCreate, GetOrCreate
        <4> HIDE DEF s
        <4>2. conv' = [conv EXCEPT ![k] = <<System>>]
          BY <1>0, <4>1 DEF conv
        <4>3. conv[k] = <<>>
          BY <3>3, HasConversation
        <4> QED
          BY <4>2, <4>3 DEF conv, Promised!Next, Promised!Create, Promised!NoConversation
      <3> QED
        BY <3>2, <3>3
    <2>2. ASSUME NEW m \in {User(r), Assistant(r)}, Stateful(r), AppendMessage(Key(r), m)
          PROVE  Promised!Next \/ UNCHANGED conv
      <3>1. PICK k \in Keys : k = Key(r)
        BY <2>2, KeyOfStateful DEF Inv
      <3>2. m \in Turns
        BY OwnTurns
      <3>3. Promised!Add(k, m) \/ UNCHANGED conv
        BY <2>2, <3>1, <3>2, AppendIsAdd
      <3> QED
        BY <3>1, <3>2, <3>3 DEF Promised!Next
    <2>3. CASE SessionsAppendAndSnapshot(r) \/ SessionError(r) \/ SessionsAppend(r)
      <3>1. Stateful(r)
        BY <2>3 DEF Inv, Callers, SessionsAppendAndSnapshot, SessionError, SessionsAppend
      <3>2. \/ UNCHANGED store
            \/ AppendMessage(Key(r), User(r))
            \/ AppendMessage(Key(r), Assistant(r))
        BY <2>3 DEF SessionsAppendAndSnapshot, SessionError, SessionsAppend
      <3> QED
        BY <2>2, <3>1, <3>2 DEF store, conv
    <2>4. CASE UNCHANGED store
      BY <2>4 DEF store, conv
    <2> QED
      BY <1>1, <2>1, <2>3, <2>4
      DEF ExecuteStep, Submit, Work, NotConfigured, BeginSession, Stateless, ProcessFails,
          ProcessReturns, WriteArtifact, Complete, Fail
  <1>2. CASE Reaper
    <2> DEFINE ks == {k \in Keys : Idle(k)}
    <2>1. /\ ks # {} /\ ks \in SUBSET Keys
          /\ sessions' = [k \in Keys |-> IF k \in ks THEN NoSession ELSE sessions[k]]
      BY <1>2 DEF Reaper, Reap
    <2> HIDE DEF ks
    <2>2. conv' = [k \in Keys |-> IF k \in ks THEN <<>> ELSE conv[k]]
      BY <2>1, NoSessionType DEF conv
    <2> QED
      BY <2>1, <2>2 DEF conv, Promised!Next, Promised!Expire, Promised!NoConversation
  <1>3. CASE UNCHANGED sessions
    BY <1>3 DEF conv
  <1> QED
    BY <1>1, <1>2, <1>3 DEF Next, Clock, Tick, Served, vars, store

\* The store in memory implements session.SessionStore (store.go:21-29) under
\* all concurrent requests, the reaper and failing calls: conversations are
\* created with the system prompt, grow by one turn, and go as a whole.
THEOREM StorePromise == Spec => KeepsStorePromise
  <1>1. Init => Promised!Init
    BY NoSessionType DEF Init, StoreInit, Promised!Init, Promised!NoConversation
  <1>2. Inv /\ [Next]_vars => [Promised!Next]_conv
    BY StepKeepsPromise
  <1> QED
    BY <1>1, <1>2, Invariance, PTL DEF Spec, KeepsStorePromise, Promised!Spec, conv

---------------------------------------------------------------------------
(* The life of a task *)

\* The events of a task that completes, and of one that fails.
Happy(r) == IF req[r].new THEN <<"submitted", "working", "artifact", "completed">>
                          ELSE <<"working", "artifact", "completed">>
Sad(r) == IF req[r].new THEN <<"submitted", "working", "failed">> ELSE <<"working", "failed">>

\* How many events a request has yielded when it is at l.
Opening(r) == IF req[r].new THEN 2 ELSE 1
Yielded(r, l) ==
    IF l = "start" THEN {0}
    ELSE IF l = "submitted" THEN {Opening(r) - 1}
    ELSE IF l = "complete" THEN {Opening(r) + 1}
    ELSE IF l = "end" THEN 0 .. Opening(r) + 2
    ELSE {Opening(r)}

Along(s, t) == Len(s) <= Len(t) /\ \A i \in 1 .. Len(s) : s[i] = t[i]

Life(r) ==
    /\ Len(events[r]) \in Yielded(r, pc[r])
    /\ \/ Along(events[r], Happy(r))
       \/ Along(events[r], Sad(r)) /\ pc[r] # "complete"

Lives == \A r \in Reqs : Life(r)

\* A life so far, with the event that comes next in it.
LEMMA AlongGrown ==
    ASSUME NEW s \in Seq(Events), NEW t \in Seq(Events), NEW e \in Events,
           Along(s, t), Len(s) < Len(t), t[Len(s) + 1] = e
    PROVE  Along(Append(s, e), t) /\ Len(Append(s, e)) = Len(s) + 1
  <1>1. /\ Append(s, e) \in Seq(Events) /\ Len(Append(s, e)) = Len(s) + 1
        /\ \A i \in 1 .. Len(s) : Append(s, e)[i] = s[i]
        /\ Append(s, e)[Len(s) + 1] = e
    BY AppendProperties
  <1>2. Len(s) \in Nat /\ Len(t) \in Nat
    BY LenProperties
  <1>3. \A i \in 1 .. Len(s) + 1 : i \in 1 .. Len(s) \/ i = Len(s) + 1
    BY <1>2
  <1> QED
    BY <1>1, <1>2, <1>3 DEF Along

\* A concatenation is known by its parts.
LEMMA ConcatIs ==
    ASSUME NEW s \in Seq(Events), NEW t \in Seq(Events), NEW w \in Seq(Events),
           Len(w) = Len(s) + Len(t),
           \A i \in 1 .. Len(s) : w[i] = s[i],
           \A i \in 1 .. Len(t) : w[Len(s) + i] = t[i]
    PROVE  s \o t = w
  <1>1. Len(s) \in Nat /\ Len(t) \in Nat
    BY LenProperties
  <1> DEFINE u == s \o t
  <1>2. /\ u \in Seq(Events) /\ Len(u) = Len(s) + Len(t)
        /\ \A i \in 1 .. Len(s) + Len(t) : u[i] = IF i <= Len(s) THEN s[i] ELSE t[i - Len(s)]
    BY ConcatProperties
  <1> HIDE DEF u
  <1>3. ASSUME NEW i \in 1 .. Len(s) + Len(t) PROVE u[i] = w[i]
    <2>1. CASE i <= Len(s)
      BY <1>1, <1>2, <2>1
    <2>2. CASE ~(i <= Len(s))
      <3>1. i - Len(s) \in 1 .. Len(t) /\ Len(s) + (i - Len(s)) = i
        BY <1>1, <2>2
      <3>2. u[i] = t[i - Len(s)]
        BY <1>2, <2>2
      <3>3. w[Len(s) + (i - Len(s))] = t[i - Len(s)]
        BY <3>1
      <3> QED
        BY <3>1, <3>2, <3>3
    <2> QED
      BY <2>1, <2>2
  <1>4. u = w
    BY <1>2, <1>3, SeqEqual
  <1> QED
    BY <1>4 DEF u

\* So is a prefix.
LEMMA AlongIsPrefix ==
    ASSUME NEW s \in Seq(Events), NEW t \in Seq(Events), Along(s, t)
    PROVE  IsPrefixOf(s, t)
  <1> DEFINE u == SubSeq(t, 1, Len(s))
  <1>1. Len(s) \in Nat /\ Len(t) \in Nat /\ Len(s) <= Len(t)
    BY LenProperties DEF Along
  <1>2. \A i \in 1 .. Len(s) : t[i] \in Events
    BY <1>1, ElementOfSeq
  <1>3. /\ u \in Seq(Events) /\ Len(u) = Len(s)
        /\ \A i \in 1 .. Len(s) : u[i] = t[i]
    BY <1>1, <1>2, SubSeqProperties
  <1> HIDE DEF u
  <1>4. u = s
    BY <1>3, SeqEqual DEF Along
  <1> QED
    BY <1>1, <1>4 DEF IsPrefixOf, u

\* The two lives, event by event.
LEMMA LivesType ==
    ASSUME NEW r \in Reqs
    PROVE  /\ Happy(r) \in Seq(Events) /\ Sad(r) \in Seq(Events)
           /\ req[r].new => /\ Len(Happy(r)) = 4 /\ Len(Sad(r)) = 3
                            /\ Happy(r)[1] = "submitted" /\ Happy(r)[2] = "working"
                            /\ Happy(r)[3] = "artifact" /\ Happy(r)[4] = "completed"
                            /\ Sad(r)[1] = "submitted" /\ Sad(r)[2] = "working"
                            /\ Sad(r)[3] = "failed"
           /\ ~req[r].new => /\ Len(Happy(r)) = 3 /\ Len(Sad(r)) = 2
                             /\ Happy(r)[1] = "working" /\ Happy(r)[2] = "artifact"
                             /\ Happy(r)[3] = "completed"
                             /\ Sad(r)[1] = "working" /\ Sad(r)[2] = "failed"
  <1>1. CASE req[r].new
    BY <1>1 DEF Happy, Sad, Events
  <1>2. CASE ~req[r].new
    BY <1>2 DEF Happy, Sad, Events
  <1> QED
    BY <1>1, <1>2

\* Up to "working" a request has yielded the opening events at most.
LEMMA YieldedType ==
    ASSUME NEW r \in Reqs
    PROVE  /\ Opening(r) \in {1, 2}
           /\ \A l \in PCs \ {"end", "complete"} :
                 \A n \in Yielded(r, l) : n \in 0 .. Opening(r)
  BY DEF Opening, Yielded

\* The two lives are the same up to "working".
LEMMA SameStart ==
    ASSUME TypeOK, NEW r \in Reqs, Life(r), pc[r] # "complete", pc[r] # "end"
    PROVE  Along(events[r], Happy(r)) /\ Along(events[r], Sad(r))
  <1> DEFINE len == Len(events[r])
  <1>1. events[r] \in Seq(Events) /\ len \in Nat /\ pc[r] \in PCs
    BY LenProperties DEF TypeOK
  <1>2. len \in 0 .. Opening(r) /\ Opening(r) \in {1, 2}
    BY <1>1, YieldedType DEF Life
  <1>3. \A i \in 1 .. len : Happy(r)[i] = Sad(r)[i]
    <2>1. CASE req[r].new
      BY <1>2, <2>1, LivesType DEF Opening
    <2>2. CASE ~req[r].new
      BY <1>2, <2>2, LivesType DEF Opening
    <2> QED
      BY <2>1, <2>2
  <1>4. Len(Happy(r)) \in Nat /\ Len(Sad(r)) \in Nat
    BY LivesType, LenProperties
  <1>5. len <= Len(Happy(r)) /\ len <= Len(Sad(r))
    <2>1. CASE req[r].new
      BY <1>2, <2>1, LivesType DEF Opening
    <2>2. CASE ~req[r].new
      BY <1>2, <2>2, LivesType DEF Opening
    <2> QED
      BY <2>1, <2>2
  <1> QED
    BY <1>3, <1>5 DEF Life, Along

\* A request that does not move stays where it is in its life.
LEMMA LifeKept ==
    ASSUME NEW q \in Reqs, Life(q), pc'[q] = pc[q], events'[q] = events[q], UNCHANGED req
    PROVE  Life(q)'
  BY DEF Life, Yielded, Opening, Happy, Sad

\* The event that comes next in one of the lives.
LEMMA LifeGrown ==
    ASSUME TypeOK, NEW r \in Reqs, NEW e \in Events, NEW t \in {Happy(r), Sad(r)},
           NEW l \in PCs, pc'[r] = l, UNCHANGED req,
           events' = [events EXCEPT ![r] = Append(@, e)],
           Along(events[r], t), Len(events[r]) < Len(t), t[Len(events[r]) + 1] = e,
           Len(events[r]) + 1 \in Yielded(r, l), l = "complete" => t = Happy(r)
    PROVE  Life(r)'
  <1>1. events \in [Reqs -> Seq(Events)] /\ events[r] \in Seq(Events)
    BY DEF TypeOK
  <1>2. events'[r] = Append(events[r], e)
    BY <1>1
  <1>3. t \in Seq(Events)
    BY LivesType
  <1>4. Along(events'[r], t) /\ Len(events'[r]) = Len(events[r]) + 1
    BY <1>1, <1>2, <1>3, AlongGrown
  <1>5. Happy(r)' = Happy(r) /\ Sad(r)' = Sad(r) /\ Yielded(r, l)' = Yielded(r, l)
    BY DEF Happy, Sad, Yielded, Opening
  <1>6. Len(events'[r]) \in Yielded(r, l)
    BY <1>4
  <1> QED
    BY <1>4, <1>5, <1>6 DEF Life

\* Every step keeps every request on one of the two lives.
LEMMA LivesStep ==
    ASSUME TypeOK, Lives, [Next]_vars
    PROVE  Lives'
  <1>1. UNCHANGED req
    BY DEF Next, ExecuteStep, Submit, Work, NotConfigured, BeginSession, Stateless,
           SessionsGetOrCreate, SessionsAppendAndSnapshot, SessionError, ProcessFails,
           ProcessReturns, SessionsAppend, WriteArtifact, Complete, Fail, Reaper, Clock,
           Served, vars
  <1>2. ASSUME NEW r \in Reqs, ExecuteStep(r) PROVE Lives'
    <2> DEFINE len == Len(events[r])
               n == Opening(r)
    <2>0. /\ pc \in [Reqs -> PCs] /\ events \in [Reqs -> Seq(Events)]
          /\ events[r] \in Seq(Events) /\ len \in Nat /\ n \in {1, 2} /\ Life(r)
          /\ len \in Yielded(r, pc[r])
          /\ req[r].new \in BOOLEAN /\ (req[r].new => n = 2) /\ (~req[r].new => n = 1)
      BY LenProperties DEF TypeOK, Lives, Opening, Life
    <2>1. \A q \in Reqs : q # r => pc'[q] = pc[q] /\ events'[q] = events[q]
      BY <1>2, <2>0
      DEF ExecuteStep, Submit, Work, NotConfigured, BeginSession, Stateless, Yield, Goto,
          SessionsGetOrCreate, SessionsAppendAndSnapshot, SessionError, ProcessFails,
          ProcessReturns, SessionsAppend, WriteArtifact, Complete, Fail
    <2>2. \A q \in Reqs : q # r => Life(q)'
      BY <1>1, <2>1, LifeKept DEF Lives
    <2> SUFFICES Life(r)'
      BY <2>2 DEF Lives
    <2>3. ASSUME UNCHANGED events, pc'[r] # "complete", pc[r] \notin {"complete", "end"},
                 len \in Yielded(r, pc'[r])
          PROVE  Life(r)'
      <3>1. Along(events[r], Happy(r))
        BY <2>0, <2>3, SameStart
      <3>2. Happy(r)' = Happy(r) /\ Yielded(r, pc[r])' = Yielded(r, pc'[r])
        BY <1>1 DEF Happy, Yielded, Opening
      <3> QED
        BY <2>3, <3>1, <3>2 DEF Life
    <2>4. ASSUME NEW e \in Events, NEW next \in PCs, Yield(r, e, next),
                 NEW t \in {Happy(r), Sad(r)}, Along(events[r], t), len < Len(t),
                 t[len + 1] = e, len + 1 \in Yielded(r, next), len + 1 \in Yielded(r, "end"),
                 next = "complete" => t = Happy(r)
          PROVE  Life(r)'
      <3>1. PICK l \in {next, "end"} : pc'[r] = l /\ l \in PCs
        BY <2>0, <2>4 DEF Yield, Goto, PCs
      <3>2. events' = [events EXCEPT ![r] = Append(@, e)]
        BY <2>4 DEF Yield
      <3>3. len + 1 \in Yielded(r, l) /\ (l = "complete" => t = Happy(r))
        BY <2>4, <3>1
      <3> QED
        BY <1>1, <2>4, <3>1, <3>2, <3>3, LifeGrown
    <2>5. CASE Submit(r)
      <3>1. pc[r] = "start" /\ len = 0
        BY <2>0, <2>5 DEF Submit, Yielded
      <3>2. CASE req[r].new
        <4>1. Yield(r, "submitted", "submitted")
          BY <2>5, <3>2 DEF Submit
        <4>2. Along(events[r], Happy(r))
          BY <2>0, <3>1, SameStart
        <4>3. len < Len(Happy(r)) /\ Happy(r)[len + 1] = "submitted"
          BY <3>1, <3>2, LivesType
        <4>4. len + 1 \in Yielded(r, "submitted") /\ len + 1 \in Yielded(r, "end")
          BY <2>0, <3>1, <3>2 DEF Yielded
        <4>5. Happy(r) \in {Happy(r), Sad(r)} /\ "submitted" \in Events /\ "submitted" \in PCs
          BY DEF Events, PCs
        <4> HIDE DEF len
        <4> QED
          BY <2>4, <4>1, <4>2, <4>3, <4>4, <4>5
      <3>3. CASE ~req[r].new
        <4>1. UNCHANGED events /\ pc'[r] = "submitted"
          BY <2>0, <2>5, <3>3 DEF Submit, Goto
        <4>2. len \in Yielded(r, pc'[r])
          BY <2>0, <3>1, <3>3, <4>1 DEF Yielded
        <4> QED
          BY <2>3, <3>1, <4>1, <4>2
      <3> QED
        BY <3>2, <3>3
    <2>6. CASE Work(r)
      <3>1. pc[r] = "submitted" /\ len = n - 1 /\ Yield(r, "working", "working")
        BY <2>0, <2>6 DEF Work, Yielded
      <3>2. Along(events[r], Happy(r))
        BY <2>0, <3>1, SameStart
      <3>3. len < Len(Happy(r)) /\ Happy(r)[len + 1] = "working"
        <4>1. CASE req[r].new
          BY <2>0, <3>1, <4>1, LivesType
        <4>2. CASE ~req[r].new
          BY <2>0, <3>1, <4>2, LivesType
        <4> QED
          BY <4>1, <4>2
      <3>4. len + 1 \in Yielded(r, "working") /\ len + 1 \in Yielded(r, "end")
        BY <2>0, <3>1 DEF Yielded
      <3>5. Happy(r) \in {Happy(r), Sad(r)} /\ "working" \in Events /\ "working" \in PCs
        BY DEF Events, PCs
      <3> HIDE DEF len
      <3> QED
        BY <2>4, <3>1, <3>2, <3>3, <3>4, <3>5
    <2>7. CASE WriteArtifact(r)
      <3>1. pc[r] = "artifact" /\ len = n /\ Yield(r, "artifact", "complete")
        BY <2>0, <2>7 DEF WriteArtifact, Yielded
      <3>2. Along(events[r], Happy(r))
        BY <2>0, <3>1, SameStart
      <3>3. len < Len(Happy(r)) /\ Happy(r)[len + 1] = "artifact"
        BY <2>0, <3>1, LivesType
      <3>4. len + 1 \in Yielded(r, "complete") /\ len + 1 \in Yielded(r, "end")
        BY <2>0, <3>1 DEF Yielded
      <3>5. Happy(r) \in {Happy(r), Sad(r)} /\ "artifact" \in Events /\ "complete" \in PCs
        BY DEF Events, PCs
      <3> HIDE DEF len
      <3> QED
        BY <2>4, <3>1, <3>2, <3>3, <3>4, <3>5
    <2>8. CASE Complete(r)
      <3>1. pc[r] = "complete" /\ len = n + 1 /\ Yield(r, "completed", "end")
        BY <2>0, <2>8 DEF Complete, Yielded
      <3>2. Along(events[r], Happy(r))
        BY <2>0, <3>1 DEF Life
      <3>3. len < Len(Happy(r)) /\ Happy(r)[len + 1] = "completed"
        BY <2>0, <3>1, LivesType
      <3>4. len + 1 \in Yielded(r, "end") /\ len + 1 \in Yielded(r, "end")
        BY <2>0, <3>1 DEF Yielded
      <3>5. Happy(r) \in {Happy(r), Sad(r)} /\ "completed" \in Events /\ "end" \in PCs
        BY DEF Events, PCs
      <3> HIDE DEF len
      <3> QED
        BY <2>4, <3>1, <3>2, <3>3, <3>4, <3>5
    <2>9. CASE Fail(r)
      <3>1. pc[r] = "fail" /\ len = n /\ Yield(r, "failed", "end")
        BY <2>0, <2>9 DEF Fail, Yielded
      <3>2. Along(events[r], Sad(r))
        BY <2>0, <3>1, SameStart
      <3>3. len < Len(Sad(r)) /\ Sad(r)[len + 1] = "failed"
        BY <2>0, <3>1, LivesType
      <3>4. len + 1 \in Yielded(r, "end") /\ len + 1 \in Yielded(r, "end")
        BY <2>0, <3>1 DEF Yielded
      <3>5. Sad(r) \in {Happy(r), Sad(r)} /\ "failed" \in Events /\ "end" \in PCs
        BY DEF Events, PCs
      <3> HIDE DEF len
      <3> QED
        BY <2>4, <3>1, <3>2, <3>3, <3>4, <3>5
    <2>10. CASE /\ UNCHANGED events
                /\ pc[r] \in {"working", "create", "append", "process", "save"}
                /\ pc'[r] \in {"create", "append", "process", "save", "artifact", "fail"}
      <3>1. len \in Yielded(r, pc'[r])
        BY <2>0, <2>10 DEF Yielded
      <3> QED
        BY <2>3, <2>10, <3>1
    <2> QED
      BY <1>2, <2>0, <2>5, <2>6, <2>7, <2>8, <2>9, <2>10
      DEF ExecuteStep, NotConfigured, BeginSession, Stateless, Goto,
          SessionsGetOrCreate, SessionsAppendAndSnapshot, SessionError, ProcessFails,
          ProcessReturns, SessionsAppend
  <1>3. CASE UNCHANGED <<pc, events>>
    BY <1>1, <1>3, LifeKept DEF Lives
  <1> QED
    BY <1>2, <1>3 DEF Next, Reaper, Clock, Served, vars

\* The events that Execute yields (executor.go:41-141) follow the life of an
\* A2A task, wherever the consumer stops and whichever call fails.
THEOREM Lifecycle == Spec => []TaskLifecycle
  <1>1. Init => Lives
    <2> SUFFICES ASSUME Init, NEW r \in Reqs PROVE Life(r)
      BY DEF Lives
    <2>1. pc[r] = "start" /\ events[r] = <<>>
      BY DEF Init
    <2>2. Len(events[r]) = 0
      BY <2>1
    <2>3. Len(Happy(r)) \in Nat
      BY LivesType, LenProperties
    <2> QED
      BY <2>1, <2>2, <2>3 DEF Life, Along, Yielded
  <1>2. Inv /\ Lives /\ [Next]_vars => Lives'
    BY LivesStep DEF Inv
  <1>3. Inv /\ Lives => TaskLifecycle
    <2> SUFFICES ASSUME Inv, Lives, NEW r \in Reqs
                 PROVE  LET first == IF req[r].new THEN <<"submitted", "working">>
                                     ELSE <<"working">> IN
                        \/ IsPrefixOf(events[r], first \o <<"artifact", "completed">>)
                        \/ IsPrefixOf(events[r], first \o <<"failed">>)
      BY DEF TaskLifecycle
    <2> DEFINE first == IF req[r].new THEN <<"submitted", "working">> ELSE <<"working">>
    <2>1. events[r] \in Seq(Events)
      BY DEF Inv, TypeOK
    <2>2. IsPrefixOf(events[r], Happy(r)) \/ IsPrefixOf(events[r], Sad(r))
      BY <2>1, LivesType, AlongIsPrefix DEF Lives, Life
    <2>3. first \o <<"artifact", "completed">> = Happy(r) /\ first \o <<"failed">> = Sad(r)
      <3>1. CASE req[r].new
        <4>1. /\ first = <<"submitted", "working">>
              /\ Happy(r) = <<"submitted", "working", "artifact", "completed">>
              /\ Sad(r) = <<"submitted", "working", "failed">>
          BY <3>1 DEF Happy, Sad
        <4> HIDE DEF first
        <4>2. <<"submitted", "working">> \o <<"artifact", "completed">>
                = <<"submitted", "working", "artifact", "completed">>
          <5> DEFINE s == <<"submitted", "working">>
                     t == <<"artifact", "completed">>
                     w == <<"submitted", "working", "artifact", "completed">>
          <5>1. /\ s \in Seq(Events) /\ t \in Seq(Events) /\ w \in Seq(Events)
                /\ Len(s) = 2 /\ Len(t) = 2 /\ Len(w) = 4
            BY DEF Events
          <5>2. /\ \A i \in 1 .. 2 : w[i] = s[i]
                /\ \A i \in 1 .. 2 : w[2 + i] = t[i]
            OBVIOUS
          <5> HIDE DEF s, t, w
          <5>3. /\ Len(w) = Len(s) + Len(t)
                /\ \A i \in 1 .. Len(s) : w[i] = s[i]
                /\ \A i \in 1 .. Len(t) : w[Len(s) + i] = t[i]
            BY <5>1, <5>2
          <5>4. s \o t = w
            BY <5>1, <5>3, ConcatIs, Zenon
          <5> QED
            BY <5>4 DEF s, t, w
        <4>3. <<"submitted", "working">> \o <<"failed">>
                = <<"submitted", "working", "failed">>
          <5> DEFINE s == <<"submitted", "working">>
                     t == <<"failed">>
                     w == <<"submitted", "working", "failed">>
          <5>1. /\ s \in Seq(Events) /\ t \in Seq(Events) /\ w \in Seq(Events)
                /\ Len(s) = 2 /\ Len(t) = 1 /\ Len(w) = 3
            BY DEF Events
          <5>2. /\ \A i \in 1 .. 2 : w[i] = s[i]
                /\ \A i \in 1 .. 1 : w[2 + i] = t[i]
            OBVIOUS
          <5> HIDE DEF s, t, w
          <5>3. /\ Len(w) = Len(s) + Len(t)
                /\ \A i \in 1 .. Len(s) : w[i] = s[i]
                /\ \A i \in 1 .. Len(t) : w[Len(s) + i] = t[i]
            BY <5>1, <5>2
          <5>4. s \o t = w
            BY <5>1, <5>3, ConcatIs, Zenon
          <5> QED
            BY <5>4 DEF s, t, w
        <4> QED
          BY <4>1, <4>2, <4>3
      <3>2. CASE ~req[r].new
        <4>1. /\ first = <<"working">>
              /\ Happy(r) = <<"working", "artifact", "completed">>
              /\ Sad(r) = <<"working", "failed">>
          BY <3>2 DEF Happy, Sad
        <4> HIDE DEF first
        <4>2. <<"working">> \o <<"artifact", "completed">>
                = <<"working", "artifact", "completed">>
          <5> DEFINE s == <<"working">>
                     t == <<"artifact", "completed">>
                     w == <<"working", "artifact", "completed">>
          <5>1. /\ s \in Seq(Events) /\ t \in Seq(Events) /\ w \in Seq(Events)
                /\ Len(s) = 1 /\ Len(t) = 2 /\ Len(w) = 3
            BY DEF Events
          <5>2. /\ \A i \in 1 .. 1 : w[i] = s[i]
                /\ \A i \in 1 .. 2 : w[1 + i] = t[i]
            OBVIOUS
          <5> HIDE DEF s, t, w
          <5>3. /\ Len(w) = Len(s) + Len(t)
                /\ \A i \in 1 .. Len(s) : w[i] = s[i]
                /\ \A i \in 1 .. Len(t) : w[Len(s) + i] = t[i]
            BY <5>1, <5>2
          <5>4. s \o t = w
            BY <5>1, <5>3, ConcatIs, Zenon
          <5> QED
            BY <5>4 DEF s, t, w
        <4>3. <<"working">> \o <<"failed">>
                = <<"working", "failed">>
          <5> DEFINE s == <<"working">>
                     t == <<"failed">>
                     w == <<"working", "failed">>
          <5>1. /\ s \in Seq(Events) /\ t \in Seq(Events) /\ w \in Seq(Events)
                /\ Len(s) = 1 /\ Len(t) = 1 /\ Len(w) = 2
            BY DEF Events
          <5>2. /\ \A i \in 1 .. 1 : w[i] = s[i]
                /\ \A i \in 1 .. 1 : w[1 + i] = t[i]
            OBVIOUS
          <5> HIDE DEF s, t, w
          <5>3. /\ Len(w) = Len(s) + Len(t)
                /\ \A i \in 1 .. Len(s) : w[i] = s[i]
                /\ \A i \in 1 .. Len(t) : w[Len(s) + i] = t[i]
            BY <5>1, <5>2
          <5>4. s \o t = w
            BY <5>1, <5>3, ConcatIs, Zenon
          <5> QED
            BY <5>4 DEF s, t, w
        <4> QED
          BY <4>1, <4>2, <4>3
      <3> QED
        BY <3>1, <3>2
    <2> QED
      BY <2>2, <2>3
  <1> QED
    BY <1>1, <1>2, <1>3, Invariance, PTL DEF Spec
=============================================================================
