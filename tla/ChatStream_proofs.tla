------------------------- MODULE ChatStream_proofs -------------------------
(***************************************************************************)
(* Proofs about a request through the OpenAI-compatible API, for           *)
(* conversations, answers and tool calls of any length.                    *)
(*                                                                         *)
(* What the code accumulates line by line and message by message is        *)
(* compared with folds over all of them, so most lemmas say what a fold    *)
(* over one element more, or over two sequences one after the other, is.   *)
(* Induction is by way of a least counterexample (NatMin): the set of      *)
(* numbers, or of sequences, for which a statement holds is everything     *)
(* (NatInd, SeqInd).  The batch coordinator, which flattens and ranks      *)
(* sequences as well, follows at the end.                                  *)
(***************************************************************************)
EXTENDS ChatStream, Batch, TLAPS, NaturalsInduction, WellFoundedInduction, SequenceTheorems,
        FiniteSetTheorems

---------------------------------------------------------------------------
(* Natural numbers and sequences *)

\* A set of natural numbers that is not empty has a least member.
LEMMA NatMin ==
    ASSUME NEW T, T \subseteq Nat, T # {}
    PROVE  \E x \in T : \A y \in T : x <= y
<1> DEFINE R == OpToRel(<, Nat)
<1>1. IsWellFoundedOn(R, Nat)
  BY NatLessThanWellFounded
<1>3. \A x, y \in Nat : <<y, x>> \in R <=> y < x
  BY DEF OpToRel
<1> HIDE DEF R
<1>2. PICK x \in T : \A y \in T : ~ (<<y, x>> \in R)
  BY <1>1, WFMin
<1>4. ASSUME NEW y \in T PROVE x <= y
  <2>1. x \in Nat /\ y \in Nat /\ ~ (<<y, x>> \in R)
    BY <1>2
  <2>2. ~ (y < x)
    BY <2>1, <1>3
  <2> QED BY <2>1, <2>2
<1> QED BY <1>4

\* Induction over the natural numbers, for a set in place of a predicate.
LEMMA NatInd ==
    ASSUME NEW T, 0 \in T, \A n \in Nat : n \in T => n + 1 \in T
    PROVE  \A n \in Nat : n \in T
<1> SUFFICES ASSUME Nat \ T # {} PROVE FALSE
   OBVIOUS
<1>1. PICK x \in Nat \ T : \A y \in Nat \ T : x <= y
   <2> Nat \ T \subseteq Nat OBVIOUS
   <2> QED BY NatMin
<1> QED BY <1>1


\* g holds the flattened prefixes of ss.
FlatPrefixes(g, ss, S) ==
    /\ g \in [1..Len(ss) -> Seq(S)]
    /\ \A i \in 1..Len(ss) : g[i] = IF i = 1 THEN ss[i] ELSE g[i-1] \o ss[i]

\* The flattened prefixes that define FlattenSeq exist.
LEMMA PrefixesExist ==
    ASSUME NEW S, NEW ss \in Seq(Seq(S))
    PROVE  \E g : FlatPrefixes(g, ss, S)
<1> DEFINE P(g, k) == \A i \in 1..k : g[i] = IF i = 1 THEN ss[i] ELSE g[i-1] \o ss[i]
           Q(k) == k <= Len(ss) => \E g \in [1..k -> Seq(S)] : P(g, k)
           T == {k \in Nat : Q(k)}
<1>1. Q(0)
  <2> DEFINE g == [i \in 1..0 |-> <<>>]
  <2>1. g \in [1..0 -> Seq(S)] /\ P(g, 0)
    OBVIOUS
  <2> QED BY <2>1
<1>2. ASSUME NEW k \in Nat, Q(k) PROVE Q(k + 1)
  <2> SUFFICES ASSUME k + 1 <= Len(ss)
               PROVE  \E g \in [1..k+1 -> Seq(S)] : P(g, k+1)
     OBVIOUS
  <2>1. PICK g \in [1..k -> Seq(S)] : P(g, k)
    <3>1. k <= Len(ss)
      OBVIOUS
    <3> HIDE DEF P
    <3> QED BY <1>2, <3>1
  <2> DEFINE h == [i \in 1..k+1 |-> IF i = k + 1 THEN IF i = 1 THEN ss[i] ELSE g[k] \o ss[i] ELSE g[i]]
  <2>2. h \in [1..k+1 -> Seq(S)]
    OBVIOUS
  <2>3. ASSUME NEW i \in 1..k+1
        PROVE  h[i] = IF i = 1 THEN ss[i] ELSE h[i-1] \o ss[i]
    <3>1. CASE i = k + 1
      <4>1. i # 1 => h[i-1] = g[k]
        BY <3>1
      <4> QED BY <3>1, <4>1
    <3>2. CASE i # k + 1
      <4>1. i \in 1..k /\ h[i] = g[i]
        BY <3>2
      <4>2. i # 1 => h[i-1] = g[i-1]
        BY <3>2
      <4>3. g[i] = IF i = 1 THEN ss[i] ELSE g[i-1] \o ss[i]
        BY <4>1, <2>1
      <4> HIDE DEF h
      <4> QED BY <4>1, <4>2, <4>3
    <3> QED BY <3>1, <3>2
  <2> HIDE DEF h
  <2> QED BY <2>2, <2>3
<1>3. Q(Len(ss))
  <2>0. Len(ss) \in Nat
    OBVIOUS
  <2> HIDE DEF Q
  <2>1. \A n \in Nat : n \in T
    <3>1. 0 \in T
      BY <1>1
    <3>2. \A k \in Nat : k \in T => k + 1 \in T
      BY <1>2
    <3> HIDE DEF T
    <3> QED BY <3>1, <3>2, NatInd
  <2> QED BY <2>0, <2>1
<1> QED BY <1>3 DEF FlatPrefixes

\* Those of a longer sequence begin with those of the shorter.
LEMMA PrefixesUnique ==
    ASSUME NEW S, NEW ss \in Seq(Seq(S)), NEW x \in Seq(S), NEW g, NEW h,
           FlatPrefixes(g, ss, S), FlatPrefixes(h, Append(ss, x), S)
    PROVE  \A i \in 1..Len(ss) : g[i] = h[i]
<1> DEFINE T == {k \in Nat : k \in 1..Len(ss) => g[k] = h[k]}
<1>1. 0 \in T
  OBVIOUS
<1>2. ASSUME NEW k \in Nat, k \in T PROVE k + 1 \in T
  <2> SUFFICES ASSUME k + 1 \in 1..Len(ss) PROVE g[k+1] = h[k+1]
    OBVIOUS
  <2>1. Append(ss, x)[k+1] = ss[k+1] /\ k + 1 \in 1..Len(Append(ss, x))
    OBVIOUS
  <2>2. g[k+1] = IF k + 1 = 1 THEN ss[k+1] ELSE g[k] \o ss[k+1]
    <3>1. \A i \in 1..Len(ss) : g[i] = IF i = 1 THEN ss[i] ELSE g[i-1] \o ss[i]
      BY DEF FlatPrefixes
    <3> QED BY <3>1
  <2>3. h[k+1] = IF k + 1 = 1 THEN ss[k+1] ELSE h[k] \o ss[k+1]
    <3>1. \A i \in 1..Len(Append(ss, x)) : h[i] = IF i = 1 THEN Append(ss, x)[i] ELSE h[i-1] \o Append(ss, x)[i]
      BY DEF FlatPrefixes
    <3> HIDE DEF FlatPrefixes
    <3> QED BY <2>1, <3>1
  <2>4. k + 1 # 1 => g[k] = h[k]
    BY <1>2
  <2> QED BY <2>2, <2>3, <2>4
<1> HIDE DEF T
<1>3. \A n \in Nat : n \in T
  BY <1>1, <1>2, NatInd
<1> QED BY <1>3 DEF T

\* FlattenSeq is the last of the flattened prefixes.
LEMMA FlattenPrefix ==
    ASSUME NEW S, NEW ss \in Seq(Seq(S)), ss # <<>>
    PROVE  \E g : FlatPrefixes(g, ss, S) /\ FlattenSeq(ss) = g[Len(ss)]
<1> DEFINE F(g) == [i \in 1..Len(ss) |-> IF i = 1 THEN ss[i] ELSE g[i-1] \o ss[i]]
           c == CHOOSE g : g = F(g)
<1>1. Len(ss) \in Nat /\ Len(ss) # 0
  OBVIOUS
<1>2. PICK g : FlatPrefixes(g, ss, S)
  BY PrefixesExist
<1>3. g = F(g)
  BY <1>2 DEF FlatPrefixes
<1>4. c = F(c)
  <2> HIDE DEF F
  <2> QED BY <1>3, Zenon
<1>5. FlattenSeq(ss) = c[Len(ss)]
  BY <1>1 DEF FlattenSeq
<1>6. FlatPrefixes(c, ss, S)
  <2> HIDE DEF c
  <2>1. \A i \in 1..Len(ss) : c[i] = IF i = 1 THEN ss[i] ELSE c[i-1] \o ss[i]
    <3> SUFFICES ASSUME NEW i \in 1..Len(ss)
                 PROVE  c[i] = IF i = 1 THEN ss[i] ELSE c[i-1] \o ss[i]
      OBVIOUS
    <3>1. c[i] = F(c)[i]
      BY <1>4, Zenon
    <3> QED BY <3>1
  <2> DEFINE T == {k \in Nat : k \in 1..Len(ss) => c[k] \in Seq(S)}
  <2>2. 0 \in T
    OBVIOUS
  <2>3. ASSUME NEW k \in Nat, k \in T PROVE k + 1 \in T
    <3> SUFFICES ASSUME k + 1 \in 1..Len(ss) PROVE c[k+1] \in Seq(S)
      OBVIOUS
    <3>1. ss[k+1] \in Seq(S)
      OBVIOUS
    <3>2. c[k+1] = IF k + 1 = 1 THEN ss[k+1] ELSE c[k] \o ss[k+1]
      BY <2>1
    <3>3. k + 1 # 1 => c[k] \in Seq(S)
      BY <2>3
    <3> QED BY <3>1, <3>2, <3>3
  <2>4. \A n \in Nat : n \in T
    <3> HIDE DEF T
    <3> QED BY <2>2, <2>3, NatInd
  <2>5. \A i \in 1..Len(ss) : c[i] \in Seq(S)
    BY <2>4
  <2>6. c \in [1..Len(ss) -> Seq(S)]
    BY <1>4, <2>5
  <2> QED BY <2>1, <2>6 DEF FlatPrefixes
<1> QED
  <2> HIDE DEF c
  <2> QED BY <1>5, <1>6

\* Nothing flattened is nothing.
LEMMA FlattenEmpty == FlattenSeq(<<>>) = <<>>
  BY DEF FlattenSeq

\* A flattened sequence has the elements of its parts.
LEMMA FlattenType ==
    ASSUME NEW S, NEW ss \in Seq(Seq(S))
    PROVE  FlattenSeq(ss) \in Seq(S)
<1>1. CASE ss = <<>>
  <2>1. FlattenSeq(ss) = <<>>
    BY <1>1, FlattenEmpty
  <2> QED BY <2>1
<1>2. CASE ss # <<>>
  <2>1. PICK g : FlatPrefixes(g, ss, S) /\ FlattenSeq(ss) = g[Len(ss)]
    BY <1>2, FlattenPrefix
  <2>2. Len(ss) \in 1..Len(ss)
    BY <1>2
  <2> QED BY <2>1, <2>2 DEF FlatPrefixes
<1> QED BY <1>1, <1>2

\* One part more is at the end of the flattened sequence.
LEMMA FlattenAppend ==
    ASSUME NEW S, NEW ss \in Seq(Seq(S)), NEW x \in Seq(S)
    PROVE  FlattenSeq(Append(ss, x)) = FlattenSeq(ss) \o x
<1> DEFINE tt == Append(ss, x)
<1>1. tt \in Seq(Seq(S)) /\ tt # <<>> /\ Len(tt) = Len(ss) + 1 /\ tt[Len(tt)] = x
  BY AppendProperties
<1>2. PICK h : FlatPrefixes(h, tt, S) /\ FlattenSeq(tt) = h[Len(tt)]
  <2> HIDE DEF tt
  <2> QED BY <1>1, FlattenPrefix
<1>3. CASE ss = <<>>
  <2>1. Len(tt) = 1 /\ h[1] = x
    BY <1>1, <1>2, <1>3 DEF FlatPrefixes
  <2> QED BY <2>1, <1>2, <1>3, FlattenEmpty
<1>4. CASE ss # <<>>
  <2>1. PICK g : FlatPrefixes(g, ss, S) /\ FlattenSeq(ss) = g[Len(ss)]
    BY <1>4, FlattenPrefix
  <2>2. g[Len(ss)] = h[Len(ss)]
    BY <1>2, <1>4, <2>1, PrefixesUnique
  <2>3. h[Len(tt)] = h[Len(ss)] \o x
    <3>1. Len(tt) \in 1..Len(tt) /\ Len(tt) # 1 /\ Len(tt) - 1 = Len(ss)
      BY <1>1, <1>4
    <3> HIDE DEF tt
    <3> QED BY <1>1, <1>2, <3>1 DEF FlatPrefixes
  <2> QED BY <1>2, <2>1, <2>2, <2>3
<1> QED BY <1>3, <1>4

\* A function on 1..n is a sequence of length n.
LEMMA FcnIsSeq ==
    ASSUME NEW S, NEW n \in Nat, NEW f \in [1..n -> S]
    PROVE  f \in Seq(S) /\ Len(f) = n /\ DOMAIN f = 1..n
<1>1. f \in Seq(S)
  BY SeqDef
<1>2. DOMAIN f = 1..Len(f) /\ DOMAIN f = 1..n /\ Len(f) \in Nat
  BY <1>1, LenProperties
<1>3. Len(f) = n
  BY <1>2
<1> QED BY <1>1, <1>2, <1>3

\* Induction over sequences by their last element, for a set in place of a
\* predicate.
LEMMA SeqInd ==
    ASSUME NEW S, NEW T, <<>> \in T,
           \A s \in Seq(S), x \in S : s \in T => Append(s, x) \in T
    PROVE  \A s \in Seq(S) : s \in T
<1> DEFINE Q(n) == \A s \in Seq(S) : Len(s) = n => s \in T
           N == {n \in Nat : Q(n)}
<1>1. Q(0)
  OBVIOUS
<1>2. ASSUME NEW n \in Nat, Q(n) PROVE Q(n + 1)
  <2> SUFFICES ASSUME NEW s \in Seq(S), Len(s) = n + 1 PROVE s \in T
    OBVIOUS
  <2>1. PICK u \in Seq(S), x \in S : s = Append(u, x)
    <3>1. s # <<>>
      OBVIOUS
    <3> QED BY <3>1, SequenceEmptyOrAppend
  <2>2. Len(u) = n
    BY <2>1
  <2> QED BY <1>2, <2>1, <2>2
<1> HIDE DEF Q
<1>3. \A n \in Nat : n \in N
  <2>1. 0 \in N
    BY <1>1
  <2>2. \A n \in Nat : n \in N => n + 1 \in N
    BY <1>2
  <2> HIDE DEF N
  <2> QED BY <2>1, <2>2, NatInd
<1>4. \A n \in Nat : Q(n)
  BY <1>3
<1> QED BY <1>4 DEF Q

\* That three sequences can be put together from either end, as one fact.
Associates(p, q, r) == (p \o q) \o r = p \o (q \o r)

LEMMA ConcatAssociates ==
    ASSUME NEW S, NEW p \in Seq(S), NEW q \in Seq(S), NEW r \in Seq(S)
    PROVE  Associates(p, q, r)
<1> DEFINE x == (p \o q) \o r
           y == p \o (q \o r)
<1>1. x \in Seq(S) /\ y \in Seq(S) /\ Len(x) = Len(y)
  OBVIOUS
<1>2. \A k \in 1..Len(x) : x[k] = y[k]
  OBVIOUS
<1> HIDE DEF x, y
<1>3. x = y
  BY <1>1, <1>2, SeqEqual
<1> QED BY <1>3 DEF x, y, Associates

\* Flattening one after the other.
LEMMA FlattenConcat ==
    ASSUME NEW S, NEW a \in Seq(Seq(S)), NEW b \in Seq(Seq(S))
    PROVE  FlattenSeq(a \o b) = FlattenSeq(a) \o FlattenSeq(b)
<1> DEFINE Q(s) == FlattenSeq(a \o s) = FlattenSeq(a) \o FlattenSeq(s)
           T == {s \in Seq(Seq(S)) : Q(s)}
<1>0. FlattenSeq(a) \in Seq(S)
  BY FlattenType
<1>1. Q(<<>>)
  BY <1>0, FlattenEmpty
<1>2. ASSUME NEW s \in Seq(Seq(S)), NEW x \in Seq(S), Q(s) PROVE Q(Append(s, x))
  <2>1. a \o Append(s, x) = Append(a \o s, x)
    <3> DEFINE E == Seq(S)
    <3> HIDE DEF E
    <3>1. a \in Seq(E) /\ s \in Seq(E) /\ x \in E
      BY DEF E
    <3> DEFINE y == a \o Append(s, x)
               z == Append(a \o s, x)
    <3>2. y \in Seq(E) /\ z \in Seq(E) /\ Len(y) = Len(z)
      BY <3>1
    <3>3. \A k \in 1..Len(y) : y[k] = z[k]
      BY <3>1
    <3> HIDE DEF y, z
    <3>4. y = z
      BY <3>2, <3>3, SeqEqual
    <3> QED BY <3>4 DEF y, z
  <2>2. a \o s \in Seq(Seq(S))
    OBVIOUS
  <2>3. FlattenSeq(Append(a \o s, x)) = FlattenSeq(a \o s) \o x
    BY <2>2, FlattenAppend
  <2>4. FlattenSeq(Append(s, x)) = FlattenSeq(s) \o x
    BY FlattenAppend
  <2>5. FlattenSeq(s) \in Seq(S)
    BY FlattenType
  <2>6. (FlattenSeq(a) \o FlattenSeq(s)) \o x = FlattenSeq(a) \o (FlattenSeq(s) \o x)
    <3>1. Associates(FlattenSeq(a), FlattenSeq(s), x)
      BY <1>0, <2>5, ConcatAssociates
    <3> QED BY <3>1 DEF Associates
  <2> QED BY <1>2, <2>1, <2>3, <2>4, <2>6
<1> HIDE DEF Q
<1>3. <<>> \in T /\ \A s \in Seq(Seq(S)), x \in Seq(S) : s \in T => Append(s, x) \in T
  BY <1>1, <1>2
<1>4. b \in T
  <2> HIDE DEF T
  <2> QED BY <1>3, SeqInd
<1> QED BY <1>4 DEF Q

\* One part flattened is that part.
LEMMA FlattenSingle ==
    ASSUME NEW S, NEW x \in Seq(S)
    PROVE  FlattenSeq(<<x>>) = x
<1>1. <<x>> = Append(<<>>, x) /\ <<>> \in Seq(Seq(S))
  OBVIOUS
<1>2. FlattenSeq(<<x>>) = FlattenSeq(<<>>) \o x
  BY <1>1, FlattenAppend
<1> QED BY <1>2, FlattenEmpty

\* A sequence cut into its elements and flattened is itself.
LEMMA FlattenSingletons ==
    ASSUME NEW S, NEW s \in Seq(S)
    PROVE  FlattenSeq([i \in DOMAIN s |-> <<s[i]>>]) = s
<1> DEFINE M(u) == [i \in DOMAIN u |-> <<u[i]>>]
           Q(u) == FlattenSeq(M(u)) = u
           T == {u \in Seq(S) : Q(u)}
<1>1. Q(<<>>)
  <2>1. M(<<>>) = <<>>
    OBVIOUS
  <2> QED BY <2>1, FlattenEmpty
<1>2. ASSUME NEW u \in Seq(S), NEW x \in S, Q(u) PROVE Q(Append(u, x))
  <2>1. M(u) \in Seq(Seq(S))
    <3>1. M(u) \in [1..Len(u) -> Seq(S)] /\ Len(u) \in Nat
      OBVIOUS
    <3> QED BY <3>1, FcnIsSeq, Zenon
  <2>2. M(Append(u, x)) = Append(M(u), <<x>>)
    OBVIOUS
  <2>3. FlattenSeq(Append(M(u), <<x>>)) = FlattenSeq(M(u)) \o <<x>>
    <3>1. <<x>> \in Seq(S)
      OBVIOUS
    <3> HIDE DEF M
    <3> QED BY <2>1, <3>1, FlattenAppend
  <2>4. u \o <<x>> = Append(u, x)
    OBVIOUS
  <2> QED BY <1>2, <2>2, <2>3, <2>4
<1> HIDE DEF Q
<1>3. <<>> \in T /\ \A u \in Seq(S), x \in S : u \in T => Append(u, x) \in T
  BY <1>1, <1>2
<1>4. s \in T
  <2> HIDE DEF T
  <2> QED BY <1>3, SeqInd
<1> QED BY <1>4 DEF Q

\* g gives a sequence over R for every element of S.
Maps(g, S, R) == g \in [S -> Seq(R)]

\* The sequences a function has for the elements of s, one after the other.
FlatMap(g, s) == FlattenSeq([i \in DOMAIN s |-> g[s[i]]])

\* The elements of two sequences one after the other.
Concatenates(S, a, b) ==
    /\ a \o b \in Seq(S) /\ Len(a \o b) = Len(a) + Len(b)
    /\ \A i \in 1..Len(a) : (a \o b)[i] = a[i]
    /\ \A i \in 1..Len(b) : (a \o b)[Len(a) + i] = b[i]

LEMMA ConcatAt ==
    ASSUME NEW S, NEW a \in Seq(S), NEW b \in Seq(S)
    PROVE  Concatenates(S, a, b)
  BY DEF Concatenates

\* A map over two sequences, one after the other.
LEMMA FlatMapConcat ==
    ASSUME NEW S, NEW R, NEW g, Maps(g, S, R), NEW a \in Seq(S), NEW b \in Seq(S)
    PROVE  FlatMap(g, a \o b) = FlatMap(g, a) \o FlatMap(g, b) /\ FlatMap(g, a) \in Seq(R)
<1> DEFINE T(u) == [i \in DOMAIN u |-> g[u[i]]]
           c == a \o b
           d == T(a) \o T(b)
<1>1. c \in Seq(S)
  OBVIOUS
<1>2. \A u \in Seq(S) : T(u) \in Seq(Seq(R)) /\ Len(T(u)) = Len(u) /\ \A i \in 1..Len(u) : T(u)[i] = g[u[i]]
  <2> SUFFICES ASSUME NEW u \in Seq(S)
               PROVE T(u) \in Seq(Seq(R)) /\ Len(T(u)) = Len(u) /\ \A i \in 1..Len(u) : T(u)[i] = g[u[i]]
    OBVIOUS
  <2>1. Len(u) \in Nat /\ DOMAIN u = 1..Len(u) /\ \A i \in 1..Len(u) : u[i] \in S
    OBVIOUS
  <2>2. T(u) \in [1..Len(u) -> Seq(R)] /\ \A i \in 1..Len(u) : T(u)[i] = g[u[i]]
    BY <2>1 DEF Maps
  <2> HIDE DEF T
  <2>3. T(u) \in Seq(Seq(R)) /\ Len(T(u)) = Len(u)
    BY <2>1, <2>2, FcnIsSeq
  <2> QED BY <2>2, <2>3
<1> HIDE DEF T
<1>3. Len(a) \in Nat /\ Len(b) \in Nat
  OBVIOUS
<1>4. /\ Len(c) = Len(a) + Len(b)
      /\ \A i \in 1..Len(a) : c[i] = a[i]
      /\ \A i \in 1..Len(b) : c[Len(a) + i] = b[i]
  <2>1. Concatenates(S, a, b)
    BY ConcatAt
  <2> QED BY <2>1, Zenon DEF Concatenates
<1> HIDE DEF c
<1>5. T(a) \in Seq(Seq(R)) /\ T(b) \in Seq(Seq(R)) /\ T(c) \in Seq(Seq(R))
  BY <1>1, <1>2
<1>6. Len(T(a)) = Len(a) /\ Len(T(b)) = Len(b) /\ Len(T(c)) = Len(c)
  BY <1>1, <1>2
<1>7. /\ d \in Seq(Seq(R)) /\ Len(d) = Len(a) + Len(b)
      /\ \A i \in 1..Len(a) : d[i] = T(a)[i]
      /\ \A i \in 1..Len(b) : d[Len(a) + i] = T(b)[i]
  <2> DEFINE ta == T(a)
             tb == T(b)
             Q == Seq(R)
  <2>1. ta \in Seq(Q) /\ tb \in Seq(Q) /\ Len(ta) = Len(a) /\ Len(tb) = Len(b) /\ d = ta \o tb
    BY <1>5, <1>6
  <2> HIDE DEF ta, tb, d, Q
  <2>2. /\ ta \o tb \in Seq(Q) /\ Len(ta \o tb) = Len(ta) + Len(tb)
        /\ \A i \in 1..Len(ta) : (ta \o tb)[i] = ta[i]
        /\ \A i \in 1..Len(tb) : (ta \o tb)[Len(ta) + i] = tb[i]
    <3>1. Concatenates(Q, ta, tb)
      BY <2>1, ConcatAt
    <3> QED BY <3>1, Zenon DEF Concatenates
  <2>3. /\ d \in Seq(Q) /\ Len(d) = Len(a) + Len(b)
        /\ \A i \in 1..Len(a) : d[i] = ta[i]
        /\ \A i \in 1..Len(b) : d[Len(a) + i] = tb[i]
    BY <2>1, <2>2
  <2> QED BY <2>3 DEF ta, tb, Q
<1> HIDE DEF d
<1>8. \A i \in 1..Len(c) : T(c)[i] = d[i]
  <2> SUFFICES ASSUME NEW i \in 1..Len(c) PROVE T(c)[i] = d[i]
    OBVIOUS
  <2>1. T(c)[i] = g[c[i]]
    BY <1>1, <1>2
  <2>2. CASE i \in 1..Len(a)
    <3>1. c[i] = a[i] /\ d[i] = T(a)[i] /\ T(a)[i] = g[a[i]]
      BY <1>2, <1>4, <1>7, <2>2, Zenon
    <3> QED BY <2>1, <3>1
  <2>3. CASE i \notin 1..Len(a)
    <3>1. i - Len(a) \in 1..Len(b) /\ Len(a) + (i - Len(a)) = i
      BY <1>3, <1>4, <2>3
    <3>2. \A j \in 1..Len(b) : Len(a) + j = i => d[i] = g[b[j]] /\ c[i] = b[j]
      BY <1>2, <1>4, <1>7
    <3> QED BY <2>1, <3>1, <3>2
  <2> QED BY <2>2, <2>3
<1>9. T(c) = d
  BY <1>4, <1>5, <1>6, <1>7, <1>8, SeqEqual
<1>10. \A u : FlatMap(g, u) = FlattenSeq(T(u))
  BY DEF FlatMap, T
<1>11. FlattenSeq(T(a) \o T(b)) = FlattenSeq(T(a)) \o FlattenSeq(T(b))
  BY <1>5, FlattenConcat
<1>12. FlattenSeq(T(a)) \in Seq(R)
  BY <1>5, FlattenType
<1> QED BY <1>9, <1>10, <1>11, <1>12 DEF c, d

\* A map over nothing, and over one element.
LEMMA FlatMapSmall ==
    ASSUME NEW S, NEW R, NEW g, Maps(g, S, R)
    PROVE  FlatMap(g, <<>>) = <<>> /\ \A x \in S : FlatMap(g, <<x>>) = g[x]
<1>1. [i \in DOMAIN <<>> |-> g[<<>>[i]]] = <<>>
  OBVIOUS
<1>2. \A x \in S : [i \in DOMAIN <<x>> |-> g[<<x>>[i]]] = <<g[x]>> /\ g[x] \in Seq(R)
  BY DEF Maps
<1> QED BY <1>1, <1>2, FlattenEmpty, FlattenSingle DEF FlatMap

\* A map over one element more.
LEMMA FlatMapAppend ==
    ASSUME NEW S, NEW R, NEW g, Maps(g, S, R), NEW s \in Seq(S), NEW x \in S
    PROVE  FlatMap(g, Append(s, x)) = FlatMap(g, s) \o g[x]
<1>1. Append(s, x) = s \o <<x>> /\ <<x>> \in Seq(S)
  BY AppendIsConcat
<1> DEFINE y == <<x>>
<1>2. FlatMap(g, y) = g[x]
  BY FlatMapSmall, Zenon
<1>3. y \in Seq(S) /\ Append(s, x) = s \o y
  BY <1>1
<1> HIDE DEF y
<1>4. FlatMap(g, s \o y) = FlatMap(g, s) \o FlatMap(g, y)
  <2>1. \A b \in Seq(S) : FlatMap(g, s \o b) = FlatMap(g, s) \o FlatMap(g, b)
    BY FlatMapConcat
  <2> QED BY <1>3, <2>1
<1> QED BY <1>2, <1>3, <1>4

---------------------------------------------------------------------------
(* tokenize *)

\* A run ends at or after its first character and within the text.
LEMMA RunEndInside ==
    ASSUME NEW S, NEW s \in Seq(S), NEW i \in 1..Len(s)
    PROVE  RunEnd(s, i) \in i..Len(s)
<1> DEFINE Stop(j) == SameRun(s, i, j) /\ (j < Len(s) => ~SameRun(s, i, j + 1))
           T == {j \in i..Len(s) : j = Len(s) \/ ~SameRun(s, i, j + 1)}
<1>1. PICK j \in T : \A k \in T : j <= k
  <2>1. T \subseteq Nat /\ Len(s) \in T
    OBVIOUS
  <2> HIDE DEF T
  <2> QED BY <2>1, NatMin
<1>2. SameRun(s, i, j)
  <2>1. CASE j = i
    BY <2>1 DEF SameRun
  <2>2. CASE j # i
    <3>0. j \in i..Len(s)
      BY <1>1
    <3>1. j - 1 \in i..Len(s) /\ j - 1 # Len(s) /\ j - 1 \notin T
      <4>1. j - 1 \in i..Len(s) /\ j - 1 # Len(s) /\ ~(j <= j - 1)
        BY <2>2, <3>0
      <4> HIDE DEF T
      <4> QED BY <1>1, <4>1
    <3>2. SameRun(s, i, j - 1 + 1)
      BY <3>1
    <3>3. j - 1 + 1 = j
      BY <1>1
    <3> QED BY <3>2, <3>3
  <2> QED BY <2>1, <2>2
<1>3. j \in i..Len(s) /\ Stop(j)
  BY <1>1, <1>2
<1>4. \E k \in i..Len(s) : Stop(k)
  BY <1>3
<1>5. RunEnd(s, i) = CHOOSE k \in i..Len(s) : Stop(k)
  BY DEF RunEnd
<1> HIDE DEF Stop
<1> QED BY <1>4, <1>5

\* The equation of tokenize's recursion at i.
Run(r, s, i) == r[i] = IF i > Len(s) THEN <<>>
                       ELSE <<SubSeq(s, i, RunEnd(s, i))>> \o r[RunEnd(s, i) + 1]

\* The function that the recursion of tokenize defines exists.
LEMMA RunsExist ==
    ASSUME NEW S, NEW s \in Seq(S)
    PROVE  \E r \in [1..Len(s) + 1 -> Seq(Seq(S))] : \A i \in 1..Len(s) + 1 : Run(r, s, i)
<1> DEFINE D == 1..Len(s) + 1
           Q(k) == \E r \in [D -> Seq(Seq(S))] : \A i \in D : i >= Len(s) + 1 - k => Run(r, s, i)
           T == {k \in Nat : Q(k)}
<1>0. Len(s) \in Nat
  OBVIOUS
<1>1. Q(0)
  <2> DEFINE r == [i \in D |-> <<>>]
  <2>1. r \in [D -> Seq(Seq(S))]
    OBVIOUS
  <2>2. \A i \in D : i >= Len(s) + 1 - 0 => Run(r, s, i)
    BY <1>0 DEF Run
  <2> QED BY <2>1, <2>2
<1>2. ASSUME NEW k \in Nat, Q(k) PROVE Q(k + 1)
  <2>1. PICK r \in [D -> Seq(Seq(S))] : \A i \in D : i >= Len(s) + 1 - k => Run(r, s, i)
    BY <1>2
  <2>2. CASE k + 1 > Len(s)
    <3>1. \A i \in D : i >= Len(s) + 1 - (k + 1) => i >= Len(s) + 1 - k \/ i = Len(s) - k
      BY <1>0
    <3>2. \A i \in D : i # Len(s) - k
      BY <1>0, <2>2
    <3>3. \A i \in D : i >= Len(s) + 1 - (k + 1) => Run(r, s, i)
      BY <2>1, <3>1, <3>2
    <3> QED BY <3>3
  <2>3. CASE k + 1 <= Len(s)
    <3> DEFINE m == Len(s) - k
               e == RunEnd(s, m)
               h == [r EXCEPT ![m] = <<SubSeq(s, m, e)>> \o r[e + 1]]
    <3>1. m \in 1..Len(s)
      BY <1>0, <2>3
    <3>2. e \in m..Len(s)
      BY <3>1, RunEndInside
    <3>3. SubSeq(s, m, e) \in Seq(S)
      <4>1. \A j \in m..e : s[j] \in S
        BY <3>1, <3>2
      <4> HIDE DEF m, e
      <4> QED BY <3>1, <3>2, <4>1, SubSeqProperties
    <3> HIDE DEF m, e
    <3>4. e + 1 \in D /\ m \in D
      BY <3>1, <3>2
    <3>5. h \in [D -> Seq(Seq(S))]
      BY <3>3, <3>4
    <3>6. ASSUME NEW i \in D, i >= Len(s) + 1 - (k + 1)
          PROVE  Run(h, s, i)
      <4>1. CASE i = m
        <5>1. e = RunEnd(s, i) /\ ~(i > Len(s))
          BY <3>1, <4>1 DEF e
        <5>2. h[e + 1] = r[e + 1]
          BY <3>2, <3>1, <3>4
        <5>3. h[m] = <<SubSeq(s, m, e)>> \o r[e + 1]
          BY <3>4
        <5> HIDE DEF h
        <5> QED BY <4>1, <5>1, <5>2, <5>3 DEF Run
      <4>2. CASE i # m
        <5>1. i >= Len(s) + 1 - k
          BY <1>0, <3>6, <4>2 DEF m
        <5>2. Run(r, s, i) /\ h[i] = r[i]
          BY <2>1, <4>2, <5>1
        <5>3. i <= Len(s) => h[RunEnd(s, i) + 1] = r[RunEnd(s, i) + 1]
          <6> SUFFICES ASSUME i <= Len(s) PROVE h[RunEnd(s, i) + 1] = r[RunEnd(s, i) + 1]
            OBVIOUS
          <6>1. RunEnd(s, i) \in i..Len(s)
            BY RunEndInside
          <6>2. RunEnd(s, i) + 1 \in D /\ RunEnd(s, i) + 1 # m
            BY <1>0, <5>1, <6>1 DEF m
          <6> QED BY <6>2
        <5> HIDE DEF h
        <5>4. i <= Len(s) \/ i > Len(s)
          BY <1>0
        <5> QED BY <5>2, <5>3, <5>4 DEF Run
      <4> QED BY <4>1, <4>2
    <3> HIDE DEF h
    <3> QED BY <3>5, <3>6
  <2> QED BY <1>0, <2>2, <2>3
<1>3. Q(Len(s))
  <2> HIDE DEF Q
  <2>1. 0 \in T /\ \A k \in Nat : k \in T => k + 1 \in T
    BY <1>1, <1>2
  <2>2. \A k \in Nat : k \in T
    <3> HIDE DEF T
    <3> QED BY <2>1, NatInd
  <2> QED BY <1>0, <2>2
<1>4. PICK r \in [D -> Seq(Seq(S))] : \A i \in D : i >= Len(s) + 1 - Len(s) => Run(r, s, i)
  BY <1>3
<1>5. \A i \in D : Run(r, s, i)
  BY <1>0, <1>4
<1> QED BY <1>4, <1>5

\* The tokens of a text are sequences of its characters, and together they are
\* the text (openaiapi/stream.go:154-177).
THEOREM TokensAreText ==
    ASSUME NEW S, NEW s \in Seq(S)
    PROVE  tokenize(s) \in Seq(Seq(S)) /\ FlattenSeq(tokenize(s)) = s
<1> DEFINE D == 1..Len(s) + 1
           F(r) == [i \in D |-> IF i > Len(s) THEN <<>>
                       ELSE <<SubSeq(s, i, RunEnd(s, i))>> \o r[RunEnd(s, i) + 1]]
           c == CHOOSE r : r = F(r)
<1>0. Len(s) \in Nat
  OBVIOUS
<1>1. tokenize(s) = c[1]
  BY DEF tokenize
<1>2. c = F(c)
  <2>1. PICK r \in [D -> Seq(Seq(S))] : \A i \in D : Run(r, s, i)
    BY RunsExist
  <2>2. r = F(r)
    BY <2>1 DEF Run
  <2> HIDE DEF F
  <2> QED BY <2>2, Zenon
<1> HIDE DEF c
<1>3. ASSUME NEW i \in D PROVE Run(c, s, i)
  <2>1. c[i] = F(c)[i]
    BY <1>2, Zenon
  <2> QED BY <2>1 DEF Run
<1> DEFINE OK(i) == c[i] \in Seq(Seq(S)) /\ FlattenSeq(c[i]) = SubSeq(s, i, Len(s))
           Q(k) == \A i \in D : i >= Len(s) + 1 - k => OK(i)
           T == {k \in Nat : Q(k)}
<1>4. Q(0)
  <2> SUFFICES ASSUME NEW i \in D, i >= Len(s) + 1 - 0 PROVE OK(i)
    OBVIOUS
  <2>1. i = Len(s) + 1
    BY <1>0
  <2>2. c[i] = <<>>
    <3>1. Run(c, s, i) /\ i > Len(s)
      BY <1>0, <1>3, <2>1
    <3> QED BY <3>1 DEF Run
  <2>3. SubSeq(s, i, Len(s)) = <<>>
    BY <1>0, <2>1, SubSeqEmpty
  <2> QED BY <2>2, <2>3, FlattenEmpty
<1>5. ASSUME NEW k \in Nat, Q(k) PROVE Q(k + 1)
  <2> SUFFICES ASSUME NEW i \in D, i >= Len(s) + 1 - (k + 1) PROVE OK(i)
    OBVIOUS
  <2>1. CASE i > Len(s)
    <3>1. i >= Len(s) + 1 - k
      BY <1>0, <2>1
    <3> QED BY <1>5, <3>1
  <2>2. CASE ~(i > Len(s))
    <3> DEFINE e == RunEnd(s, i)
    <3>1. i \in 1..Len(s)
      BY <1>0, <2>2
    <3>2. e \in i..Len(s)
      BY <3>1, RunEndInside
    <3>3. c[i] = <<SubSeq(s, i, e)>> \o c[e + 1]
      BY <1>3, <2>2 DEF Run
    <3> HIDE DEF e
    <3>4. e + 1 \in D /\ e + 1 >= Len(s) + 1 - k
      BY <1>0, <3>1, <3>2
    <3>5. OK(e + 1)
      <4> HIDE DEF OK
      <4> QED BY <1>5, <3>4
    <3>6. SubSeq(s, i, e) \in Seq(S)
      <4>1. \A j \in i..e : s[j] \in S
        BY <3>1, <3>2
      <4> QED BY <3>1, <3>2, <4>1, SubSeqProperties
    <3> DEFINE x == SubSeq(s, i, e)
               y == c[e + 1]
    <3>7. FlattenSeq(<<x>> \o y) = x \o FlattenSeq(y)
      <4> HIDE DEF x, y
      <4>0. x \in Seq(S) /\ y \in Seq(Seq(S))
        BY <3>5, <3>6 DEF x, y
      <4>1. <<x>> \in Seq(Seq(S))
        BY <4>0
      <4>2. FlattenSeq(<<x>> \o y) = FlattenSeq(<<x>>) \o FlattenSeq(y)
        BY <4>0, <4>1, FlattenConcat
      <4> QED BY <4>0, <4>2, FlattenSingle
    <3>8. SubSeq(s, i, e) \o SubSeq(s, e + 1, Len(s)) = SubSeq(s, i, Len(s))
      <4>1. i \in 1..Len(s) + 1 /\ e \in i - 1..Len(s) /\ Len(s) \in e..Len(s)
        BY <1>0, <3>1, <3>2
      <4> QED BY <4>1, ConcatAdjacentSubSeq
    <3>9. <<x>> \o y \in Seq(Seq(S))
      BY <3>5, <3>6
    <3>10. FlattenSeq(c[i]) = SubSeq(s, i, Len(s))
      BY <3>3, <3>5, <3>7, <3>8
    <3> QED BY <3>3, <3>9, <3>10
  <2> QED BY <2>1, <2>2
<1>6. Q(Len(s))
  <2> HIDE DEF Q
  <2>1. 0 \in T /\ \A k \in Nat : k \in T => k + 1 \in T
    BY <1>4, <1>5
  <2>2. \A k \in Nat : k \in T
    <3> HIDE DEF T
    <3> QED BY <2>1, NatInd
  <2> QED BY <1>0, <2>2
<1>7. OK(1)
  <2> HIDE DEF OK
  <2> QED BY <1>0, <1>6
<1>8. SubSeq(s, 1, Len(s)) = s
  BY SubSeqFull
<1> QED BY <1>1, <1>7, <1>8

---------------------------------------------------------------------------
(* Types *)

\* The types.  Texts are sequences of parts, which stand for words.
Part == STRING \cup {"w", Space, "server"}
Text == Seq(Part)
Kinds == {"role", "text", "stop", "error", "DONE", "200", "400", "413", "502"}
FrameType == [kind : Kinds, text : Text]
LineType == {Line(k, 0) : k \in {"noise", "bad", "done"}}
            \cup {Line("text", x) : x \in {"w", Space}}
            \cup {Line(k, i) : k \in {"head", "tail"}, i \in Indexes}
CallId == STRING \cup {""}
CallType == [id : CallId, args : {"parsed", "_raw"}]
MessageType == [role : Roles \cup {"null"}, content : Text, calls : Seq(CallType),
                results : Seq(CallId)]
RequestType == [readable : {"yes", "tooLarge", "malformed"}, stream : BOOLEAN,
                messages : Seq([role : Roles, content : Text])]
PCs == {"idle", "received", "call", "calling", "streaming", "tools", "returned"}

\* What the variables hold; body and messages are in Prompted and PromptReachesModel.
TypeOK ==
    /\ provider \in {"none", "openai", "anthropic"} /\ tools \in BOOLEAN
    /\ pc \in PCs /\ req \in RequestType /\ iter \in Nat
    /\ ctx \in {"live", "timeout", "gone"} /\ link \in {"open", "eof", "broken"}
    /\ lines \in Seq(LineType) /\ read \in 0..Len(lines) /\ content \in Text
    /\ DOMAIN calls \subseteq Indexes
    /\ \A i \in DOMAIN calls : calls[i] \in [id : CallId, args : Seq({"head", "tail"})]
    /\ out \in Seq(FrameType)

\* The conversation of a tool loop is one of messages.
Sent == pc = "streaming" /\ tools => messages \in Seq(MessageType)

\* The constructors make frames.
LEMMA FrameTypes ==
    /\ RoleChunk \in FrameType /\ StopChunk \in FrameType /\ ErrorFrame \in FrameType
    /\ DoneFrame \in FrameType
    /\ \A t \in Text : TextChunk(t) \in FrameType /\ Body(t) \in FrameType
    /\ \A s \in {"400", "413", "502"} : writeError(s) \in FrameType
  BY DEF RoleChunk, StopChunk, ErrorFrame, DoneFrame, TextChunk, Body, writeError, FrameType, Kinds, Text

\* StreamResponse writes a role chunk, one chunk for each token, a stop chunk and
\* [DONE].
LEMMA ResponseFrames ==
    ASSUME NEW t \in Text
    PROVE  \E tokens \in Seq(Text) :
              /\ StreamResponse(t) = <<RoleChunk>> \o [i \in DOMAIN tokens |-> TextChunk(tokens[i])]
                                     \o <<StopChunk, DoneFrame>>
              /\ [i \in DOMAIN tokens |-> TextChunk(tokens[i])] \in Seq(FrameType)
              /\ Len([i \in DOMAIN tokens |-> TextChunk(tokens[i])]) = Len(tokens)
              /\ FlattenSeq(tokens) = t
<1> DEFINE tokens == tokenize(t)
           M == [i \in DOMAIN tokens |-> TextChunk(tokens[i])]
<1>1. tokens \in Seq(Text) /\ FlattenSeq(tokens) = t
  BY TokensAreText DEF Text
<1>2. StreamResponse(t) = <<RoleChunk>> \o M \o <<StopChunk, DoneFrame>>
  BY DEF StreamResponse
<1> HIDE DEF tokens
<1>3. Len(tokens) \in Nat /\ M \in [1..Len(tokens) -> FrameType]
  BY <1>1, FrameTypes
<1>4. M \in Seq(FrameType) /\ Len(M) = Len(tokens)
  <2> HIDE DEF M
  <2> QED BY <1>3, FcnIsSeq
<1> QED BY <1>1, <1>2, <1>4

\* StreamResponse writes frames.
LEMMA ResponseType ==
    ASSUME NEW t \in Text
    PROVE  StreamResponse(t) \in Seq(FrameType)
<1>1. PICK tokens \in Seq(Text) :
              /\ StreamResponse(t) = <<RoleChunk>> \o [i \in DOMAIN tokens |-> TextChunk(tokens[i])]
                                     \o <<StopChunk, DoneFrame>>
              /\ [i \in DOMAIN tokens |-> TextChunk(tokens[i])] \in Seq(FrameType)
  BY ResponseFrames
<1> DEFINE M == [i \in DOMAIN tokens |-> TextChunk(tokens[i])]
<1> HIDE DEF M
<1>2. M \in Seq(FrameType) /\ StreamResponse(t) = <<RoleChunk>> \o M \o <<StopChunk, DoneFrame>>
  BY <1>1 DEF M
<1>3. <<RoleChunk>> \in Seq(FrameType) /\ <<StopChunk, DoneFrame>> \in Seq(FrameType)
  BY FrameTypes
<1> QED BY <1>2, <1>3

\* What Fails writes.
LEMMA FailureFrames ==
    ASSUME NEW event \in BOOLEAN, Fails(event)
    PROVE  \E frames \in {<<>>, StreamError, <<writeError("502")>>} :
              /\ Return(frames)
              /\ Streaming => frames = IF event THEN StreamError ELSE <<>>
              /\ ~Streaming => frames = IF req.stream THEN StreamError ELSE <<writeError("502")>>
<1> DEFINE frames == IF Streaming THEN (IF event THEN StreamError ELSE <<>>)
                     ELSE IF req.stream THEN StreamError ELSE <<writeError("502")>>
<1>1. Return(frames) /\ frames \in {<<>>, StreamError, <<writeError("502")>>}
  BY DEF Fails
<1>2. /\ Streaming => frames = IF event THEN StreamError ELSE <<>>
      /\ ~Streaming => frames = IF req.stream THEN StreamError ELSE <<writeError("502")>>
  OBVIOUS
<1> HIDE DEF frames
<1> QED BY <1>1, <1>2

\* So do the ways to report an error.
LEMMA ErrorTypes ==
    /\ <<>> \in Seq(FrameType) /\ StreamError \in Seq(FrameType)
    /\ \A s \in {"400", "413", "502"} : <<writeError(s)>> \in Seq(FrameType)
<1>1. ErrorFrame \in FrameType /\ DoneFrame \in FrameType
  BY FrameTypes
<1>2. StreamError = <<ErrorFrame, DoneFrame>>
  BY DEF StreamError
<1>3. \A s \in {"400", "413", "502"} : writeError(s) \in FrameType
  BY FrameTypes
<1> QED BY <1>1, <1>2, <1>3

\* The types at the start.
LEMMA InitType == Init => TypeOK
<1> SUFFICES ASSUME Init PROVE TypeOK
  OBVIOUS
<1>1. DOMAIN calls = {}
  BY DEF Init
<1> QED BY <1>1 DEF Init, TypeOK, NoRequest, RequestType, PCs, Text

\* Returning with some frames keeps them.
LEMMA ReturnType ==
    ASSUME TypeOK, NEW frames \in Seq(FrameType), Return(frames),
           UNCHANGED <<server, iter, ctx, upstream, answer>>
    PROVE  TypeOK'
<1>1. out' \in Seq(FrameType)
  BY DEF Return, TypeOK
<1>2. req' \in RequestType /\ pc' \in PCs
  <2> DEFINE Q == Seq([role : Roles, content : Text])
  <2>1. <<>> \in Q
    OBVIOUS
  <2> HIDE DEF Q
  <2>2. req \in RequestType => [req EXCEPT !.messages = <<>>] \in RequestType
    BY <2>1 DEF RequestType, Q
  <2> QED BY <2>2 DEF Return, TypeOK, PCs
<1> QED BY <1>1, <1>2 DEF TypeOK, server, upstream, answer

\* So does failing.
LEMMA FailsType ==
    ASSUME TypeOK, NEW event \in BOOLEAN, Fails(event),
           UNCHANGED <<server, iter, ctx, upstream, answer>>
    PROVE  TypeOK'
<1>1. PICK frames \in {<<>>, StreamError, <<writeError("502")>>} : Return(frames)
  BY FailureFrames
<1>2. frames \in Seq(FrameType)
  BY <1>1, ErrorTypes
<1> QED BY <1>1, <1>2, ReturnType

\* The API sends lines.
LEMMA LinesType == TypeOK => Lines \subseteq LineType
  BY DEF TypeOK, Lines, LineType, Line, Heads, Tails

\* The ids of the tool calls are strings.
LEMMA IdType == \A i \in Indexes : Id(i) \in CallId
<1> SUFFICES ASSUME NEW i \in Indexes PROVE Id(i) \in CallId
  OBVIOUS
<1>1. Ids \in Seq(STRING)
  BY BoundsAssumption
<1>2. i + 1 \in 1..Len(Ids)
  BY <1>1 DEF Indexes
<1>3. Ids[i + 1] \in STRING
  BY <1>1, <1>2, ElementOfSeq
<1> QED BY <1>3 DEF Id, CallId

\* Every step keeps the types.
LEMMA TypeStep == TypeOK /\ [Next]_vars => TypeOK'
<1> SUFFICES ASSUME TypeOK, [Next]_vars PROVE TypeOK'
  OBVIOUS
<1>1. CASE Receive
  <2>1. req' \in RequestType
    <3>1. PICK r \in {"yes", "tooLarge", "malformed"}, s \in BOOLEAN, c \in Conversations :
             req' = [readable |-> r, stream |-> s, messages |-> c]
      BY <1>1 DEF Receive
    <3>2. c \in Seq([role : Roles, content : Seq(STRING)])
      BY BoundsAssumption
    <3>3. c \in Seq([role : Roles, content : Text])
      <4>1. Seq(STRING) \subseteq Text
        BY SeqMonotonic DEF Text, Part
      <4>2. [role : Roles, content : Seq(STRING)] \subseteq [role : Roles, content : Text]
        BY <4>1
      <4> DEFINE A == [role : Roles, content : Seq(STRING)]
                 B == [role : Roles, content : Text]
      <4>3. c \in Seq(A) /\ A \subseteq B
        BY <3>2, <4>2
      <4> HIDE DEF A, B
      <4>4. c \in Seq(B)
        BY <4>3, SeqMonotonic
      <4> QED BY <4>4 DEF B
    <3> QED BY <3>1, <3>3 DEF RequestType
  <2>2. DOMAIN calls' = {}
    BY <1>1 DEF Receive
  <2> QED BY <1>1, <2>1, <2>2 DEF Receive, TypeOK, PCs, server, Text
<1>2. CASE Reject
  <2>1. PICK s \in {"400", "413", "502"} : Return(<<writeError(s)>>)
    BY <1>2 DEF Reject
  <2> QED BY <1>2, <2>1, ErrorTypes, ReturnType DEF Reject
<1>3. CASE Unconfigured
  <2> DEFINE text == <<"w", Space, "w">>
  <2>1. text \in Text
    BY DEF Text, Part
  <2>2. StreamResponse(text) \in Seq(FrameType)
    BY <2>1, ResponseType
  <2>3. <<Body(text)>> \in Seq(FrameType)
    BY <2>1, FrameTypes
  <2>4. PICK f \in Seq(FrameType) : Return(f)
    BY <1>3, <2>2, <2>3 DEF Unconfigured
  <2> QED BY <1>3, <2>4, ReturnType DEF Unconfigured
<1>4. CASE Accept
  <2>1. <<RoleChunk>> \in Seq(FrameType) /\ <<>> \in Seq(FrameType)
    BY FrameTypes
  <2>2. out' \in Seq(FrameType)
    BY <1>4, <2>1 DEF Accept
  <2> QED BY <1>4, <2>2 DEF Accept, TypeOK, PCs, server, upstream, answer
<1>5. CASE Call
  <2>1. DOMAIN calls' = {}
    BY <1>5 DEF Call
  <2> QED BY <1>5, <2>1 DEF Call, TypeOK, PCs, server, Text
<1>6. CASE Refused
  BY <1>6, FailsType DEF Refused
<1>7. CASE Answered
  <2>1. req' \in RequestType
    <3> DEFINE Q == Seq([role : Roles, content : Text])
    <3>1. <<>> \in Q
      OBVIOUS
    <3> HIDE DEF Q
    <3>2. req \in RequestType => [req EXCEPT !.messages = <<>>] \in RequestType
      BY <3>1 DEF RequestType, Q
    <3> QED BY <1>7, <3>2 DEF Answered, TypeOK
  <2> QED BY <1>7, <2>1 DEF Answered, TypeOK, PCs, server, upstream, answer
<1>8. CASE ContextEnded
  BY <1>8, FailsType DEF ContextEnded
<1>9. CASE ScanSkips
  <2>1. read' \in 0..Len(lines)
    BY <1>9 DEF ScanSkips, Readable, Scanned, TypeOK
  <2> QED BY <1>9, <2>1 DEF ScanSkips, TypeOK, server, upstream
<1>10. CASE ScanText
  <2>1. read' \in 0..Len(lines) /\ Current \in LineType
    BY <1>10 DEF ScanText, Readable, Scanned, Current, TypeOK
  <2>2. Current.x \in {"w", Space}
    BY <1>10, <2>1 DEF ScanText, LineType, Line
  <2>3. content' \in Text
    BY <1>10, <2>2 DEF ScanText, TypeOK, Text, Part
  <2>4. <<Current.x>> \in Text
    BY <2>2 DEF Text, Part
  <2>5. TextChunk(<<Current.x>>) \in FrameType
    BY <2>4, FrameTypes
  <2>6. out' \in Seq(FrameType)
    BY <1>10, <2>5 DEF ScanText, TypeOK
  <2> QED BY <1>10, <2>1, <2>3, <2>6 DEF ScanText, TypeOK, server, upstream
<1>11. CASE ScanTool
  <2>1. read' \in 0..Len(lines) /\ Current \in LineType
    BY <1>11 DEF ScanTool, Readable, Scanned, Current, TypeOK
  <2>2. Current.x \in Indexes /\ Current.kind \in {"head", "tail"}
    BY <1>11, <2>1 DEF ScanTool, LineType, Line
  <2>3. Id(Current.x) \in CallId
    BY <2>2, IdType
  <2>4. Pending(calls, Current.x) \in [id : CallId, args : Seq({"head", "tail"})]
    <3>1. [id |-> "", args |-> <<>>] \in [id : CallId, args : Seq({"head", "tail"})]
      BY DEF CallId
    <3> QED BY <3>1 DEF Pending, TypeOK
  <2>5. /\ DOMAIN calls' \subseteq Indexes
        /\ \A i \in DOMAIN calls' : calls'[i] \in [id : CallId, args : Seq({"head", "tail"})]
    BY <1>11, <2>2, <2>3, <2>4 DEF ScanTool, ToolDelta, With, TypeOK
  <2> QED BY <1>11, <2>1, <2>5 DEF ScanTool, TypeOK, server, upstream
<1>12. CASE ScanBad
  BY <1>12, FailsType DEF ScanBad
<1>13. CASE Broken
  BY <1>13, FailsType DEF Broken
<1>14. CASE UnparsedInput
  BY <1>14, FailsType DEF UnparsedInput
<1>15. CASE Finish
  <2>1. StreamResponse(content) \in Seq(FrameType) /\ <<Body(content)>> \in Seq(FrameType)
    BY FrameTypes, ResponseType DEF TypeOK
  <2>2. <<StopChunk, DoneFrame>> \in Seq(FrameType)
    BY FrameTypes
  <2>3. PICK f \in Seq(FrameType) : Return(f)
    BY <1>15, <2>1, <2>2 DEF Finish
  <2> QED BY <1>15, <2>3, ReturnType DEF Finish
<1>16. CASE RequestTools
  BY <1>16 DEF RequestTools, TypeOK, PCs, server, upstream, answer
<1>17. CASE RunTools
  BY <1>17 DEF RunTools, TypeOK, PCs, server, upstream, answer
<1>18. CASE LoopFails
  BY <1>18, FailsType DEF LoopFails
<1>19. CASE Send
  <2>1. lines' \in Seq(LineType) /\ Len(lines') = Len(lines) + 1
    BY <1>19, LinesType DEF Send, TypeOK
  <2> QED BY <1>19, <2>1 DEF Send, TypeOK, server, answer
<1>20. CASE HangUp
  BY <1>20 DEF HangUp, TypeOK, server, answer
<1>21. CASE Abort
  BY <1>21 DEF Abort, TypeOK, server, answer
<1>22. CASE Timeout
  BY <1>22 DEF Timeout, TypeOK, server, upstream, answer
<1>23. CASE ClientGone
  BY <1>23 DEF ClientGone, TypeOK, server, upstream, answer
<1>24. CASE UNCHANGED vars
  BY <1>24 DEF vars, TypeOK
<1> QED
  BY <1>1, <1>2, <1>3, <1>4, <1>5, <1>6, <1>7, <1>8, <1>9, <1>10, <1>11, <1>12, <1>13,
     <1>14, <1>15, <1>16, <1>17, <1>18, <1>19, <1>20, <1>21, <1>22, <1>23, <1>24
     DEF Next, Handler, Environment

---------------------------------------------------------------------------
(* What the providers read *)

\* A delta of tool call i is among the first n lines.
CameIn(kind, i, n) == \E k \in 1..n : lines[k] = Line(kind, i)

\* A tool call is opened once and continued at most once, after that.
Ordered ==
    /\ \A j, k \in DOMAIN lines :
          lines[j] = lines[k] /\ lines[j].kind \in {"head", "tail"} => j = k
    /\ \A k \in DOMAIN lines, i \in Indexes :
          lines[k] = Line("tail", i) => CameIn("head", i, k - 1)
    /\ provider # "openai" => \A k \in DOMAIN lines : lines[k].kind # "done"

\* What has been collected is what the lines read so far say, and none of them
\* ends the answer.
Collected ==
    /\ \A k \in 1..read : lines[k].kind \notin {"done", "bad"}
    /\ DOMAIN calls = {i \in Indexes : CameIn("head", i, read)}
    /\ \A i \in DOMAIN calls :
          /\ calls[i].id = Id(i)
          /\ calls[i].args = IF CameIn("tail", i, read) THEN <<"head", "tail">> ELSE <<"head">>
    /\ content = Said(SubSeq(lines, 1, read))

\* What one line says.
Word(l) == IF l.kind = "text" THEN <<l.x>> ELSE <<>>

\* The kinds of lines and what they carry.
LEMMA LineShape ==
    ASSUME NEW l \in LineType
    PROVE  /\ l.kind \in {"noise", "bad", "done", "text", "head", "tail"}
           /\ l.kind = "text" => l.x \in {"w", Space}
           /\ l.kind \in {"head", "tail"} => l.x \in Indexes /\ l = Line(l.kind, l.x)
<1>1. CASE l \in {Line(k, 0) : k \in {"noise", "bad", "done"}}
  BY <1>1 DEF Line
<1>2. CASE l \in {Line("text", x) : x \in {"w", Space}}
  BY <1>2 DEF Line
<1>3. CASE l \in {Line(k, i) : k \in {"head", "tail"}, i \in Indexes}
  <2>1. PICK k \in {"head", "tail"}, i \in Indexes : l = Line(k, i)
    BY <1>3
  <2>2. l.kind = k /\ l.x = i
    BY <2>1 DEF Line
  <2> QED BY <2>1, <2>2
<1> QED BY <1>1, <1>2, <1>3 DEF LineType

\* A line says a text.
LEMMA WordType == \A l \in LineType : Word(l) \in Text
<1> SUFFICES ASSUME NEW l \in LineType PROVE Word(l) \in Text
  OBVIOUS
<1>1. l.kind = "text" => l.x \in {"w", Space}
  BY DEF LineType, Line
<1>2. CASE l.kind = "text"
  <2>1. l.x \in Part
    BY <1>1, <1>2 DEF Part
  <2> QED BY <1>2, <2>1 DEF Word, Text
<1>3. CASE l.kind # "text"
  BY <1>3 DEF Word, Text
<1> QED BY <1>2, <1>3

\* One line more says what it says after the others.
LEMMA SaidAppend ==
    ASSUME NEW ls \in Seq(LineType), NEW l \in LineType
    PROVE  /\ Said(Append(ls, l)) = Said(ls) \o Word(l)
           /\ Said(ls) \in Text
<1> DEFINE W(u) == [k \in DOMAIN u |-> Word(u[k])]
<1>1. W(ls) \in Seq(Text)
  <2>1. Len(ls) \in Nat /\ W(ls) \in [1..Len(ls) -> Text]
    BY WordType
  <2> QED BY <2>1, FcnIsSeq, Zenon
<1>2. W(Append(ls, l)) = Append(W(ls), Word(l))
  OBVIOUS
<1>3. \A u : Said(u) = FlattenSeq(W(u))
  BY DEF Said, Word
<1>4. Word(l) \in Text
  BY WordType
<1> HIDE DEF W
<1>5. FlattenSeq(Append(W(ls), Word(l))) = FlattenSeq(W(ls)) \o Word(l)
  BY <1>1, <1>4, FlattenAppend DEF Text
<1>6. FlattenSeq(W(ls)) \in Text
  BY <1>1, FlattenType DEF Text
<1> QED BY <1>2, <1>3, <1>5, <1>6

\* No line says nothing.
LEMMA SaidEmpty == Said(<<>>) = <<>>
<1>1. [k \in DOMAIN <<>> |-> Word(<<>>[k])] = <<>>
  OBVIOUS
<1> QED BY <1>1, FlattenEmpty DEF Said, Word

\* One line more.
LEMMA SaidNext ==
    ASSUME TypeOK, read < Len(lines)
    PROVE  Said(SubSeq(lines, 1, read + 1)) = Said(SubSeq(lines, 1, read)) \o Word(lines[read + 1])
<1>1. lines \in Seq(LineType) /\ read \in 0..Len(lines)
  BY DEF TypeOK
<1>2. SubSeq(lines, 1, read) \in Seq(LineType) /\ lines[read + 1] \in LineType
  <2>1. \A i \in 1..read : lines[i] \in LineType
    BY <1>1
  <2> QED BY <1>1, <2>1, SubSeqProperties
<1>3. SubSeq(lines, 1, read + 1) = Append(SubSeq(lines, 1, read), lines[read + 1])
  BY <1>1
<1> QED BY <1>2, <1>3, SaidAppend

\* What the API may send next.
LEMMA NewLine ==
    ASSUME NEW l \in Lines
    PROVE  \/ l.kind \in {"noise", "text", "bad", "done"}
           \/ \E i \in Indexes \ Heads : l = Line("head", i)
           \/ \E i \in Heads \ Tails : l = Line("tail", i)
  BY DEF Lines, Line

\* The API keeps the order of the deltas (which the model gives it).
LEMMA OrderedStep == TypeOK /\ Ordered /\ [Next]_vars => Ordered'
<1> SUFFICES ASSUME TypeOK, Ordered, [Next]_vars PROVE Ordered'
  OBVIOUS
<1>1. CASE lines' = <<>>
  BY <1>1 DEF Ordered
<1>2. CASE UNCHANGED <<lines, provider>>
  BY <1>2 DEF Ordered, CameIn
<1>3. CASE Send
  <2>1. PICK l \in Lines : lines' = Append(lines, l)
    BY <1>3 DEF Send
  <2> DEFINE n == Len(lines)
  <2>2. n \in Nat /\ DOMAIN lines = 1..n /\ DOMAIN lines' = 1..n + 1
    BY <2>1 DEF TypeOK
  <2>3. lines'[n + 1] = l /\ \A k \in 1..n : lines'[k] = lines[k]
    BY <2>1 DEF TypeOK
  <2>4. \A k \in 1..n : lines[k] = l => l.kind \notin {"head", "tail"}
    <3>1. \A i \in Indexes \ Heads : \A k \in 1..n : lines[k] # Line("head", i)
      BY <2>2 DEF Heads
    <3>2. \A i \in Indexes \ Tails : \A k \in 1..n : lines[k] # Line("tail", i)
      BY <2>2 DEF Tails
    <3>3. Heads \subseteq Indexes
      BY DEF Heads
    <3> HIDE DEF n
    <3> QED BY <3>1, <3>2, <3>3, NewLine
  <2>5. \A i \in Indexes : l = Line("tail", i) => \E k \in 1..n : lines[k] = Line("head", i)
    <3> SUFFICES ASSUME NEW i \in Indexes, l = Line("tail", i)
                 PROVE  \E k \in 1..n : lines[k] = Line("head", i)
      OBVIOUS
    <3>1. i \in Heads
      BY NewLine DEF Line
    <3> QED BY <2>2, <3>1 DEF Heads
  <2>6. provider # "openai" => l.kind # "done"
    BY DEF Lines, Line
  <2> HIDE DEF n
  <2>7. \A j, k \in 1..n + 1 :
           lines'[j] = lines'[k] /\ lines'[j].kind \in {"head", "tail"} => j = k
    <3> SUFFICES ASSUME NEW j \in 1..n + 1, NEW k \in 1..n + 1,
                        lines'[j] = lines'[k], lines'[j].kind \in {"head", "tail"}, j # k
                 PROVE  FALSE
      OBVIOUS
    <3>1. CASE j \in 1..n /\ k \in 1..n
      BY <2>2, <2>3, <3>1 DEF Ordered
    <3>2. CASE j = n + 1 /\ k \in 1..n
      BY <2>3, <2>4, <3>2
    <3>3. CASE k = n + 1 /\ j \in 1..n
      BY <2>3, <2>4, <3>3
    <3> QED BY <2>2, <3>1, <3>2, <3>3
  <2>8. ASSUME NEW k \in 1..n + 1, NEW i \in Indexes, lines'[k] = Line("tail", i)
        PROVE  \E j \in 1..k - 1 : lines'[j] = Line("head", i)
    <3>1. CASE k \in 1..n
      <4>1. PICK j \in 1..k - 1 : lines[j] = Line("head", i)
        BY <2>2, <2>3, <2>8, <3>1 DEF Ordered, CameIn
      <4>2. j \in 1..n
        BY <2>2, <3>1
      <4> QED BY <2>3, <4>1, <4>2
    <3>2. CASE k = n + 1
      BY <2>2, <2>3, <2>5, <2>8, <3>2
    <3> QED BY <2>2, <3>1, <3>2
  <2>9. provider' # "openai" => \A k \in 1..n + 1 : lines'[k].kind # "done"
    <3>1. provider' = provider
      BY <1>3 DEF Send, server
    <3> QED BY <2>2, <2>3, <2>6, <3>1 DEF Ordered
  <2> QED BY <2>2, <2>7, <2>8, <2>9 DEF Ordered, CameIn
<1>4. lines' = <<>> \/ UNCHANGED <<lines, provider>> \/ Send
  BY DEF Next, Handler, Environment, vars, Receive, Reject, Unconfigured, Accept, Call, ContextEnded,
         ScanSkips, ScanText, ScanTool, ScanBad, Broken, UnparsedInput, Finish, RequestTools,
         RunTools, LoopFails, Refused, Abort, Timeout, Answered, HangUp, ClientGone, server, upstream
<1> QED BY <1>1, <1>2, <1>3, <1>4

\* At the start of an answer nothing is collected.
LEMMA NothingCollected ==
    ASSUME read' = 0, content' = <<>>, calls' = <<>>, lines' = <<>>
    PROVE  Collected'
<1>1. DOMAIN calls' = {}
  OBVIOUS
<1>2. SubSeq(lines', 1, read') = <<>>
  OBVIOUS
<1>3. {i \in Indexes : CameIn("head", i, read)'} = {}
  BY DEF CameIn
<1>4. content' = Said(SubSeq(lines', 1, read'))
  BY <1>2, SaidEmpty
<1> QED BY <1>1, <1>3, <1>4 DEF Collected

\* What has come once one more line is read.
LEMMA ReadOne ==
    ASSUME TypeOK, Collected, read < Len(lines), read' = read + 1, lines' = lines
    PROVE  \A kind, i : CameIn(kind, i, read)' <=> CameIn(kind, i, read) \/ lines[read + 1] = Line(kind, i)
<1>1. read \in Nat
  BY DEF TypeOK
<1>2. \A k : k \in 1..read + 1 <=> k \in 1..read \/ k = read + 1
  BY <1>1
<1> QED BY <1>2 DEF CameIn

\* A sequence of two elements.
LEMMA AppendTwo ==
    ASSUME NEW a, NEW b
    PROVE  Append(<<a>>, b) = <<a, b>>
<1> DEFINE S == {a, b}
           s == Append(<<a>>, b)
<1>1. s \in Seq(S) /\ Len(s) = 2 /\ s[1] = a /\ s[2] = b
  <2>1. <<a>> \in Seq(S) /\ Len(<<a>>) = 1 /\ b \in S
    OBVIOUS
  <2> HIDE DEF S
  <2> QED BY <2>1, AppendProperties
<1>2. <<a, b>> \in Seq(S) /\ Len(<<a, b>>) = 2 /\ <<a, b>>[1] = a /\ <<a, b>>[2] = b
  OBVIOUS
<1> HIDE DEF s, S
<1>3. \A i \in 1..2 : s[i] = <<a, b>>[i]
  BY <1>1, <1>2
<1>4. s = <<a, b>>
  BY <1>1, <1>2, <1>3, SeqEqual
<1> QED BY <1>4 DEF s

\* The providers collect what they read: each delta goes to the call with its
\* index, each text to the end of the content.
LEMMA CollectedStep == TypeOK /\ Ordered /\ Collected /\ [Next]_vars => Collected'
<1> SUFFICES ASSUME TypeOK, Ordered, Collected, [Next]_vars PROVE Collected'
  OBVIOUS
<1>1. CASE read' = 0 /\ content' = <<>> /\ calls' = <<>> /\ lines' = <<>>
  BY <1>1, NothingCollected
<1>2. CASE UNCHANGED <<lines, read, content, calls>>
  BY <1>2 DEF Collected, CameIn
<1>3. CASE Send
  <2>1. PICK l \in LineType : lines' = Append(lines, l)
    BY <1>3, LinesType DEF Send
  <2>2. /\ \A k \in 1..read : lines'[k] = lines[k]
        /\ SubSeq(lines', 1, read) = SubSeq(lines, 1, read)
    BY <2>1 DEF TypeOK
  <2>3. UNCHANGED <<read, content, calls>>
    BY <1>3 DEF Send, answer
  <2>4. \A kind, i : CameIn(kind, i, read)' <=> CameIn(kind, i, read)
    BY <2>2, <2>3 DEF CameIn
  <2> QED BY <2>2, <2>3, <2>4 DEF Collected
<1>4. CASE ScanSkips \/ ScanText
  <2>1. read < Len(lines) /\ read' = read + 1 /\ UNCHANGED <<lines, calls>>
    BY <1>4 DEF ScanSkips, ScanText, Readable, Scanned, upstream
  <2>2. lines[read + 1].kind \in {"noise", "text"}
    BY <1>4 DEF ScanSkips, ScanText, Current
  <2>3. \A kind \in {"head", "tail"} : \A i : CameIn(kind, i, read)' <=> CameIn(kind, i, read)
    <3>1. \A kind \in {"head", "tail"} : \A i : lines[read + 1] # Line(kind, i)
      BY <2>2 DEF Line
    <3> QED BY <2>1, <3>1, ReadOne
  <2>4. content' = content \o Word(lines[read + 1])
    <3>1. content \in Text
      BY DEF TypeOK
    <3>2. CASE ScanSkips
      <4>1. Word(lines[read + 1]) = <<>> /\ content' = content
        BY <3>2 DEF ScanSkips, Current, Word
      <4> QED BY <3>1, <4>1 DEF Text
    <3>3. CASE ScanText
      <4>1. Word(lines[read + 1]) = <<lines[read + 1].x>> /\ content' = Append(content, lines[read + 1].x)
        BY <3>3 DEF ScanText, Current, Word
      <4>2. lines[read + 1].x \in Part
        <5>1. lines[read + 1] \in LineType
          BY <2>1 DEF TypeOK
        <5>2. lines[read + 1].x \in {"w", Space}
          BY <3>3, <5>1, LineShape DEF ScanText, Current
        <5> QED BY <5>2 DEF Part
      <4> QED BY <3>1, <4>1, <4>2, AppendIsConcat DEF Text
    <3> QED BY <1>4, <3>2, <3>3
  <2>5. content' = Said(SubSeq(lines', 1, read'))
    BY <2>1, <2>4, SaidNext DEF Collected
  <2>6. \A k \in 1..read' : lines'[k].kind \notin {"done", "bad"}
    BY <2>1, <2>2 DEF Collected, TypeOK
  <2> QED BY <2>1, <2>3, <2>5, <2>6 DEF Collected
<1>5. CASE ScanTool
  <2>1. read < Len(lines) /\ read' = read + 1 /\ UNCHANGED <<lines, content>>
    BY <1>5 DEF ScanTool, Readable, Scanned, upstream
  <2> DEFINE l == lines[read + 1]
             i == l.x
  <2>2. l \in LineType /\ l.kind \in {"head", "tail"} /\ calls' = ToolDelta(calls, l)
    BY <1>5, <2>1 DEF ScanTool, Current, TypeOK
  <2>3. i \in Indexes /\ l = Line(l.kind, i)
    BY <2>2, LineShape
  <2>4. \A kind, j : CameIn(kind, j, read)' <=> CameIn(kind, j, read) \/ l = Line(kind, j)
    BY <2>1, ReadOne
  <2>5. content' = Said(SubSeq(lines', 1, read'))
    <3>1. Word(l) = <<>>
      BY <2>2 DEF Word
    <3>2. Said(SubSeq(lines, 1, read)) \in Text
      BY DEF Collected, TypeOK
    <3>3. Said(SubSeq(lines, 1, read)) \o <<>> = Said(SubSeq(lines, 1, read))
      BY <3>2 DEF Text
    <3> QED BY <2>1, <3>1, <3>3, SaidNext DEF Collected
  <2>6. \A k \in 1..read' : lines'[k].kind \notin {"done", "bad"}
    BY <2>1, <2>2 DEF Collected, TypeOK
  <2>7. l.kind = "head" => i \notin DOMAIN calls /\ ~CameIn("tail", i, read)
    <3> SUFFICES ASSUME l.kind = "head" PROVE i \notin DOMAIN calls /\ ~CameIn("tail", i, read)
      OBVIOUS
    <3>1. \A k \in 1..read : k \in DOMAIN lines /\ read + 1 \in DOMAIN lines /\ k # read + 1
      BY <2>1 DEF TypeOK
    <3>2. ~CameIn("head", i, read)
      BY <2>2, <2>3, <3>1 DEF CameIn, Ordered
    <3>3. ~CameIn("tail", i, read)
      <4> SUFFICES ASSUME NEW k \in 1..read, lines[k] = Line("tail", i) PROVE FALSE
        BY DEF CameIn
      <4>1. CameIn("head", i, k - 1)
        BY <2>3, <3>1 DEF Ordered
      <4>2. \A j \in 1..k - 1 : j \in 1..read
        BY DEF TypeOK
      <4> QED BY <3>2, <4>1, <4>2 DEF CameIn
    <3> QED BY <3>2, <3>3 DEF Collected
  <2>8. l.kind = "tail" => i \in DOMAIN calls /\ ~CameIn("tail", i, read)
    <3> SUFFICES ASSUME l.kind = "tail" PROVE i \in DOMAIN calls /\ ~CameIn("tail", i, read)
      OBVIOUS
    <3>1. \A k \in 1..read : k \in DOMAIN lines /\ k # read + 1
      BY <2>1 DEF TypeOK
    <3>2. read + 1 \in DOMAIN lines /\ read + 1 - 1 = read
      BY <2>1 DEF TypeOK
    <3>3. ~CameIn("tail", i, read)
      BY <2>2, <2>3, <3>1, <3>2 DEF CameIn, Ordered
    <3>4. CameIn("head", i, read)
      <4>1. \A k \in DOMAIN lines : lines[k] = Line("tail", i) => CameIn("head", i, k - 1)
        BY <2>3 DEF Ordered
      <4>2. lines[read + 1] = Line("tail", i)
        BY <2>3
      <4> HIDE DEF l, i
      <4>3. ASSUME NEW k \in DOMAIN lines, k = read + 1
            PROVE  CameIn("head", i, read)
        <5>1. CameIn("head", i, k - 1)
          BY <4>1, <4>2, <4>3
        <5>2. k - 1 = read
          BY <4>3 DEF TypeOK
        <5> QED BY <5>1, <5>2
      <4> QED BY <3>2, <4>3
    <3> QED BY <2>3, <3>3, <3>4 DEF Collected
  <2> HIDE DEF l, i
  <2> DEFINE tc == [id   |-> IF l.kind = "head" THEN Id(i) ELSE Pending(calls, i).id,
                    args |-> Append(Pending(calls, i).args, l.kind)]
  <2>9. /\ DOMAIN calls' = DOMAIN calls \cup {i}
        /\ calls'[i] = tc
        /\ \A j \in DOMAIN calls \ {i} : calls'[j] = calls[j]
    BY <2>2 DEF ToolDelta, With, i
  <2>10. tc.id = Id(i) /\ tc.args = IF l.kind = "tail" THEN <<"head", "tail">> ELSE <<"head">>
    <3>1. CASE l.kind = "head"
      <4>1. Pending(calls, i) = [id |-> "", args |-> <<>>]
        BY <2>7, <3>1 DEF Pending
      <4>2. tc.id = Id(i) /\ tc.args = Append(<<>>, "head")
        <5>1. Pending(calls, i).args = <<>>
          <6>1. \A a, b : [id |-> a, args |-> b].args = b
            OBVIOUS
          <6> QED BY <4>1, <6>1, Zenon
        <5>2. tc.id = Id(i) /\ tc.args = Append(Pending(calls, i).args, l.kind)
          BY <3>1
        <5> QED BY <3>1, <5>1, <5>2
      <4>3. Append(<<>>, "head") = <<"head">>
        OBVIOUS
      <4> QED BY <3>1, <4>2, <4>3
    <3>2. CASE l.kind = "tail"
      <4>1. Pending(calls, i) = calls[i] /\ calls[i].id = Id(i) /\ calls[i].args = <<"head">>
        BY <2>8, <3>2 DEF Pending, Collected
      <4>2. tc.id = Id(i) /\ tc.args = Append(<<"head">>, "tail")
        BY <3>2, <4>1
      <4>3. Append(<<"head">>, "tail") = <<"head", "tail">>
        BY AppendTwo
      <4> QED BY <3>2, <4>2, <4>3
    <3> QED BY <2>2, <3>1, <3>2
  <2> HIDE DEF tc
  <2>11. DOMAIN calls' = {j \in Indexes : CameIn("head", j, read)'}
    <3>1. \A j \in Indexes : CameIn("head", j, read)' <=> j \in DOMAIN calls \/ (l.kind = "head" /\ j = i)
      <4>1. \A j : l = Line("head", j) <=> l.kind = "head" /\ j = i
        BY <2>3 DEF Line
      <4> QED BY <2>4, <4>1 DEF Collected
    <3>2. DOMAIN calls \subseteq Indexes
      BY DEF TypeOK
    <3> QED BY <2>2, <2>3, <2>8, <2>9, <3>1, <3>2
  <2>12. ASSUME NEW j \in DOMAIN calls'
         PROVE  /\ calls'[j].id = Id(j)
                /\ calls'[j].args = IF CameIn("tail", j, read)' THEN <<"head", "tail">> ELSE <<"head">>
    <3>1. l = Line("tail", j) <=> l.kind = "tail" /\ j = i
      BY <2>3 DEF Line
    <3>2. CASE j = i
      BY <2>2, <2>4, <2>7, <2>9, <2>10, <3>1, <3>2
    <3>3. CASE j # i
      <4>1. j \in DOMAIN calls \ {i} /\ calls'[j] = calls[j]
        BY <2>9, <3>3
      <4>2. CameIn("tail", j, read)' <=> CameIn("tail", j, read)
        BY <2>4, <3>1, <3>3
      <4> QED BY <4>1, <4>2 DEF Collected
    <3> QED BY <3>2, <3>3
  <2> QED BY <2>5, <2>6, <2>11, <2>12 DEF Collected
<1>6. \/ read' = 0 /\ content' = <<>> /\ calls' = <<>> /\ lines' = <<>>
      \/ UNCHANGED <<lines, read, content, calls>>
      \/ Send \/ ScanSkips \/ ScanText \/ ScanTool
  BY DEF Next, Handler, Environment, vars, Receive, Reject, Unconfigured, Accept, Call, ContextEnded,
         ScanBad, Broken, UnparsedInput, Finish, RequestTools, RunTools, LoopFails, Refused, Abort,
         Timeout, Answered, HangUp, ClientGone, upstream, answer
<1> QED BY <1>1, <1>2, <1>3, <1>4, <1>5, <1>6

---------------------------------------------------------------------------
(* What the client sees *)

\* A streamed answer so far: the role chunk and text chunks.
Begun(s) == s # <<>> /\ s[1] = RoleChunk /\ \A i \in 2..Len(s) : s[i].kind = "text"

\* What the client has been sent while the handler runs.
Shape ==
    /\ pc \in {"idle", "received"} => out = <<>>
    /\ pc \in {"call", "calling", "streaming", "tools"} =>
          /\ provider # "none"
          /\ IF Streaming THEN Begun(out) ELSE out = <<>>
    /\ pc = "tools" => tools

\* The frame kinds of the constructors.
LEMMA FrameKinds ==
    /\ RoleChunk.kind = "role" /\ StopChunk.kind = "stop" /\ ErrorFrame.kind = "error"
    /\ DoneFrame.kind = "DONE"
    /\ \A t : TextChunk(t).kind = "text" /\ Body(t).kind = "200"
    /\ \A s : writeError(s).kind = s
  BY DEF RoleChunk, StopChunk, ErrorFrame, DoneFrame, TextChunk, Body, writeError

\* A stream that has only begun is in order.
LEMMA BegunInOrder ==
    ASSUME out' \in Seq(FrameType), Begun(out'), req'.stream
    PROVE  FramesInOrder'
<1> SUFFICES ASSUME NEW i \in DOMAIN out'
             PROVE (CASE KindAt(i) = "role" -> i = 1 /\ req.stream
          [] KindAt(i) = "text" -> i > 1 /\ KindAt(i - 1) \in {"role", "text"}
          [] KindAt(i) = "stop" -> i > 1 /\ KindAt(i - 1) \in {"role", "text"}
          [] KindAt(i) = "error" -> IF i = 1 THEN tools ELSE KindAt(i - 1) \in {"role", "text"}
          [] KindAt(i) = "DONE" -> i = Len(out) /\ i > 1 /\ KindAt(i - 1) \in {"stop", "error"}
          [] OTHER -> Len(out) = 1)'
  BY DEF FramesInOrder
<1>1. i = 1 \/ i \in 2..Len(out')
  OBVIOUS
<1>2. CASE i = 1
  BY <1>2, FrameKinds DEF Begun, KindAt
<1>3. CASE i \in 2..Len(out')
  <2>1. KindAt(i)' = "text" /\ i > 1
    BY <1>3 DEF Begun, KindAt
  <2>2. i - 1 = 1 \/ i - 1 \in 2..Len(out')
    BY <1>3
  <2>3. KindAt(i - 1)' \in {"role", "text"}
    BY <2>2, FrameKinds DEF Begun, KindAt
  <2> QED BY <2>1, <2>3
<1> QED BY <1>1, <1>2, <1>3

\* It stays so when it is ended by a stop chunk or an error, and [DONE].
LEMMA BegunEnded ==
    ASSUME NEW s \in Seq(FrameType), Begun(s), NEW e \in {StopChunk, ErrorFrame},
           out' = s \o <<e, DoneFrame>>, req'.stream
    PROVE  FramesInOrder' /\ Last(out').kind = "DONE"
<1> DEFINE n == Len(s)
<1>1. n \in Nat /\ n > 0 /\ e \in FrameType /\ DoneFrame \in FrameType /\ <<e, DoneFrame>> \in Seq(FrameType)
  BY FrameTypes DEF Begun
<1>2. /\ Len(out') = n + 2 /\ DOMAIN out' = 1..n + 2
      /\ \A i \in 1..n : out'[i] = s[i]
      /\ out'[n + 1] = e /\ out'[n + 2] = DoneFrame
  BY <1>1
<1>3. s[1].kind = "role" /\ \A i \in 2..n : s[i].kind = "text"
  BY FrameKinds DEF Begun
<1>4. e.kind \in {"stop", "error"} /\ DoneFrame.kind = "DONE"
  BY FrameKinds
<1> HIDE DEF n
<1>5. Last(out').kind = "DONE"
  BY <1>2, <1>4 DEF Last
<1>6. /\ KindAt(1)' = "role" /\ (\A i \in 2..n : KindAt(i)' = "text")
      /\ KindAt(n + 1)' \in {"stop", "error"} /\ KindAt(n + 2)' = "DONE"
  BY <1>1, <1>2, <1>3, <1>4 DEF KindAt
<1>7. FramesInOrder'
  <2> SUFFICES ASSUME NEW i \in 1..n + 2
             PROVE (CASE KindAt(i) = "role" -> i = 1 /\ req.stream
          [] KindAt(i) = "text" -> i > 1 /\ KindAt(i - 1) \in {"role", "text"}
          [] KindAt(i) = "stop" -> i > 1 /\ KindAt(i - 1) \in {"role", "text"}
          [] KindAt(i) = "error" -> IF i = 1 THEN tools ELSE KindAt(i - 1) \in {"role", "text"}
          [] KindAt(i) = "DONE" -> i = Len(out) /\ i > 1 /\ KindAt(i - 1) \in {"stop", "error"}
          [] OTHER -> Len(out) = 1)'
    BY <1>2 DEF FramesInOrder
  <2>1. CASE i = 1
    BY <1>6, <2>1
  <2>2. CASE i \in 2..n + 1
    <3>1. KindAt(i)' \in {"text", "stop", "error"} /\ i > 1
      <4>1. i \in 2..n \/ i = n + 1
        BY <1>1, <2>2
      <4> QED BY <1>1, <1>6, <2>2, <4>1
    <3>2. KindAt(i - 1)' \in {"role", "text"}
      <4>1. i - 1 = 1 \/ i - 1 \in 2..n
        BY <1>1, <2>2
      <4> QED BY <1>6, <4>1
    <3> QED BY <3>1, <3>2
  <2>3. CASE i = n + 2
    <3>1. i - 1 = n + 1 /\ i > 1 /\ i = Len(out')
      BY <1>1, <1>2, <2>3
    <3> QED BY <1>6, <2>3, <3>1
  <2> QED BY <1>1, <2>1, <2>2, <2>3
<1> QED BY <1>5, <1>7

\* So is the error of a failed tool loop.
LEMMA ErrorAlone ==
    ASSUME out' = StreamError, tools'
    PROVE  FramesInOrder' /\ Last(out').kind = "DONE"
<1>1. out' = <<ErrorFrame, DoneFrame>>
  BY DEF StreamError
<1>2. DOMAIN out' = 1..2 /\ Len(out') = 2 /\ out'[1] = ErrorFrame /\ out'[2] = DoneFrame
  BY <1>1
<1>3. KindAt(1)' = "error" /\ KindAt(2)' = "DONE"
  BY <1>2, FrameKinds DEF KindAt
<1>4. Last(out').kind = "DONE"
  BY <1>2, FrameKinds DEF Last
<1>5. FramesInOrder'
  <2> SUFFICES ASSUME NEW i \in 1..2
             PROVE (CASE KindAt(i) = "role" -> i = 1 /\ req.stream
          [] KindAt(i) = "text" -> i > 1 /\ KindAt(i - 1) \in {"role", "text"}
          [] KindAt(i) = "stop" -> i > 1 /\ KindAt(i - 1) \in {"role", "text"}
          [] KindAt(i) = "error" -> IF i = 1 THEN tools ELSE KindAt(i - 1) \in {"role", "text"}
          [] KindAt(i) = "DONE" -> i = Len(out) /\ i > 1 /\ KindAt(i - 1) \in {"stop", "error"}
          [] OTHER -> Len(out) = 1)'
    BY <1>2 DEF FramesInOrder
  <2>1. i = 1 \/ (i = 2 /\ i - 1 = 1)
    OBVIOUS
  <2> QED BY <1>2, <1>3, <2>1
<1> QED BY <1>4, <1>5

\* And an answer that is one JSON body.
LEMMA BodyAlone ==
    ASSUME NEW f, out' = <<f>>, f.kind \in {"200", "400", "413", "502"}
    PROVE  FramesInOrder' /\ KindAt(1)' = f.kind /\ 1 \in DOMAIN out'
<1>1. DOMAIN out' = {1} /\ Len(out') = 1 /\ KindAt(1)' = f.kind
  BY DEF KindAt
<1> QED BY <1>1 DEF FramesInOrder

\* While the handler runs, what the client has is the beginning of a stream.
LEMMA RunningInOrder == TypeOK' /\ Shape' /\ pc' # "returned" => StreamWellFormed'
<1> SUFFICES ASSUME TypeOK', Shape', pc' # "returned" PROVE StreamWellFormed'
  OBVIOUS
<1>1. MarkedEnd'
  BY DEF MarkedEnd
<1>2. CASE out' = <<>>
  BY <1>1, <1>2 DEF StreamWellFormed, FramesInOrder
<1>3. CASE out' # <<>>
  <2>1. Begun(out') /\ req'.stream /\ out' \in Seq(FrameType)
    BY <1>3 DEF Shape, TypeOK, PCs, Streaming
  <2> QED BY <1>1, <2>1, BegunInOrder DEF StreamWellFormed
<1> QED BY <1>2, <1>3

\* What an action that returns leaves alone, and what it says of the stream flag.
LEMMA Returned ==
    ASSUME TypeOK, NEW frames, Return(frames), UNCHANGED <<server, ctx, upstream, answer>>
    PROVE  /\ pc' = "returned" /\ out' = out \o frames /\ req'.stream = req.stream
           /\ UNCHANGED <<provider, tools, ctx, lines, link, read, calls>>
           /\ Shape'
  BY DEF TypeOK, RequestType, Return, server, upstream, answer, Shape

\* An error is told as the caller reports errors, and a stream that has begun goes
\* on with an error event or, without one, stops where it is.
LEMMA FailsWellFormed ==
    ASSUME TypeOK, Shape, pc \in {"call", "calling", "streaming", "tools"},
           NEW event \in BOOLEAN, Fails(event), UNCHANGED <<server, ctx, upstream, answer>>,
           event \/ ~Streaming \/ (provider = "openai" /\ ctx # "live" /\ read < Len(lines))
                 \/ (provider = "anthropic" /\ link = "eof" /\ \E i \in Heads : i \notin Tails)
    PROVE  Shape' /\ StreamWellFormed'
<1>1. PICK frames \in {<<>>, StreamError, <<writeError("502")>>} :
              /\ Return(frames)
              /\ Streaming => frames = IF event THEN StreamError ELSE <<>>
              /\ ~Streaming => frames = IF req.stream THEN StreamError ELSE <<writeError("502")>>
  BY FailureFrames
<1>2. /\ pc' = "returned" /\ out' = out \o frames /\ req'.stream = req.stream
      /\ UNCHANGED <<provider, tools, ctx, lines, link, read, calls>>
      /\ Shape'
  BY <1>1, Returned
<1>3. out \in Seq(FrameType) /\ req.stream \in BOOLEAN /\ tools \in BOOLEAN
  BY DEF TypeOK, RequestType
<1>4. CASE Streaming /\ event
  <2>1. Begun(out) /\ req'.stream
    BY <1>2, <1>4 DEF Shape, Streaming
  <2>2. out' = out \o <<ErrorFrame, DoneFrame>>
    BY <1>1, <1>2, <1>4 DEF StreamError
  <2>3. FramesInOrder' /\ Last(out').kind = "DONE"
    BY <1>3, <2>1, <2>2, BegunEnded
  <2> QED BY <1>2, <2>3 DEF StreamWellFormed, MarkedEnd
<1>5. CASE Streaming /\ ~event
  <2>1. Begun(out) /\ req'.stream /\ ~tools
    BY <1>2, <1>5 DEF Shape, Streaming
  <2>2. out' = out
    BY <1>1, <1>2, <1>3, <1>5
  <2>3. FramesInOrder'
    BY <1>3, <2>1, <2>2, BegunInOrder
  <2>4. MarkedEnd'
    <3>1. CASE provider = "openai" /\ ctx # "live" /\ read < Len(lines)
      BY <1>2, <2>1, <3>1 DEF MarkedEnd
    <3>2. CASE provider = "anthropic" /\ link = "eof" /\ \E i \in Heads : i \notin Tails
      <4>1. Heads' = Heads /\ Tails' = Tails
        BY <1>2 DEF Heads, Tails
      <4> QED BY <1>2, <2>1, <3>2, <4>1 DEF MarkedEnd
    <3> QED BY <1>5, <3>1, <3>2
  <2> QED BY <1>2, <2>3, <2>4 DEF StreamWellFormed
<1>6. CASE ~Streaming /\ req.stream
  <2>1. tools' /\ out = <<>>
    BY <1>2, <1>3, <1>6 DEF Shape, Streaming
  <2>2. StreamError \in Seq(FrameType)
    BY ErrorTypes
  <2>3. out' = StreamError
    BY <1>1, <1>2, <1>6, <2>1, <2>2
  <2>4. FramesInOrder' /\ Last(out').kind = "DONE"
    BY <2>1, <2>3, ErrorAlone
  <2> QED BY <1>2, <2>4 DEF StreamWellFormed, MarkedEnd
<1>7. CASE ~Streaming /\ ~req.stream
  <2>1. out = <<>>
    BY <1>7 DEF Shape
  <2>2. <<writeError("502")>> \in Seq(FrameType)
    BY ErrorTypes
  <2>3. out' = <<writeError("502")>>
    BY <1>1, <1>2, <1>7, <2>1, <2>2
  <2>4. FramesInOrder'
    BY <2>3, FrameKinds, BodyAlone
  <2> QED BY <1>2, <1>7, <2>4 DEF StreamWellFormed, MarkedEnd
<1> QED BY <1>3, <1>4, <1>5, <1>6, <1>7

\* A finished answer that is streamed in words is a stream from its beginning to
\* its end.
LEMMA ResponseWellFormed ==
    ASSUME NEW t \in Text, out' = StreamResponse(t), req'.stream
    PROVE  FramesInOrder' /\ Last(out').kind = "DONE"
<1>1. PICK tokens \in Seq(Text) :
              /\ StreamResponse(t) = <<RoleChunk>> \o [i \in DOMAIN tokens |-> TextChunk(tokens[i])]
                                     \o <<StopChunk, DoneFrame>>
              /\ [i \in DOMAIN tokens |-> TextChunk(tokens[i])] \in Seq(FrameType)
              /\ Len([i \in DOMAIN tokens |-> TextChunk(tokens[i])]) = Len(tokens)
  BY ResponseFrames
<1> DEFINE M == [i \in DOMAIN tokens |-> TextChunk(tokens[i])]
           s == <<RoleChunk>> \o M
<1>2. \A i \in DOMAIN tokens : M[i].kind = "text"
  BY FrameKinds
<1>3. DOMAIN tokens = 1..Len(tokens) /\ Len(tokens) \in Nat
  OBVIOUS
<1> HIDE DEF M
<1>4. M \in Seq(FrameType) /\ Len(M) = Len(tokens) /\ <<RoleChunk>> \in Seq(FrameType)
  BY <1>1, FrameTypes DEF M
<1>5. s \in Seq(FrameType) /\ Len(s) = Len(tokens) + 1 /\ s[1] = RoleChunk
      /\ \A i \in 2..Len(s) : s[i] = M[i - 1]
  BY <1>3, <1>4
<1>6. Begun(s)
  <2> HIDE DEF s
  <2>1. s # <<>>
    BY <1>3, <1>5
  <2>2. ASSUME NEW i \in 2..Len(s) PROVE s[i].kind = "text"
    <3>1. s[i] = M[i - 1] /\ i - 1 \in DOMAIN tokens
      BY <1>3, <1>5
    <3> QED BY <1>2, <3>1
  <2> QED BY <1>5, <2>1, <2>2 DEF Begun
<1>7. out' = s \o <<StopChunk, DoneFrame>>
  BY <1>1 DEF M
<1> HIDE DEF s
<1> QED BY <1>5, <1>6, <1>7, BegunEnded

\* Every step keeps the frames in order and marks the end of a stream.
LEMMA StreamStep ==
    TypeOK /\ TypeOK' /\ Ordered /\ Collected /\ Shape /\ StreamWellFormed /\ [Next]_vars
        => Shape' /\ StreamWellFormed'
<1> SUFFICES ASSUME TypeOK, TypeOK', Ordered, Collected, Shape, StreamWellFormed, [Next]_vars
             PROVE  Shape' /\ StreamWellFormed'
  OBVIOUS
<1>1. CASE Receive
  <2>1. Shape' /\ pc' # "returned"
    BY <1>1 DEF Receive, Shape
  <2> QED BY <2>1, RunningInOrder
<1>2. CASE Reject
  <2>1. PICK s \in {"400", "413"} : Return(<<writeError(s)>>)
    BY <1>2 DEF Reject
  <2>2. out = <<>> /\ <<writeError(s)>> \in Seq(FrameType)
    BY <1>2, ErrorTypes DEF Reject, Shape
  <2>3. Shape' /\ out' = <<writeError(s)>>
    BY <1>2, <2>1, <2>2, Returned DEF Reject
  <2>4. FramesInOrder' /\ 1 \in DOMAIN out' /\ KindAt(1)' \in {"400", "413"}
    BY <2>3, FrameKinds, BodyAlone
  <2> QED BY <2>3, <2>4 DEF StreamWellFormed, MarkedEnd
<1>3. CASE Unconfigured
  <2> DEFINE text == <<"w", Space, "w">>
  <2>1. text \in Text /\ Return(IF req.stream THEN StreamResponse(text) ELSE <<Body(text)>>)
    BY <1>3 DEF Text, Part, Unconfigured
  <2> HIDE DEF text
  <2>2. out = <<>> /\ StreamResponse(text) \in Seq(FrameType) /\ <<Body(text)>> \in Seq(FrameType)
    BY <1>3, <2>1, ResponseType, FrameTypes DEF Unconfigured, Accepted, Shape
  <2>3. /\ Shape' /\ pc' = "returned" /\ req'.stream = req.stream
        /\ out' = IF req.stream THEN StreamResponse(text) ELSE <<Body(text)>>
    BY <1>3, <2>1, <2>2, Returned DEF Unconfigured
  <2>4. CASE req.stream
    <3>1. FramesInOrder' /\ Last(out').kind = "DONE"
      BY <2>1, <2>3, <2>4, ResponseWellFormed
    <3> QED BY <2>3, <3>1 DEF StreamWellFormed, MarkedEnd
  <2>5. CASE ~req.stream
    <3>1. FramesInOrder'
      BY <2>3, <2>5, FrameKinds, BodyAlone
    <3> QED BY <2>3, <2>5, <3>1 DEF StreamWellFormed, MarkedEnd
  <2> QED BY <2>4, <2>5
<1>4. CASE Accept
  <2>1. Streaming' = Streaming
    BY <1>4 DEF Accept, Streaming, server
  <2>2. Begun(<<RoleChunk>>)
    BY DEF Begun
  <2>3. Shape' /\ pc' # "returned"
    BY <1>4, <2>1, <2>2 DEF Accept, Shape, server
  <2> QED BY <2>3, RunningInOrder
<1>5. CASE Refused \/ ScanBad \/ Broken \/ LoopFails
  BY <1>5, FailsWellFormed DEF Refused, ScanBad, Broken, LoopFails, Readable, Scanned
<1>6. CASE ContextEnded
  BY <1>6, FailsWellFormed DEF ContextEnded, Scanned
<1>7. CASE UnparsedInput
  <2>1. pc = "streaming" /\ provider = "anthropic"
    BY <1>7 DEF UnparsedInput, Ended
  <2>2. read = Len(lines) /\ link = "eof"
    <3>1. ASSUME Readable, Current.kind = "done" PROVE FALSE
      <4>1. read + 1 \in DOMAIN lines
        BY <3>1 DEF Readable, Scanned, TypeOK
      <4> QED BY <2>1, <3>1, <4>1 DEF Ordered, Current
    <3> QED BY <1>7, <3>1 DEF UnparsedInput, Ended
  <2>3. PICK i \in DOMAIN calls : ~Parsed(calls[i].args)
    BY <1>7 DEF UnparsedInput
  <2>4. i \in Indexes /\ CameIn("head", i, read) /\ ~CameIn("tail", i, read)
    BY <2>3 DEF Collected, Parsed
  <2>5. i \in Heads /\ i \notin Tails
    <3>1. DOMAIN lines = 1..read
      BY <2>2 DEF TypeOK
    <3> QED BY <2>4, <3>1 DEF CameIn, Heads, Tails
  <2> QED BY <1>7, <2>1, <2>2, <2>5, FailsWellFormed DEF UnparsedInput
<1>8. CASE Finish
  <2>1. pc = "streaming" /\ content \in Text /\ out \in Seq(FrameType) /\ req.stream \in BOOLEAN
        /\ tools \in BOOLEAN
    BY <1>8 DEF Finish, Complete, Ended, TypeOK, RequestType
  <2> DEFINE f == CASE Streaming -> <<StopChunk, DoneFrame>>
                    [] req.stream /\ tools -> StreamResponse(content)
                    [] OTHER -> <<Body(content)>>
  <2>2. Return(f) /\ UNCHANGED <<server, ctx, upstream, answer>>
    BY <1>8 DEF Finish
  <2>3. /\ Streaming => f = <<StopChunk, DoneFrame>>
        /\ req.stream /\ tools => f = StreamResponse(content)
        /\ ~req.stream => f = <<Body(content)>>
    BY <2>1 DEF Streaming
  <2> HIDE DEF f
  <2>4. CASE Streaming
    <3>1. Return(<<StopChunk, DoneFrame>>)
      BY <2>4, <2>2, <2>3
    <3>2. Shape' /\ pc' = "returned" /\ req'.stream /\ out' = out \o <<StopChunk, DoneFrame>>
      BY <2>4, <2>2, <3>1, Returned DEF Streaming
    <3>3. Begun(out)
      BY <2>1, <2>4 DEF Shape
    <3>4. FramesInOrder' /\ Last(out').kind = "DONE"
      BY <2>1, <3>2, <3>3, BegunEnded
    <3> QED BY <3>2, <3>4 DEF StreamWellFormed, MarkedEnd
  <2>5. CASE req.stream /\ tools
    <3>1. Return(StreamResponse(content))
      BY <2>5, <2>2, <2>3
    <3>2. out = <<>> /\ StreamResponse(content) \in Seq(FrameType)
      BY <2>1, <2>5, ResponseType DEF Shape, Streaming
    <3>3. Shape' /\ pc' = "returned" /\ req'.stream /\ out' = StreamResponse(content)
      <4>1. req'.stream = req.stream /\ Shape' /\ pc' = "returned" /\ out' = out \o StreamResponse(content)
        BY <2>2, <3>1, Returned
      <4> QED BY <2>5, <3>2, <4>1
    <3>4. FramesInOrder' /\ Last(out').kind = "DONE"
      BY <2>1, <3>3, ResponseWellFormed
    <3> QED BY <3>3, <3>4 DEF StreamWellFormed, MarkedEnd
  <2>6. CASE ~req.stream
    <3>1. Return(<<Body(content)>>)
      BY <2>6, <2>2, <2>3
    <3>2. out = <<>> /\ <<Body(content)>> \in Seq(FrameType)
      BY <2>1, <2>6, FrameTypes DEF Shape, Streaming
    <3>3. Shape' /\ pc' = "returned" /\ ~req'.stream /\ out' = <<Body(content)>>
      <4>1. req'.stream = req.stream /\ Shape' /\ pc' = "returned" /\ out' = out \o <<Body(content)>>
        BY <2>2, <3>1, Returned
      <4> QED BY <2>6, <3>2, <4>1
    <3>4. FramesInOrder'
      BY <3>3, FrameKinds, BodyAlone
    <3> QED BY <3>3, <3>4 DEF StreamWellFormed, MarkedEnd
  <2> QED BY <2>1, <2>4, <2>5, <2>6 DEF Streaming
<1>9. CASE ScanText
  <2>1. pc = "streaming" /\ pc' = pc /\ provider' = provider /\ Streaming' = Streaming /\ tools' = tools
    BY <1>9 DEF ScanText, Readable, Scanned, Streaming, server
  <2>2. IF Streaming THEN Begun(out) /\ out' = Append(out, TextChunk(<<Current.x>>))
        ELSE out = <<>> /\ out' = out
    BY <1>9, <2>1 DEF ScanText, Shape
  <2>3. Streaming => Begun(out')
    <3> SUFFICES ASSUME Streaming PROVE Begun(out')
      OBVIOUS
    <3> DEFINE c == TextChunk(<<Current.x>>)
               n == Len(out)
    <3>1. out' = Append(out, c) /\ c.kind = "text" /\ Begun(out) /\ out \in Seq(FrameType)
      BY <2>2, FrameKinds DEF TypeOK
    <3> HIDE DEF c
    <3>2. n \in Nat /\ n > 0 /\ Len(out') = n + 1 /\ out'[n + 1] = c
          /\ \A i \in 1..n : out'[i] = out[i]
      BY <3>1 DEF Begun
    <3> HIDE DEF n
    <3>3. \A i \in 2..n : out[i].kind = "text"
      BY <3>1 DEF Begun, n
    <3>4. \A i \in 2..n + 1 : out'[i].kind = "text"
      BY <3>1, <3>2, <3>3
    <3> QED BY <3>1, <3>2, <3>4 DEF Begun
  <2>4. Shape' /\ pc' # "returned"
    BY <2>1, <2>2, <2>3 DEF Shape
  <2> QED BY <2>4, RunningInOrder
<1>10. CASE Call \/ RunTools \/ ScanSkips \/ ScanTool \/ Send \/ HangUp \/ Abort \/ Timeout \/ ClientGone
  <2>1. /\ UNCHANGED <<provider, tools, req, out>>
        /\ pc' = pc \/ (pc \in {"call", "tools"} /\ pc' \in {"call", "calling"})
    BY <1>10 DEF Call, RunTools, ScanSkips, ScanTool, Send, HangUp, Abort, Timeout, ClientGone,
                 Readable, Scanned, server, TypeOK
  <2>2. Streaming' = Streaming
    BY <2>1 DEF Streaming
  <2>3. pc' # "returned"
    BY <1>10 DEF Call, RunTools, ScanSkips, ScanTool, Send, HangUp, Abort, Timeout, ClientGone,
                 Readable, Scanned
  <2>4. Shape'
    BY <2>1, <2>2, <2>3 DEF Shape
  <2> QED BY <2>3, <2>4, RunningInOrder
<1>11. CASE Answered \/ RequestTools
  <2>1. /\ UNCHANGED <<provider, tools, out>> /\ req'.stream = req.stream
        /\ pc \in {"calling", "streaming"} /\ pc' \in {"streaming", "tools"}
        /\ pc' = "tools" => tools
    BY <1>11 DEF Answered, RequestTools, Complete, Ended, server, TypeOK, RequestType
  <2>2. Streaming' = Streaming
    BY <2>1 DEF Streaming
  <2>3. Shape'
    BY <2>1, <2>2 DEF Shape
  <2> QED BY <2>1, <2>3, RunningInOrder
<1>12. CASE UNCHANGED vars
  <2>1. Heads' = Heads /\ Tails' = Tails
    BY <1>12 DEF vars, Heads, Tails
  <2> QED BY <1>12, <2>1 DEF vars, Shape, StreamWellFormed, FramesInOrder, MarkedEnd, KindAt, Streaming
<1> QED BY <1>1, <1>2, <1>3, <1>4, <1>5, <1>6, <1>7, <1>8, <1>9, <1>10, <1>11, <1>12
        DEF Next, Handler, Environment

---------------------------------------------------------------------------
(* The answer is the API's *)

\* The text some frames carry.
Carried(s) == FlattenSeq([i \in DOMAIN s |-> s[i].text])

\* Frames one after the other carry their texts one after the other.
LEMMA CarriedConcat ==
    ASSUME NEW a \in Seq(FrameType), NEW b \in Seq(FrameType)
    PROVE  Carried(a \o b) = Carried(a) \o Carried(b) /\ Carried(a) \in Text
<1> DEFINE g == [f \in FrameType |-> f.text]
<1>1. Maps(g, FrameType, Part)
  BY DEF Maps, FrameType, Text
<1>2. ASSUME NEW u \in Seq(FrameType) PROVE Carried(u) = FlatMap(g, u)
  <2>1. \A i \in DOMAIN u : u[i] \in FrameType
    OBVIOUS
  <2>2. [i \in DOMAIN u |-> u[i].text] = [i \in DOMAIN u |-> g[u[i]]]
    BY <2>1
  <2> QED BY <2>2 DEF Carried, FlatMap
<1>3. a \o b \in Seq(FrameType)
  OBVIOUS
<1> HIDE DEF g
<1>4. FlatMap(g, a \o b) = FlatMap(g, a) \o FlatMap(g, b) /\ FlatMap(g, a) \in Seq(Part)
  BY <1>1, FlatMapConcat
<1> QED BY <1>2, <1>3, <1>4 DEF Text

\* One frame carries its text.
LEMMA CarriedOne ==
    ASSUME NEW f \in FrameType
    PROVE  Carried(<<f>>) = f.text
<1>1. [i \in DOMAIN <<f>> |-> <<f>>[i].text] = <<f.text>>
  OBVIOUS
<1>2. f.text \in Seq(Part)
  BY DEF FrameType, Text
<1> QED BY <1>1, <1>2, FlattenSingle DEF Carried

\* The frames around a text carry none.
LEMMA CarriedEnd ==
    /\ Carried(<<RoleChunk>>) = <<>> /\ Carried(<<StopChunk, DoneFrame>>) = <<>>
    /\ \A t \in Text : Carried(<<TextChunk(t)>>) = t /\ Carried(<<Body(t)>>) = t
<1>1. RoleChunk.text = <<>> /\ StopChunk.text = <<>> /\ DoneFrame.text = <<>>
  BY DEF RoleChunk, StopChunk, DoneFrame
<1>2. \A t \in Text : TextChunk(t).text = t /\ Body(t).text = t
  BY DEF TextChunk, Body
<1>3. Carried(<<RoleChunk>>) = <<>> /\ Carried(<<StopChunk>>) = <<>> /\ Carried(<<DoneFrame>>) = <<>>
  BY <1>1, FrameTypes, CarriedOne
<1>4. Carried(<<StopChunk, DoneFrame>>) = <<>>
  <2>1. <<StopChunk, DoneFrame>> = <<StopChunk>> \o <<DoneFrame>>
    OBVIOUS
  <2>2. <<StopChunk>> \in Seq(FrameType) /\ <<DoneFrame>> \in Seq(FrameType)
    BY FrameTypes
  <2>3. Carried(<<StopChunk>> \o <<DoneFrame>>) = Carried(<<StopChunk>>) \o Carried(<<DoneFrame>>)
    BY <2>2, CarriedConcat
  <2>4. <<>> \o <<>> = <<>>
    OBVIOUS
  <2> QED BY <1>3, <2>1, <2>3, <2>4
<1> QED BY <1>2, <1>3, <1>4, FrameTypes, CarriedOne

\* StreamResponse carries the text it is given.
LEMMA CarriedResponse ==
    ASSUME NEW t \in Text
    PROVE  Carried(StreamResponse(t)) = t
<1>1. PICK tokens \in Seq(Text) :
              /\ StreamResponse(t) = <<RoleChunk>> \o [i \in DOMAIN tokens |-> TextChunk(tokens[i])]
                                     \o <<StopChunk, DoneFrame>>
              /\ [i \in DOMAIN tokens |-> TextChunk(tokens[i])] \in Seq(FrameType)
              /\ Len([i \in DOMAIN tokens |-> TextChunk(tokens[i])]) = Len(tokens)
              /\ FlattenSeq(tokens) = t
  BY ResponseFrames
<1> DEFINE M == [i \in DOMAIN tokens |-> TextChunk(tokens[i])]
<1>2. [i \in DOMAIN M |-> M[i].text] = tokens
  BY DEF TextChunk
<1>3. Carried(M) = t
  BY <1>1, <1>2 DEF Carried
<1> HIDE DEF M
<1>4. M \in Seq(FrameType) /\ StreamResponse(t) = <<RoleChunk>> \o M \o <<StopChunk, DoneFrame>>
  BY <1>1 DEF M
<1>5. <<RoleChunk>> \in Seq(FrameType) /\ <<StopChunk, DoneFrame>> \in Seq(FrameType)
  BY FrameTypes
<1>6. <<RoleChunk>> \o M \in Seq(FrameType)
  BY <1>4, <1>5
<1>7. Carried(<<RoleChunk>> \o M) = <<>> \o t
  BY <1>3, <1>4, <1>5, CarriedConcat, CarriedEnd
<1>8. Carried((<<RoleChunk>> \o M) \o <<StopChunk, DoneFrame>>) = (<<>> \o t) \o <<>>
  BY <1>5, <1>6, <1>7, CarriedConcat, CarriedEnd
<1>9. (<<>> \o t) \o <<>> = t
  BY DEF Text
<1> QED BY <1>4, <1>8, <1>9

\* While an answer is passed through, the client has all of it that was read.
Spoken ==
    /\ pc \in {"call", "calling"} /\ Streaming => out = <<RoleChunk>>
    /\ pc = "calling" => content = <<>>
    /\ pc = "streaming" /\ Streaming => Carried(out) = content

\* When the provider ends an answer it has read exactly what the API sent of it.
LEMMA AnswerRead ==
    ASSUME TypeOK, Collected, Ended
    PROVE  /\ Answer = SubSeq(lines, 1, read)
           /\ link = "eof" \/ Len(Answer) < Len(lines)
           /\ \A i \in DOMAIN Answer : Answer[i].kind # "bad"
<1> DEFINE done == {i \in DOMAIN lines : lines[i].kind = "done"}
<1>1. lines \in Seq(LineType) /\ read \in 0..Len(lines) /\ Len(lines) \in Nat
  BY DEF TypeOK
<1>2. \A k \in 1..read : lines[k].kind # "done" /\ lines[k].kind # "bad"
  BY DEF Collected
<1>3. CASE read = Len(lines) /\ link = "eof"
  <2>1. done = {}
    BY <1>1, <1>2, <1>3
  <2>2. Answer = lines
    BY <2>1 DEF Answer
  <2>3. SubSeq(lines, 1, Len(lines)) = lines
    BY <1>1
  <2> QED BY <1>1, <1>2, <1>3, <2>2, <2>3
<1>4. CASE Readable /\ Current.kind = "done"
  <2>1. read + 1 \in done
    BY <1>1, <1>4 DEF Readable, Scanned, Current
  <2>2. \A j \in done : read + 1 <= j
    BY <1>1, <1>2
  <2> DEFINE c == CHOOSE i \in done : \A j \in done : i <= j
  <2>3. done # {} /\ c \in done /\ \A j \in done : c <= j
    BY <2>1, <2>2
  <2>4. Answer = SubSeq(lines, 1, c - 1)
    BY <2>3 DEF Answer
  <2>5. done \subseteq Int
    BY <1>1
  <2> HIDE DEF c, done
  <2>6. c = read + 1
    BY <1>1, <2>1, <2>2, <2>3, <2>5
  <2>7. c - 1 = read
    BY <1>1, <2>6
  <2>8. Answer = SubSeq(lines, 1, read) /\ read < Len(lines)
    BY <1>4, <2>4, <2>7 DEF Readable, Scanned
  <2>9. Len(SubSeq(lines, 1, read)) = read /\ \A i \in 1..read : SubSeq(lines, 1, read)[i] = lines[i]
    BY <1>1
  <2> QED BY <1>1, <1>2, <2>8, <2>9
<1> QED BY <1>3, <1>4 DEF Ended

\* An error does not tell the client that its answer is complete.
LEMMA FailsNoSuccess ==
    ASSUME TypeOK, Shape, pc \in {"call", "calling", "streaming", "tools"},
           NEW event \in BOOLEAN, Fails(event), UNCHANGED <<server, ctx, upstream, answer>>
    PROVE  ~Succeeded'
<1>1. PICK frames \in {<<>>, StreamError, <<writeError("502")>>} : Return(frames)
  BY FailureFrames
<1>2. out' = out \o frames /\ out \in Seq(FrameType) /\ frames \in Seq(FrameType)
  BY <1>1, ErrorTypes DEF Return, TypeOK
<1>3. \A i \in DOMAIN out : out[i].kind \notin {"stop", "200"}
  <2>1. CASE out = <<>>
    BY <2>1
  <2>2. CASE Begun(out)
    <3>1. \A i \in DOMAIN out : i = 1 \/ i \in 2..Len(out)
      BY <1>2
    <3> QED BY <2>2, <3>1, FrameKinds DEF Begun
  <2> QED BY <2>1, <2>2 DEF Shape
<1>4. \A i \in DOMAIN frames : frames[i].kind \notin {"stop", "200"}
  <2>1. CASE frames = <<>>
    BY <2>1
  <2>2. CASE frames = StreamError
    <3>1. DOMAIN frames = {1, 2} /\ frames[1] = ErrorFrame /\ frames[2] = DoneFrame
      BY <2>2 DEF StreamError
    <3> QED BY <3>1, FrameKinds
  <2>3. CASE frames = <<writeError("502")>>
    <3>1. DOMAIN frames = {1} /\ frames[1] = writeError("502")
      BY <2>3
    <3> QED BY <3>1, FrameKinds
  <2> QED BY <1>1, <2>1, <2>2, <2>3
<1>5. \A i \in DOMAIN out' : out'[i].kind \notin {"stop", "200"}
  <2> SUFFICES ASSUME NEW i \in DOMAIN out' PROVE out'[i].kind \notin {"stop", "200"}
    OBVIOUS
  <2>1. \/ i \in DOMAIN out /\ out'[i] = out[i]
        \/ i - Len(out) \in DOMAIN frames /\ out'[i] = frames[i - Len(out)]
    BY <1>2
  <2> QED BY <1>3, <1>4, <2>1
<1> QED BY <1>5 DEF Succeeded, KindAt

\* Every step keeps the client at what was read.
LEMMA SpokenStep ==
    TypeOK /\ Shape /\ Spoken /\ [Next]_vars => Spoken'
<1> SUFFICES ASSUME TypeOK, Shape, Spoken, [Next]_vars PROVE Spoken'
  OBVIOUS
<1>1. CASE pc' \in {"received", "returned", "tools", "idle"}
  BY <1>1 DEF Spoken
<1>2. CASE Accept
  <2>1. Streaming' = Streaming
    BY <1>2 DEF Accept, Streaming, server
  <2> QED BY <1>2, <2>1 DEF Accept, Spoken
<1>3. CASE Call
  <2>1. Streaming' = Streaming
    BY <1>3 DEF Call, Streaming, server
  <2> QED BY <1>3, <2>1 DEF Call, Spoken
<1>4. CASE Answered
  <2>1. Streaming' = Streaming
    BY <1>4 DEF Answered, Streaming, server, TypeOK, RequestType
  <2> QED BY <1>4, <2>1, CarriedEnd DEF Answered, Spoken, answer
<1>5. CASE ScanText
  <2>1. Streaming' = Streaming /\ pc' = "streaming" /\ pc = "streaming"
    BY <1>5 DEF ScanText, Readable, Scanned, Streaming, server
  <2>2. ASSUME Streaming PROVE Carried(out') = content'
    <3> DEFINE x == <<Current.x>>
    <3>1. Current \in LineType /\ Current.kind = "text"
      BY <1>5 DEF ScanText, Readable, Scanned, Current, TypeOK
    <3>2. x \in Text
      <4>1. Current.x \in Part
        BY <3>1, LineShape DEF Part
      <4> QED BY <4>1 DEF Text
    <3>3. out' = out \o <<TextChunk(x)>>
      <4>1. TextChunk(x) \in FrameType
        BY <3>2, FrameTypes
      <4>2. out' = Append(out, TextChunk(x))
        BY <1>5, <2>2 DEF ScanText
      <4> QED BY <4>1, <4>2, AppendIsConcat DEF TypeOK
    <3>4. content' = content \o x
      <4>1. Current.x \in Part
        BY <3>1, LineShape DEF Part
      <4> QED BY <1>5, <4>1, AppendIsConcat DEF ScanText, TypeOK, Text
    <3> HIDE DEF x
    <3>5. <<TextChunk(x)>> \in Seq(FrameType)
      BY <3>2, FrameTypes
    <3>6. Carried(out') = Carried(out) \o x
      BY <3>2, <3>3, <3>5, CarriedConcat, CarriedEnd DEF TypeOK
    <3> QED BY <2>1, <2>2, <3>4, <3>6 DEF Spoken
  <2> QED BY <2>1, <2>2 DEF Spoken
<1>6. CASE RunTools
  <2>1. tools /\ tools' = tools
    BY <1>6 DEF RunTools, Shape, server
  <2> QED BY <1>6, <2>1 DEF RunTools, Spoken, Streaming
<1>7. CASE ScanSkips \/ ScanTool \/ Send \/ HangUp \/ Abort \/ Timeout \/ ClientGone \/ UNCHANGED vars
  <2>1. UNCHANGED <<pc, tools, req, out, content>>
    BY <1>7 DEF ScanSkips, ScanTool, Send, HangUp, Abort, Timeout, ClientGone, server, answer, vars
  <2> QED BY <2>1 DEF Spoken, Streaming
<1>8. \/ pc' \in {"received", "returned", "tools"}
      \/ Accept \/ Call \/ Answered \/ ScanText \/ RunTools
      \/ ScanSkips \/ ScanTool \/ Send \/ HangUp \/ Abort \/ Timeout \/ ClientGone \/ UNCHANGED vars
  BY DEF Next, Handler, Environment, Receive, Reject, Unconfigured, ContextEnded,
         ScanBad, Broken, UnparsedInput, Finish, RequestTools, LoopFails, Refused, Fails, Return
<1> QED BY <1>1, <1>2, <1>3, <1>4, <1>5, <1>6, <1>7, <1>8

\* The frames of a complete answer carry what was collected.
LEMMA FinishCarries ==
    ASSUME TypeOK, Shape, Spoken, Finish
    PROVE  Carried(out') = content
<1>1. pc = "streaming" /\ content \in Text /\ out \in Seq(FrameType) /\ req.stream \in BOOLEAN
      /\ tools \in BOOLEAN
  BY DEF Finish, Complete, Ended, TypeOK, RequestType
<1> DEFINE f == CASE Streaming -> <<StopChunk, DoneFrame>>
                  [] req.stream /\ tools -> StreamResponse(content)
                  [] OTHER -> <<Body(content)>>
<1>2. Return(f)
  BY DEF Finish
<1>3. /\ Streaming => f = <<StopChunk, DoneFrame>>
      /\ req.stream /\ tools => f = StreamResponse(content)
      /\ ~req.stream => f = <<Body(content)>>
  BY <1>1 DEF Streaming
<1> HIDE DEF f
<1>4. out' = out \o f
  BY <1>2 DEF Return
<1>5. CASE Streaming
  <2>1. <<StopChunk, DoneFrame>> \in Seq(FrameType)
    BY FrameTypes
  <2>2. Carried(out \o <<StopChunk, DoneFrame>>) = content \o <<>>
    BY <1>1, <1>5, <2>1, CarriedConcat, CarriedEnd DEF Spoken
  <2>3. content \o <<>> = content
    BY <1>1 DEF Text
  <2> QED BY <1>3, <1>4, <1>5, <2>2, <2>3
<1>6. CASE req.stream /\ tools
  <2>1. out = <<>> /\ StreamResponse(content) \in Seq(FrameType)
    BY <1>1, <1>6, ResponseType DEF Shape, Streaming
  <2>2. out' = StreamResponse(content)
    BY <1>3, <1>4, <1>6, <2>1
  <2> QED BY <1>1, <2>2, CarriedResponse
<1>7. CASE ~req.stream
  <2>1. out = <<>> /\ <<Body(content)>> \in Seq(FrameType)
    BY <1>1, <1>7, FrameTypes DEF Shape, Streaming
  <2>2. out' = <<Body(content)>>
    BY <1>3, <1>4, <1>7, <2>1
  <2> QED BY <1>1, <2>2, CarriedEnd
<1> QED BY <1>1, <1>5, <1>6, <1>7 DEF Streaming

\* An answer given as complete is the whole answer of the API.
LEMMA AnswerStep ==
    TypeOK /\ Collected /\ Shape /\ Spoken /\ AnswerIsTheModels /\ [Next]_vars => AnswerIsTheModels'
<1> SUFFICES ASSUME TypeOK, Collected, Shape, Spoken, AnswerIsTheModels, [Next]_vars
             PROVE  AnswerIsTheModels'
  OBVIOUS
<1>1. CASE pc' # "returned"
  BY <1>1 DEF AnswerIsTheModels, Succeeded
<1>2. CASE Finish
  <2>1. lines' = lines /\ link' = link
    BY <1>2 DEF Finish, upstream
  <2>2. Answer' = Answer
    BY <2>1 DEF Answer
  <2>3. /\ Answer = SubSeq(lines, 1, read)
        /\ link = "eof" \/ Len(Answer) < Len(lines)
        /\ \A i \in DOMAIN Answer : Answer[i].kind # "bad"
    BY <1>2, AnswerRead DEF Finish, Complete
  <2>4. Carried(out') = Said(Answer)
    BY <1>2, <2>3, FinishCarries DEF Collected
  <2>5. /\ Carried(out') = Said(Answer')
        /\ link' = "eof" \/ Len(Answer') < Len(lines')
        /\ \A i \in DOMAIN Answer' : Answer'[i].kind # "bad"
    BY <2>1, <2>2, <2>3, <2>4
  <2> QED BY <2>5 DEF AnswerIsTheModels, Carried
<1>3. CASE Refused \/ ScanBad \/ Broken \/ LoopFails \/ ContextEnded \/ UnparsedInput
  <2>1. ~Succeeded'
    BY <1>3, FailsNoSuccess DEF Refused, ScanBad, Broken, LoopFails, ContextEnded, UnparsedInput,
                                Readable, Scanned, Ended
  <2> QED BY <2>1 DEF AnswerIsTheModels
<1>4. CASE Reject
  <2>1. PICK s \in {"400", "413"} : Return(<<writeError(s)>>)
    BY <1>4 DEF Reject
  <2>2. out = <<>> /\ <<writeError(s)>> \in Seq(FrameType)
    BY <1>4, ErrorTypes DEF Reject, Shape
  <2>3. out' = <<writeError(s)>>
    BY <2>1, <2>2 DEF Return
  <2>4. DOMAIN out' = {1} /\ out'[1] = writeError(s)
    BY <2>3
  <2>5. ~Succeeded'
    BY <2>4, FrameKinds DEF Succeeded, KindAt
  <2> QED BY <2>5 DEF AnswerIsTheModels
<1>5. CASE Unconfigured
  BY <1>5 DEF Unconfigured, server, AnswerIsTheModels, Succeeded
<1>6. CASE UNCHANGED vars
  <2>1. Succeeded' = Succeeded /\ Answer' = Answer
    BY <1>6 DEF vars, Succeeded, KindAt, Answer
  <2> QED BY <1>6, <2>1 DEF vars, AnswerIsTheModels
<1>7. \/ pc' # "returned" \/ Finish \/ Reject \/ Unconfigured \/ UNCHANGED vars
      \/ Refused \/ ScanBad \/ Broken \/ LoopFails \/ ContextEnded \/ UnparsedInput
  BY DEF Next, Handler, Environment, Receive, Accept, Call, Answered, ScanSkips, ScanText, ScanTool,
         RequestTools, RunTools, Send, HangUp, Abort, Timeout, ClientGone, Readable, Scanned
<1> QED BY <1>1, <1>2, <1>3, <1>4, <1>5, <1>6, <1>7

---------------------------------------------------------------------------
(* The tool calls *)

\* The parts of CallsSurvive.
Came(kind, i) == \E k \in DOMAIN Answer : Answer[k] = Line(kind, i)
Opened == Cardinality({i \in Indexes : Came("head", i)})
Contiguous == \A i \in 0..Opened - 1 : Came("head", i)
Wanted == [k \in 1..Opened |-> [id   |-> Id(k - 1),
                                args |-> IF Came("tail", k - 1) THEN "parsed" ELSE "_raw"]]
CallsKept == Contiguous /\ pc = "tools" => Last(messages).calls = Wanted
NoneLeft == Contiguous /\ Succeeded /\ tools => Opened = 0

\* CallsSurvive is its parts.
LEMMA CallsSurviveParts == CallsSurvive <=> CallsKept /\ NoneLeft /\ ResultsFollow(body)
  BY DEF CallsSurvive, CallsKept, NoneLeft, Came, Opened, Contiguous, Wanted

\* What came in an answer that is over is what the provider read.
LEMMA CameRead ==
    ASSUME TypeOK, Collected, Ended
    PROVE  \A kind, i : Came(kind, i) <=> CameIn(kind, i, read)
<1>1. Answer = SubSeq(lines, 1, read) /\ lines \in Seq(LineType) /\ read \in 0..Len(lines)
  BY AnswerRead DEF TypeOK
<1>2. DOMAIN Answer = 1..read /\ \A i \in 1..read : Answer[i] = lines[i]
  BY <1>1
<1> QED BY <1>2 DEF Came, CameIn

\* There are finitely many tool calls.
LEMMA CallsCounted ==
    ASSUME TypeOK
    PROVE  Cardinality(DOMAIN calls) \in Nat
<1>1. Len(Ids) \in Nat
  BY BoundsAssumption
<1>2. IsFiniteSet(Indexes)
  BY <1>1, FS_Interval DEF Indexes
<1>3. IsFiniteSet(DOMAIN calls)
  BY <1>2, FS_Subset DEF TypeOK
<1> QED BY <1>3, FS_CardinalityType

\* The calls the provider hands to the loop have the type of calls.
LEMMA ToolCallsType ==
    ASSUME TypeOK
    PROVE  ToolCalls \in Seq(CallType)
<1> DEFINE n == Cardinality(DOMAIN calls)
           F(tc) == [id |-> tc.id, args |-> IF Parsed(tc.args) THEN "parsed" ELSE "_raw"]
           s == [k \in 1..n |-> IF k - 1 \in DOMAIN calls THEN <<F(calls[k - 1])>> ELSE <<>>]
<1>1. n \in Nat
  BY CallsCounted
<1>2. ToolCalls = FlattenSeq(s)
  BY DEF ToolCalls
<1>3. \A i \in DOMAIN calls : F(calls[i]) \in CallType
  BY DEF TypeOK, CallType
<1> HIDE DEF F, n
<1>4. s \in [1..n -> Seq(CallType)]
  BY <1>3
<1> HIDE DEF s
<1>5. s \in Seq(Seq(CallType))
  BY <1>1, <1>4, FcnIsSeq
<1> QED BY <1>2, <1>5, FlattenType

\* Numbered from 0, the calls the provider hands over are those that came, in
\* the order of their indexes and with their arguments.
LEMMA ToolCallsComplete ==
    ASSUME TypeOK, Collected, Ended, Contiguous
    PROVE  ToolCalls = Wanted /\ Opened \in Nat
<1> DEFINE n == Cardinality(DOMAIN calls)
           F(tc) == [id |-> tc.id, args |-> IF Parsed(tc.args) THEN "parsed" ELSE "_raw"]
           s == [k \in 1..n |-> IF k - 1 \in DOMAIN calls THEN <<F(calls[k - 1])>> ELSE <<>>]
           w == [k \in 1..n |-> F(calls[k - 1])]
<1>1. n \in Nat /\ Opened = n
  <2>1. DOMAIN calls = {i \in Indexes : Came("head", i)}
    BY CameRead DEF Collected
  <2> QED BY <2>1, CallsCounted DEF Opened
<1>2. \A k \in 1..n : k - 1 \in DOMAIN calls
  <2> SUFFICES ASSUME NEW k \in 1..n PROVE k - 1 \in DOMAIN calls
    OBVIOUS
  <2>1. k - 1 \in 0..n - 1
    BY <1>1
  <2>2. CameIn("head", k - 1, read)
    BY <1>1, <2>1, CameRead DEF Contiguous
  <2>3. PICK j \in 1..read : lines[j] = Line("head", k - 1)
    BY <2>2 DEF CameIn
  <2>4. lines[j] \in LineType
    BY DEF TypeOK
  <2>5. k - 1 \in Indexes
    BY <2>3, <2>4, LineShape DEF Line
  <2> QED BY <2>2, <2>5 DEF Collected
<1>3. ToolCalls = FlattenSeq(s)
  BY DEF ToolCalls
<1>4. \A i \in DOMAIN calls : F(calls[i]) \in CallType
  BY DEF TypeOK, CallType
<1>5. \A k \in 1..n : F(calls[k - 1]) = [id   |-> Id(k - 1),
                                         args |-> IF Came("tail", k - 1) THEN "parsed" ELSE "_raw"]
  <2> SUFFICES ASSUME NEW k \in 1..n
               PROVE  F(calls[k - 1]) = [id   |-> Id(k - 1),
                                         args |-> IF Came("tail", k - 1) THEN "parsed" ELSE "_raw"]
    OBVIOUS
  <2> DEFINE c == calls[k - 1]
  <2>1. c.id = Id(k - 1) /\ c.args = IF CameIn("tail", k - 1, read) THEN <<"head", "tail">> ELSE <<"head">>
    BY <1>2 DEF Collected
  <2>2. Parsed(c.args) <=> Came("tail", k - 1)
    <3>1. <<"head">> # <<"head", "tail">>
      <4>1. Len(<<"head">>) = 1 /\ Len(<<"head", "tail">>) = 2
        OBVIOUS
      <4> QED BY <4>1
    <3> QED BY <2>1, <3>1, CameRead DEF Parsed
  <2> HIDE DEF c
  <2>3. F(c) = [id   |-> Id(k - 1), args |-> IF Came("tail", k - 1) THEN "parsed" ELSE "_raw"]
    BY <2>1, <2>2
  <2> QED BY <2>3 DEF c
<1> HIDE DEF F, n
<1>6. w \in [1..n -> CallType] /\ \A k \in 1..n : w[k] = F(calls[k - 1])
  BY <1>2, <1>4
<1>7. s = [k \in 1..n |-> <<w[k]>>]
  BY <1>2
<1>8. w = Wanted
  BY <1>1, <1>5 DEF Wanted
<1> HIDE DEF w, s
<1>9. w \in Seq(CallType) /\ DOMAIN w = 1..n
  BY <1>1, <1>6, FcnIsSeq
<1>10. FlattenSeq([k \in DOMAIN w |-> <<w[k]>>]) = w
  BY <1>9, FlattenSingletons
<1> QED BY <1>1, <1>3, <1>7, <1>8, <1>9, <1>10

\* What came stays while the lines do.
LEMMA AnswerSame ==
    ASSUME lines' = lines
    PROVE  Contiguous' = Contiguous /\ Wanted' = Wanted /\ Opened' = Opened
<1>1. Answer' = Answer
  BY DEF Answer
<1>2. \A kind, i : Came(kind, i)' <=> Came(kind, i)
  BY <1>1 DEF Came
<1>3. Opened' = Opened
  BY <1>2 DEF Opened
<1> QED BY <1>2, <1>3 DEF Contiguous, Wanted

\* Every step keeps the calls of the message under way those that came, and ends
\* the loop only without any.
LEMMA CallsStep ==
    TypeOK /\ Collected /\ Shape /\ Sent /\ CallsKept /\ NoneLeft /\ [Next]_vars => CallsKept' /\ NoneLeft'
<1> SUFFICES ASSUME TypeOK, Collected, Shape, Sent, CallsKept, NoneLeft, [Next]_vars
             PROVE  CallsKept' /\ NoneLeft'
  OBVIOUS
<1>1. CASE pc' \notin {"tools", "returned"}
  BY <1>1 DEF CallsKept, NoneLeft, Succeeded
<1>2. CASE RequestTools
  <2>1. lines' = lines /\ pc' = "tools" /\ Ended
    BY <1>2 DEF RequestTools, Complete, upstream
  <2> DEFINE a == [Message("assistant", content) EXCEPT !.calls = ToolCalls]
  <2>2. messages' = Append(messages, a) /\ a.calls = ToolCalls /\ messages \in Seq(MessageType)
    BY <1>2 DEF RequestTools, Complete, Ended, Message, Sent
  <2>3. a \in MessageType
    <3>1. content \in Text /\ ToolCalls \in Seq(CallType) /\ <<>> \in Seq(CallId)
      BY ToolCallsType DEF TypeOK
    <3> QED BY <3>1 DEF Message, MessageType, Roles
  <2> HIDE DEF a
  <2>4. Last(messages').calls = ToolCalls
    BY <2>2, <2>3 DEF Last
  <2>5. Contiguous => ToolCalls = Wanted
    BY <2>1, ToolCallsComplete
  <2> QED BY <2>1, <2>4, <2>5, AnswerSame DEF CallsKept, NoneLeft, Succeeded
<1>3. CASE Finish
  <2>1. lines' = lines /\ Ended /\ pc' = "returned" /\ tools' = tools /\ (tools => ToolCalls = <<>>)
    BY <1>3 DEF Finish, Complete, upstream, Return, server
  <2>2. Contiguous /\ tools => Opened = 0
    <3> SUFFICES ASSUME Contiguous, tools PROVE Opened = 0
      OBVIOUS
    <3>1. Wanted = <<>> /\ Opened \in Nat
      BY <2>1, ToolCallsComplete
    <3>2. DOMAIN Wanted = 1..Opened /\ DOMAIN <<>> = {}
      BY DEF Wanted
    <3>3. 1 \notin 1..Opened
      BY <3>1, <3>2
    <3> QED BY <3>1, <3>3
  <2> QED BY <2>1, <2>2, AnswerSame DEF CallsKept, NoneLeft
<1>4. CASE Refused \/ ScanBad \/ Broken \/ LoopFails \/ ContextEnded \/ UnparsedInput
  <2>1. ~Succeeded'
    BY <1>4, FailsNoSuccess DEF Refused, ScanBad, Broken, LoopFails, ContextEnded, UnparsedInput,
                                Readable, Scanned, Ended
  <2>2. pc' = "returned"
    BY <1>4 DEF Refused, ScanBad, Broken, LoopFails, ContextEnded, UnparsedInput, Fails, Return
  <2> QED BY <2>1, <2>2 DEF CallsKept, NoneLeft
<1>5. CASE Reject
  <2>1. PICK s \in {"400", "413"} : Return(<<writeError(s)>>)
    BY <1>5 DEF Reject
  <2>2. out = <<>> /\ <<writeError(s)>> \in Seq(FrameType)
    BY <1>5, ErrorTypes DEF Reject, Shape
  <2>3. out' = <<writeError(s)>> /\ pc' = "returned"
    BY <2>1, <2>2 DEF Return
  <2>4. DOMAIN out' = {1} /\ out'[1] = writeError(s)
    BY <2>3
  <2>5. ~Succeeded'
    BY <2>4, FrameKinds DEF Succeeded, KindAt
  <2> QED BY <2>3, <2>5 DEF CallsKept, NoneLeft
<1>6. CASE Unconfigured
  BY <1>6 DEF Unconfigured, server, CallsKept, NoneLeft, Succeeded, Return
<1>7. CASE UNCHANGED <<pc, lines, messages, provider, tools, out>>
  <2>1. Succeeded' = Succeeded
    BY <1>7 DEF Succeeded, KindAt
  <2> QED BY <1>7, <2>1, AnswerSame DEF CallsKept, NoneLeft
<1>8. \/ pc' \notin {"tools", "returned"} \/ RequestTools \/ Finish \/ Reject \/ Unconfigured
      \/ Refused \/ ScanBad \/ Broken \/ LoopFails \/ ContextEnded \/ UnparsedInput
      \/ UNCHANGED <<pc, lines, messages, provider, tools, out>>
  BY DEF Next, Handler, Environment, Receive, Accept, Call, Answered, ScanSkips, ScanText, ScanTool,
         RunTools, Send, HangUp, Abort, Timeout, ClientGone, Readable, Scanned, vars, server, upstream
<1> QED BY <1>1, <1>2, <1>3, <1>4, <1>5, <1>6, <1>7, <1>8

---------------------------------------------------------------------------
(* Tool calls and their results in a body *)

\* The ids some messages answer, in their order.
Answers(q) == FlattenSeq([k \in DOMAIN q |-> q[k].results])

\* The messages q after m answer its calls.
Covered(m, q) ==
    /\ Len(Answers(q)) >= Len(m.calls)
    /\ \A k \in 1..Len(m.calls) : Answers(q)[k] = m.calls[k].id
    /\ q[1].results # <<>>

\* The messages after the i-th.
After(b, i) == SubSeq(b, i + 1, Len(b))

\* The messages after one of them.
LEMMA AfterShape ==
    ASSUME NEW S, NEW b \in Seq(S), NEW i \in 1..Len(b)
    PROVE  /\ After(b, i) \in Seq(S) /\ Len(After(b, i)) = Len(b) - i
           /\ \A k \in 1..Len(b) - i : After(b, i)[k] = b[i + k]
<1>1. Len(b) \in Nat /\ \A k \in i + 1..Len(b) : b[k] \in S
  OBVIOUS
<1>2. /\ After(b, i) \in Seq(S)
      /\ Len(After(b, i)) = IF i + 1 <= Len(b) THEN Len(b) - (i + 1) + 1 ELSE 0
      /\ \A k \in 1..Len(b) - (i + 1) + 1 : After(b, i)[k] = b[i + 1 + k - 1]
  BY <1>1, SubSeqProperties DEF After
<1> QED BY <1>1, <1>2

\* The answers some messages hold.
LEMMA AnswersShape ==
    ASSUME NEW p \in Seq(MessageType), NEW q \in Seq(MessageType)
    PROVE  Answers(p \o q) = Answers(p) \o Answers(q) /\ Answers(p) \in Seq(CallId)
<1> DEFINE g == [m \in MessageType |-> m.results]
<1>1. Maps(g, MessageType, CallId)
  BY DEF Maps, MessageType
<1>2. ASSUME NEW u \in Seq(MessageType) PROVE Answers(u) = FlatMap(g, u)
  <2>1. \A i \in DOMAIN u : u[i] \in MessageType
    OBVIOUS
  <2>2. [i \in DOMAIN u |-> u[i].results] = [i \in DOMAIN u |-> g[u[i]]]
    BY <2>1
  <2> QED BY <2>2 DEF Answers, FlatMap
<1>3. p \o q \in Seq(MessageType)
  OBVIOUS
<1> HIDE DEF g
<1>4. FlatMap(g, p \o q) = FlatMap(g, p) \o FlatMap(g, q) /\ FlatMap(g, p) \in Seq(CallId)
  BY <1>1, FlatMapConcat
<1> QED BY <1>2, <1>3, <1>4

\* ResultsFollow, with what follows a message as a sequence of its own.
LEMMA FollowAfter ==
    ASSUME NEW b \in Seq(MessageType)
    PROVE  ResultsFollow(b) <=>
              \A i \in 1..Len(b) : b[i].calls # <<>> => i < Len(b) /\ Covered(b[i], After(b, i))
<1>1. Len(b) \in Nat /\ DOMAIN b = 1..Len(b)
  OBVIOUS
<1>2. ASSUME NEW i \in 1..Len(b)
      PROVE  /\ FlattenSeq([k \in 1..(Len(b) - i) |-> b[i + k].results]) = Answers(After(b, i))
             /\ i < Len(b) => After(b, i)[1] = b[i + 1]
             /\ ~(i < Len(b)) => Answers(After(b, i)) = <<>>
             /\ Answers(After(b, i)) \in Seq(CallId)
  <2> DEFINE a == After(b, i)
  <2>1. /\ a \in Seq(MessageType) /\ Len(a) = Len(b) - i
        /\ \A k \in 1..Len(b) - i : a[k] = b[i + k]
    BY AfterShape
  <2> HIDE DEF a
  <2>2. DOMAIN a = 1..(Len(b) - i)
    BY <1>1, <2>1
  <2>3. [k \in 1..(Len(b) - i) |-> b[i + k].results] = [k \in DOMAIN a |-> a[k].results]
    BY <2>1, <2>2
  <2>4. i < Len(b) => 1 \in 1..Len(b) - i
    BY <1>1
  <2>5. ~(i < Len(b)) => a = <<>>
    BY <1>1, <2>1
  <2>6. Answers(<<>>) = <<>>
    <3>1. [k \in DOMAIN <<>> |-> <<>>[k].results] = <<>>
      OBVIOUS
    <3> QED BY <3>1, FlattenEmpty DEF Answers
  <2>7. Answers(a) \in Seq(CallId)
    BY <2>1, AnswersShape
  <2>8. i < Len(b) => a[1] = b[i + 1]
    BY <2>1, <2>4
  <2> QED BY <2>3, <2>5, <2>6, <2>7, <2>8 DEF a, Answers
<1>3. \A i \in 1..Len(b) : b[i].calls \in Seq(CallType)
  <2>1. \A i \in 1..Len(b) : b[i] \in MessageType
    OBVIOUS
  <2> QED BY <2>1 DEF MessageType
<1>4. ASSUME NEW i \in 1..Len(b), b[i].calls # <<>>
      PROVE (/\ Len(Answers(After(b, i))) >= Len(b[i].calls)
             /\ \A k \in 1..Len(b[i].calls) : Answers(After(b, i))[k] = b[i].calls[k].id
             /\ b[i + 1].results # <<>>)
            <=> i < Len(b) /\ Covered(b[i], After(b, i))
  <2>1. Len(b[i].calls) \in Nat /\ Len(b[i].calls) > 0
    BY <1>3, <1>4
  <2>2. i \in 1..Len(b)
    BY <1>4
  <2>3. ~(i < Len(b)) => Answers(After(b, i)) = <<>>
    BY <1>2, <2>2
  <2>4. Len(<<>>) = 0
    OBVIOUS
  <2>5. Len(Answers(After(b, i))) \in Nat
    BY <1>2, <2>2
  <2>6. i < Len(b) => After(b, i)[1] = b[i + 1]
    BY <1>2, <2>2
  <2>7. i < Len(b) \/ ~(Len(Answers(After(b, i))) >= Len(b[i].calls))
    BY <2>1, <2>3, <2>4
  <2> QED BY <2>6, <2>7 DEF Covered
<1>5. ResultsFollow(b) <=> \A i \in 1..Len(b) : b[i].calls # <<>> =>
             (/\ Len(Answers(After(b, i))) >= Len(b[i].calls)
              /\ \A k \in 1..Len(b[i].calls) : Answers(After(b, i))[k] = b[i].calls[k].id
              /\ b[i + 1].results # <<>>)
  BY <1>1, <1>2 DEF ResultsFollow
<1> QED BY <1>4, <1>5

\* More messages do not take an answer away.
LEMMA CoveredMore ==
    ASSUME NEW m \in MessageType, NEW p \in Seq(MessageType), NEW q \in Seq(MessageType),
           p # <<>>, Covered(m, p)
    PROVE  Covered(m, p \o q)
<1>1. /\ Answers(p \o q) = Answers(p) \o Answers(q)
      /\ Answers(p) \in Seq(CallId) /\ Answers(q) \in Seq(CallId)
  BY AnswersShape
<1>2. Len(m.calls) \in Nat
  BY DEF MessageType
<1>3. (p \o q)[1] = p[1]
  OBVIOUS
<1> DEFINE s == Answers(p)
           t == Answers(q)
<1>4. s \in Seq(CallId) /\ t \in Seq(CallId) /\ Answers(p \o q) = s \o t
  BY <1>1
<1>5. Len(s) >= Len(m.calls) /\ (\A k \in 1..Len(m.calls) : s[k] = m.calls[k].id)
      /\ p[1].results # <<>>
  BY DEF Covered
<1> HIDE DEF s, t
<1>6. Len(s \o t) >= Len(s) /\ \A k \in 1..Len(s) : (s \o t)[k] = s[k]
  BY <1>4
<1>7. Len(s) \in Nat /\ Len(s \o t) \in Nat
  BY <1>4
<1>8. \A k \in 1..Len(m.calls) : k \in 1..Len(s)
  BY <1>2, <1>5, <1>7
<1>9. \A k \in 1..Len(m.calls) : (s \o t)[k] = m.calls[k].id
  BY <1>5, <1>6, <1>8
<1>10. Len(s \o t) >= Len(m.calls)
  BY <1>2, <1>5, <1>6, <1>7
<1> QED BY <1>3, <1>4, <1>5, <1>9, <1>10 DEF Covered

\* Two bodies that answer their calls, one after the other, do so too.
LEMMA FollowConcat ==
    ASSUME NEW b \in Seq(MessageType), NEW c \in Seq(MessageType), ResultsFollow(b), ResultsFollow(c)
    PROVE  ResultsFollow(b \o c)
<1> DEFINE d == b \o c
           n == Len(b)
<1>1. /\ d \in Seq(MessageType) /\ Len(d) = n + Len(c) /\ n \in Nat /\ Len(c) \in Nat
      /\ \A k \in 1..n : d[k] = b[k]
      /\ \A k \in 1..Len(c) : d[n + k] = c[k]
  OBVIOUS
<1>2. ASSUME NEW i \in 1..n PROVE After(d, i) = After(b, i) \o c
  <2> DEFINE x == After(d, i)
             y == After(b, i)
  <2>1. i \in 1..Len(d)
    BY <1>1
  <2>2. /\ x \in Seq(MessageType) /\ Len(x) = Len(d) - i /\ \A k \in 1..Len(d) - i : x[k] = d[i + k]
    BY <1>1, <2>1, AfterShape
  <2>3. /\ y \in Seq(MessageType) /\ Len(y) = n - i /\ \A k \in 1..n - i : y[k] = b[i + k]
    BY AfterShape
  <2> HIDE DEF x, y, d, n
  <2>4. /\ y \o c \in Seq(MessageType) /\ Len(y \o c) = n - i + Len(c)
        /\ \A k \in 1..Len(y) : (y \o c)[k] = y[k]
        /\ \A k \in 1..Len(c) : (y \o c)[Len(y) + k] = c[k]
    <3>1. Concatenates(MessageType, y, c)
      BY <2>3, ConcatAt
    <3>2. /\ y \o c \in Seq(MessageType) /\ Len(y \o c) = Len(y) + Len(c)
          /\ \A k \in 1..Len(y) : (y \o c)[k] = y[k]
          /\ \A k \in 1..Len(c) : (y \o c)[Len(y) + k] = c[k]
      BY <3>1, Zenon DEF Concatenates
    <3> QED BY <2>3, <3>2
  <2>5. Len(x) = Len(y \o c)
    BY <1>1, <2>2, <2>3, <2>4
  <2>6. \A k \in 1..Len(x) : x[k] = (y \o c)[k]
    <3> SUFFICES ASSUME NEW k \in 1..Len(x) PROVE x[k] = (y \o c)[k]
      OBVIOUS
    <3>0. x[k] = d[i + k]
      BY <2>2
    <3>1. CASE k <= n - i
      <4>0. i \in Nat /\ k \in Nat /\ k >= 1
        OBVIOUS
      <4>1. i + k \in 1..n /\ k \in 1..n - i /\ k \in 1..Len(y)
        BY <1>1, <2>3, <3>1, <4>0
      <4>2. d[i + k] = b[i + k]
        BY <1>1, <4>1
      <4>3. (y \o c)[k] = y[k] /\ y[k] = b[i + k]
        BY <2>3, <2>4, <4>1
      <4> QED BY <3>0, <4>2, <4>3
    <3>2. CASE ~(k <= n - i)
      <4> DEFINE j == k - (n - i)
      <4>1. j \in 1..Len(c) /\ i + k = n + j /\ k = Len(y) + j
        <5>1. Len(x) = Len(d) - i /\ Len(y) = n - i /\ Len(d) = n + Len(c)
          BY <1>1, <2>2, <2>3
        <5>2. n \in Nat /\ Len(c) \in Nat /\ i \in 1..n /\ k \in 1..Len(x)
          BY <1>1
        <5>3. k \in Int /\ k > n - i /\ k <= n + Len(c) - i
          BY <3>2, <5>1, <5>2
        <5> HIDE DEF x, y, d, n
        <5> QED BY <5>1, <5>2, <5>3
      <4> HIDE DEF j
      <4>2. d[n + j] = c[j] /\ (y \o c)[Len(y) + j] = c[j]
        BY <1>1, <2>4, <4>1
      <4> QED BY <3>0, <4>1, <4>2
    <3> QED BY <3>1, <3>2
  <2>7. x = y \o c
    BY <2>2, <2>4, <2>5, <2>6, SeqEqual
  <2> QED BY <2>7 DEF x, y
<1>3. ASSUME NEW j \in 1..Len(c) PROVE After(d, n + j) = After(c, j)
  <2> DEFINE x == After(d, n + j)
             y == After(c, j)
  <2>1. n + j \in 1..Len(d)
    BY <1>1
  <2>2. /\ x \in Seq(MessageType) /\ Len(x) = Len(d) - (n + j)
        /\ \A k \in 1..Len(d) - (n + j) : x[k] = d[n + j + k]
    BY <1>1, <2>1, AfterShape
  <2>3. /\ y \in Seq(MessageType) /\ Len(y) = Len(c) - j /\ \A k \in 1..Len(c) - j : y[k] = c[j + k]
    BY AfterShape
  <2> HIDE DEF x, y, d, n
  <2>4. Len(x) = Len(y)
    BY <1>1, <2>2, <2>3
  <2>5. \A k \in 1..Len(x) : x[k] = y[k]
    <3> SUFFICES ASSUME NEW k \in 1..Len(x) PROVE x[k] = y[k]
      OBVIOUS
    <3> DEFINE l == j + k
    <3>1. l \in 1..Len(c) /\ k \in 1..Len(c) - j /\ n + j + k = n + l
      BY <1>1, <2>2, <2>3
    <3>2. y[k] = c[l] /\ x[k] = d[n + j + k]
      BY <2>2, <2>3, <3>1
    <3> HIDE DEF l
    <3>3. d[n + l] = c[l]
      BY <1>1, <3>1
    <3> QED BY <3>1, <3>2, <3>3
  <2>6. x = y
    BY <2>2, <2>3, <2>4, <2>5, SeqEqual
  <2> QED BY <2>6 DEF x, y
<1> HIDE DEF d, n
<1>4. ASSUME NEW i \in 1..Len(d), d[i].calls # <<>>
      PROVE  i < Len(d) /\ Covered(d[i], After(d, i))
  <2>1. CASE i \in 1..n
    <3>1. i < n /\ Covered(b[i], After(b, i)) /\ d[i] = b[i]
      BY <1>1, <1>4, <2>1, FollowAfter DEF n
    <3>2. After(b, i) \in Seq(MessageType) /\ After(b, i) # <<>> /\ b[i] \in MessageType
      <4>1. After(b, i) \in Seq(MessageType) /\ Len(After(b, i)) = n - i
        BY <2>1, AfterShape DEF n
      <4> QED BY <1>1, <2>1, <3>1, <4>1 DEF n
    <3>3. Covered(b[i], After(b, i) \o c)
      BY <3>1, <3>2, CoveredMore
    <3>4. After(d, i) = After(b, i) \o c
      BY <1>2, <2>1
    <3>5. i < Len(d)
      BY <1>1, <3>1
    <3> QED BY <3>1, <3>3, <3>4, <3>5
  <2>2. CASE i \notin 1..n
    <3> DEFINE j == i - n
    <3>1. j \in 1..Len(c) /\ i = n + j
      BY <1>1, <2>2
    <3> HIDE DEF j
    <3>2. d[i] = c[j] /\ After(d, i) = After(c, j)
      BY <1>1, <1>3, <3>1
    <3>3. j < Len(c) /\ Covered(c[j], After(c, j))
      BY <1>4, <3>1, <3>2, FollowAfter
    <3> QED BY <1>1, <3>1, <3>2, <3>3
  <2> QED BY <2>1, <2>2
<1>5. ResultsFollow(d)
  BY <1>1, <1>4, FollowAfter
<1> QED BY <1>5 DEF d

\* Messages without calls have none to answer.
LEMMA FollowNone ==
    ASSUME NEW b, \A i \in DOMAIN b : b[i].calls = <<>>
    PROVE  ResultsFollow(b)
  BY DEF ResultsFollow

\* A turn with tool calls and the messages with their results.
LEMMA FollowRound ==
    ASSUME NEW a \in MessageType, NEW r \in Seq(MessageType), r # <<>>, r[1].results # <<>>,
           \A i \in DOMAIN r : r[i].calls = <<>>,
           Answers(r) = [k \in DOMAIN a.calls |-> a.calls[k].id]
    PROVE  ResultsFollow(<<a>> \o r)
<1> DEFINE b == <<a>> \o r
<1>1. /\ <<a>> \in Seq(MessageType) /\ b \in Seq(MessageType) /\ Len(b) = 1 + Len(r) /\ Len(r) \in Nat
      /\ b[1] = a /\ \A k \in 1..Len(r) : b[1 + k] = r[k]
  OBVIOUS
<1>2. Len(r) > 0
  OBVIOUS
<1> HIDE DEF b
<1>3. After(b, 1) = r
  <2>1. 1 \in 1..Len(b)
    BY <1>1
  <2>2. /\ After(b, 1) \in Seq(MessageType) /\ Len(After(b, 1)) = Len(b) - 1
        /\ \A k \in 1..Len(b) - 1 : After(b, 1)[k] = b[1 + k]
    <3>1. b \in Seq(MessageType)
      BY <1>1
    <3>2. \A i \in 1..Len(b) :
             /\ After(b, i) \in Seq(MessageType) /\ Len(After(b, i)) = Len(b) - i
             /\ \A k \in 1..Len(b) - i : After(b, i)[k] = b[i + k]
      BY <3>1, AfterShape
    <3> QED BY <2>1, <3>2
  <2>3. Len(b) - 1 = Len(r)
    BY <1>1
  <2>4. \A k \in 1..Len(r) : After(b, 1)[k] = r[k]
    BY <1>1, <2>2, <2>3
  <2> QED BY <2>2, <2>3, <2>4, SeqEqual
<1>4. Covered(a, r)
  <2>1. a.calls \in Seq(CallType)
    BY DEF MessageType
  <2> DEFINE ids == [k \in DOMAIN a.calls |-> a.calls[k].id]
  <2>2. \A k \in 1..Len(a.calls) : ids[k] = a.calls[k].id
    BY <2>1
  <2>3. Answers(r) = ids /\ Answers(r) \in Seq(CallId)
    BY AnswersShape
  <2>4. DOMAIN ids = 1..Len(a.calls)
    BY <2>1
  <2> HIDE DEF ids
  <2>5. Len(a.calls) \in Nat
    BY <2>1
  <2>6. DOMAIN Answers(r) = 1..Len(Answers(r)) /\ Len(Answers(r)) \in Nat
    BY <2>3
  <2>7. Len(Answers(r)) = Len(a.calls)
    BY <2>3, <2>4, <2>5, <2>6
  <2> QED BY <2>2, <2>3, <2>5, <2>7 DEF Covered
<1>5. ASSUME NEW i \in 1..Len(b), b[i].calls # <<>>
      PROVE  i < Len(b) /\ Covered(b[i], After(b, i))
  <2>1. CASE i = 1
    BY <1>1, <1>2, <1>3, <1>4, <2>1
  <2>2. CASE i # 1
    <3> DEFINE j == i - 1
    <3>1. j \in 1..Len(r) /\ i = 1 + j
      BY <1>1, <2>2
    <3> HIDE DEF j
    <3>2. b[i] = r[j] /\ j \in DOMAIN r
      BY <1>1, <3>1
    <3> QED BY <1>5, <3>2
  <2> QED BY <2>1, <2>2
<1>6. ResultsFollow(b)
  BY <1>1, <1>5, FollowAfter
<1> QED BY <1>6 DEF b

---------------------------------------------------------------------------
(* The providers' forms of a conversation *)

\* The messages of a request, the turns of a conversation, and those of them
\* without tool calls and results.
RequestMessage == [role : Roles, content : Text]
Turn == {m \in MessageType : m.role # "system"}
Plain == {m \in Turn : m.calls = <<>> /\ m.results = <<>>}
Uncalled == {m \in MessageType : m.calls = <<>>}
TurnType == [role : {"user", "assistant"}, content : Text]

\* What becomes of one message in the body for each provider.
ToOpenAI ==
    [m \in MessageType |->
        CASE m.role \in {"system", "user", "assistant"} -> <<m>>
          [] m.role = "tool" -> [k \in DOMAIN m.results |-> Result(m.results[k])]
          [] OTHER -> <<Null>>]
ToAnthropic ==
    [m \in MessageType |->
        CASE m.role \in {"user", "assistant"} -> <<m>>
          [] m.role = "tool" -> <<[m EXCEPT !.role = "user", !.content = <<>>]>>
          [] OTHER -> <<>>]

\* ToOpenAI, case by case.
LEMMA ToOpenAICases ==
    ASSUME NEW m \in MessageType
    PROVE  /\ m.role \in {"system", "user", "assistant"} => ToOpenAI[m] = <<m>>
           /\ m.role = "tool" => ToOpenAI[m] = [k \in DOMAIN m.results |-> Result(m.results[k])]
           /\ m.role \notin {"system", "user", "assistant", "tool"} => ToOpenAI[m] = <<Null>>
<1>1. ToOpenAI[m] = CASE m.role \in {"system", "user", "assistant"} -> <<m>>
                      [] m.role = "tool" -> [k \in DOMAIN m.results |-> Result(m.results[k])]
                      [] OTHER -> <<Null>>
  BY Zenon DEF ToOpenAI
<1> QED BY <1>1

\* ToAnthropic, case by case.
LEMMA ToAnthropicCases ==
    ASSUME NEW m \in MessageType
    PROVE  /\ m.role \in {"user", "assistant"} => ToAnthropic[m] = <<m>>
           /\ m.role = "tool" => ToAnthropic[m] = <<[m EXCEPT !.role = "user", !.content = <<>>]>>
           /\ m.role \notin {"user", "assistant", "tool"} => ToAnthropic[m] = <<>>
<1>1. ToAnthropic[m] = CASE m.role \in {"user", "assistant"} -> <<m>>
                         [] m.role = "tool" -> <<[m EXCEPT !.role = "user", !.content = <<>>]>>
                         [] OTHER -> <<>>
  BY Zenon DEF ToAnthropic
<1> QED BY <1>1

\* A message without calls and results.
LEMMA MessageParts ==
    /\ \A r \in Roles \cup {"null"}, c \in Text : Message(r, c) \in Uncalled
    /\ \A r \in Roles \ {"system"}, c \in Text : Message(r, c) \in Plain
    /\ Null \in Plain
    /\ \A id \in CallId : Result(id) \in Turn /\ Result(id).calls = <<>>
<1>1. <<>> \in Seq(CallType) /\ <<>> \in Seq(CallId) /\ <<>> \in Text
  BY DEF Text
<1>2. \A r, c : /\ Message(r, c).role = r /\ Message(r, c).content = c
                /\ Message(r, c).calls = <<>> /\ Message(r, c).results = <<>>
  BY DEF Message
<1>3. \A r \in Roles \cup {"null"}, c \in Text : Message(r, c) \in MessageType
  BY <1>1 DEF Message, MessageType
<1>4. \A id \in CallId : <<id>> \in Seq(CallId)
  OBVIOUS
<1>5. \A id \in CallId : /\ Result(id) \in MessageType /\ Result(id).role = "tool"
                         /\ Result(id).calls = <<>> /\ Result(id).results = <<id>>
  <2> SUFFICES ASSUME NEW id \in CallId
               PROVE  /\ Result(id) \in MessageType /\ Result(id).role = "tool"
                      /\ Result(id).calls = <<>> /\ Result(id).results = <<id>>
    OBVIOUS
  <2> DEFINE q == <<id>>
             e == <<>>
  <2>1. q \in Seq(CallId) /\ e \in Seq(CallType) /\ e \in Text
    BY <1>1, <1>4
  <2>2. Result(id) = [role |-> "tool", content |-> e, calls |-> e, results |-> q]
    BY DEF Result, Message
  <2> HIDE DEF q, e
  <2>3. /\ Result(id).role = "tool" /\ Result(id).calls = e /\ Result(id).results = q
        /\ Result(id) \in MessageType
    BY <2>1, <2>2 DEF MessageType, Roles
  <2> QED BY <2>3 DEF q, e
<1>6. "null" # "system"
  OBVIOUS
<1> QED BY <1>1, <1>2, <1>3, <1>5, <1>6 DEF Uncalled, Plain, Turn, Null

\* The results of a message with role tool.
LEMMA ResultMessages ==
    ASSUME NEW ids \in Seq(CallId)
    PROVE  LET r == [k \in DOMAIN ids |-> Result(ids[k])]
           IN  /\ r \in Seq({Result(id) : id \in CallId}) /\ Len(r) = Len(ids)
               /\ Answers(r) = ids
<1> DEFINE r == [k \in DOMAIN ids |-> Result(ids[k])]
           R == {Result(id) : id \in CallId}
<1>1. Len(ids) \in Nat /\ DOMAIN ids = 1..Len(ids) /\ \A k \in 1..Len(ids) : ids[k] \in CallId
  OBVIOUS
<1>2. r \in [1..Len(ids) -> R]
  BY <1>1
<1>3. [k \in DOMAIN r |-> r[k].results] = [k \in DOMAIN ids |-> <<ids[k]>>]
  <2>1. \A id : Result(id).results = <<id>>
    BY DEF Result, Message
  <2> QED BY <2>1
<1>4. Answers(r) = ids
  BY <1>3, FlattenSingletons DEF Answers
<1> HIDE DEF r, R
<1>5. r \in Seq(R) /\ Len(r) = Len(ids)
  BY <1>1, <1>2, FcnIsSeq
<1> QED BY <1>4, <1>5 DEF r, R

\* Both give messages for a message.
LEMMA ToMaps ==
    ASSUME NEW g \in {ToOpenAI, ToAnthropic}
    PROVE  /\ Maps(g, MessageType, MessageType)
           /\ \A m \in Turn : g[m] \in Seq(Turn)
           /\ \A m \in Uncalled : g[m] \in Seq(Uncalled)
<1>1. DOMAIN g = MessageType /\ g = [m \in MessageType |-> g[m]]
  BY DEF ToOpenAI, ToAnthropic
<1>2. ASSUME NEW m \in MessageType
      PROVE  /\ g[m] \in Seq(MessageType)
             /\ m \in Turn => g[m] \in Seq(Turn)
             /\ m \in Uncalled => g[m] \in Seq(Uncalled)
  <2>1. /\ <<m>> \in Seq(MessageType) /\ m \in Turn => <<m>> \in Seq(Turn)
    OBVIOUS
  <2>2. \A x : m \in x => <<m>> \in Seq(x)
    OBVIOUS
  <2>3. \A x : <<>> \in Seq(x)
    OBVIOUS
  <2>4. Null \in MessageType /\ Null \in Turn /\ Null \in Uncalled
    BY MessageParts DEF Plain, Turn, Uncalled
  <2>5. <<Null>> \in Seq(MessageType) /\ <<Null>> \in Seq(Turn) /\ <<Null>> \in Seq(Uncalled)
    BY <2>4
  <2>6. LET r == [k \in DOMAIN m.results |-> Result(m.results[k])]
        IN  r \in Seq(MessageType) /\ r \in Seq(Turn) /\ r \in Seq(Uncalled)
    <3> DEFINE r == [k \in DOMAIN m.results |-> Result(m.results[k])]
               R == {Result(id) : id \in CallId}
    <3>1. m.results \in Seq(CallId)
      BY DEF MessageType
    <3>2. r \in Seq(R)
      BY <3>1, ResultMessages
    <3>3. R \subseteq MessageType /\ R \subseteq Turn /\ R \subseteq Uncalled
      BY MessageParts DEF Turn, Uncalled
    <3> HIDE DEF r, R
    <3>4. r \in Seq(MessageType) /\ r \in Seq(Turn) /\ r \in Seq(Uncalled)
      BY <3>2, <3>3, SeqMonotonic
    <3> QED BY <3>4 DEF r
  <2>7. LET t == [m EXCEPT !.role = "user", !.content = <<>>]
        IN  t \in MessageType /\ t \in Turn /\ (m \in Uncalled => t \in Uncalled)
    <3> DEFINE e == <<>>
               t == [m EXCEPT !.role = "user", !.content = e]
    <3>1. e \in Text
      BY DEF Text
    <3> HIDE DEF e
    <3>2. t \in MessageType /\ t.role = "user" /\ t.calls = m.calls
      BY <3>1 DEF MessageType, Roles
    <3> QED BY <3>2 DEF Turn, Uncalled, e
  <2>8. LET t == [m EXCEPT !.role = "user", !.content = <<>>]
        IN  <<t>> \in Seq(MessageType) /\ <<t>> \in Seq(Turn) /\ (m \in Uncalled => <<t>> \in Seq(Uncalled))
    <3> DEFINE t == [m EXCEPT !.role = "user", !.content = <<>>]
    <3>1. t \in MessageType /\ t \in Turn /\ (m \in Uncalled => t \in Uncalled)
      BY <2>7
    <3> HIDE DEF t
    <3>2. <<t>> \in Seq(MessageType) /\ <<t>> \in Seq(Turn) /\ (m \in Uncalled => <<t>> \in Seq(Uncalled))
      BY <3>1
    <3> QED BY <3>2 DEF t
  <2>9. CASE g = ToOpenAI
    <3>1. \/ g[m] = <<m>> \/ g[m] = [k \in DOMAIN m.results |-> Result(m.results[k])] \/ g[m] = <<Null>>
      BY <2>9, ToOpenAICases
    <3> QED BY <2>2, <2>5, <2>6, <3>1
  <2>10. CASE g = ToAnthropic
    <3>1. \/ g[m] = <<m>> \/ g[m] = <<[m EXCEPT !.role = "user", !.content = <<>>]>> \/ g[m] = <<>>
      BY <2>10, ToAnthropicCases
    <3> QED BY <2>2, <2>3, <2>8, <3>1
  <2> QED BY <2>9, <2>10
<1>3. Turn \subseteq MessageType /\ Uncalled \subseteq MessageType
  BY DEF Turn, Uncalled
<1> QED BY <1>1, <1>2, <1>3 DEF Maps

\* Turns become turns, and messages without calls such messages.
LEMMA BodyTypes ==
    ASSUME NEW g \in {ToOpenAI, ToAnthropic}, NEW S \in {Turn, Uncalled}, NEW s \in Seq(S)
    PROVE  FlatMap(g, s) \in Seq(S)
<1> DEFINE h == [m \in S |-> g[m]]
<1>1. Maps(h, S, S)
  BY ToMaps DEF Maps
<1>2. FlatMap(h, s) = FlatMap(g, s)
  <2>1. \A i \in DOMAIN s : s[i] \in S
    OBVIOUS
  <2>2. [i \in DOMAIN s |-> h[s[i]]] = [i \in DOMAIN s |-> g[s[i]]]
    BY <2>1
  <2> QED BY <2>2 DEF FlatMap
<1> HIDE DEF h
<1>3. FlatMap(h, s) \in Seq(S)
  BY <1>1, FlatMapConcat
<1> QED BY <1>2, <1>3

\* What one message says.
TurnOf(m) ==
    IF m.role \in {"user", "assistant"} /\ m.content # <<>>
    THEN <<[role |-> m.role, content |-> m.content]>> ELSE <<>>

\* Messages one after the other say what each of them says.
LEMMA TurnsConcat ==
    ASSUME NEW S \in {MessageType, RequestMessage, Turn}, NEW a \in Seq(S), NEW b \in Seq(S)
    PROVE  TurnsOf(a \o b) = TurnsOf(a) \o TurnsOf(b) /\ TurnsOf(a) \in Seq(TurnType)
<1> DEFINE g == [m \in S |-> TurnOf(m)]
<1>1. Maps(g, S, TurnType)
  <2> SUFFICES ASSUME NEW m \in S PROVE TurnOf(m) \in Seq(TurnType)
    BY DEF Maps
  <2>1. m.content \in Text
    <3>1. \A x \in MessageType : x.content \in Text
      BY DEF MessageType
    <3>2. \A x \in RequestMessage : x.content \in Text
      BY DEF RequestMessage
    <3>3. \A x \in Turn : x \in MessageType
      BY DEF Turn
    <3> QED BY <3>1, <3>2, <3>3
  <2>2. m.role \in {"user", "assistant"} => <<[role |-> m.role, content |-> m.content]>> \in Seq(TurnType)
    <3> SUFFICES ASSUME m.role \in {"user", "assistant"}
                 PROVE <<[role |-> m.role, content |-> m.content]>> \in Seq(TurnType)
      OBVIOUS
    <3>1. [role |-> m.role, content |-> m.content] \in TurnType
      BY <2>1 DEF TurnType
    <3> QED BY <3>1
  <2> QED BY <2>2 DEF TurnOf
<1>2. ASSUME NEW u \in Seq(S) PROVE TurnsOf(u) = FlatMap(g, u)
  <2>1. \A i \in DOMAIN u : u[i] \in S
    OBVIOUS
  <2>2. [i \in DOMAIN u |-> TurnOf(u[i])] = [i \in DOMAIN u |-> g[u[i]]]
    BY <2>1
  <2> QED BY <2>2 DEF TurnsOf, TurnOf, FlatMap
<1>3. a \o b \in Seq(S)
  OBVIOUS
<1> HIDE DEF g
<1>4. FlatMap(g, a \o b) = FlatMap(g, a) \o FlatMap(g, b) /\ FlatMap(g, a) \in Seq(TurnType)
  BY <1>1, FlatMapConcat
<1> QED BY <1>2, <1>3, <1>4

\* What one message says.
LEMMA TurnsSmall ==
    /\ TurnsOf(<<>>) = <<>>
    /\ \A S \in {MessageType, RequestMessage, Turn} : \A m \in S : TurnsOf(<<m>>) = TurnOf(m)
<1>1. [i \in DOMAIN <<>> |-> TurnOf(<<>>[i])] = <<>>
  OBVIOUS
<1>2. \A u : TurnsOf(u) = FlattenSeq([i \in DOMAIN u |-> TurnOf(u[i])])
  BY DEF TurnsOf, TurnOf
<1>3. \A m : [i \in DOMAIN <<m>> |-> TurnOf(<<m>>[i])] = <<TurnOf(m)>>
  OBVIOUS
<1>4. ASSUME NEW m PROVE TurnOf(m) \in Seq({[role |-> m.role, content |-> m.content]})
  <2> DEFINE x == [role |-> m.role, content |-> m.content]
  <2>1. TurnOf(m) = <<x>> \/ TurnOf(m) = <<>>
    BY DEF TurnOf
  <2> HIDE DEF x
  <2>2. <<x>> \in Seq({x}) /\ <<>> \in Seq({x})
    OBVIOUS
  <2>3. TurnOf(m) \in Seq({x})
    BY <2>1, <2>2, Zenon
  <2> QED BY <2>3 DEF x
<1>5. \A m : FlattenSeq(<<TurnOf(m)>>) = TurnOf(m)
  <2> SUFFICES ASSUME NEW m PROVE FlattenSeq(<<TurnOf(m)>>) = TurnOf(m)
    OBVIOUS
  <2> DEFINE Q == {[role |-> m.role, content |-> m.content]}
  <2>1. TurnOf(m) \in Seq(Q)
    BY <1>4
  <2> HIDE DEF Q
  <2> QED BY <2>1, FlattenSingle
<1> QED BY <1>1, <1>2, <1>3, <1>5, FlattenEmpty

\* Messages that say nothing.
LEMMA TurnsNone ==
    ASSUME NEW S, NEW s \in Seq(S), \A m \in S : TurnOf(m) = <<>>
    PROVE  TurnsOf(s) = <<>>
<1> DEFINE t == [i \in DOMAIN s |-> TurnOf(s[i])]
<1>1. Len(s) \in Nat /\ t \in [1..Len(s) -> Seq({})]
  <2>1. \A i \in 1..Len(s) : s[i] \in S /\ TurnOf(s[i]) = <<>>
    OBVIOUS
  <2> DEFINE E == Seq({})
             e == <<>>
  <2>2. e \in E /\ DOMAIN s = 1..Len(s) /\ Len(s) \in Nat
    OBVIOUS
  <2>3. \A i \in 1..Len(s) : TurnOf(s[i]) = e
    BY <2>1
  <2> HIDE DEF E, e
  <2>4. t \in [1..Len(s) -> E]
    BY <2>2, <2>3
  <2> QED BY <2>2, <2>4 DEF E
<1>2. TurnsOf(s) = FlattenSeq(t)
  BY DEF TurnsOf, TurnOf
<1> HIDE DEF t
<1>3. t \in Seq(Seq({}))
  BY <1>1, FcnIsSeq
<1>4. FlattenSeq(t) \in Seq({})
  BY <1>3, FlattenType
<1>5. \A x \in Seq({}) : x = <<>>
  OBVIOUS
<1> QED BY <1>2, <1>4, <1>5

\* Neither provider's body says more or less than the message.
LEMMA TurnKept ==
    ASSUME NEW g \in {ToOpenAI, ToAnthropic}, NEW m \in Turn
    PROVE  TurnsOf(g[m]) = TurnOf(m)
<1>1. m \in MessageType /\ m.role # "system"
  BY DEF Turn
<1>2. CASE m.role \in {"user", "assistant"}
  <2>1. g[m] = <<m>>
    BY <1>1, <1>2, ToOpenAICases, ToAnthropicCases
  <2> QED BY <1>1, <2>1, TurnsSmall
<1>3. CASE m.role = "tool"
  <2>1. TurnOf(m) = <<>>
    BY <1>3 DEF TurnOf
  <2>2. CASE g = ToOpenAI
    <3> DEFINE r == [k \in DOMAIN m.results |-> Result(m.results[k])]
               R == {Result(id) : id \in CallId}
    <3>1. g[m] = r
      BY <1>1, <1>3, <2>2, ToOpenAICases
    <3>2. m.results \in Seq(CallId)
      BY <1>1 DEF MessageType
    <3>3. r \in Seq(R)
      BY <3>2, ResultMessages
    <3>4. \A x \in R : TurnOf(x) = <<>>
      BY DEF TurnOf, Result, Message
    <3> HIDE DEF r, R
    <3>5. TurnsOf(r) = <<>>
      BY <3>3, <3>4, TurnsNone
    <3> QED BY <2>1, <3>1, <3>5
  <2>3. CASE g = ToAnthropic
    <3> DEFINE t == [m EXCEPT !.role = "user", !.content = <<>>]
    <3>1. g[m] = <<t>>
      BY <1>1, <1>3, <2>3, ToAnthropicCases
    <3>2. t.content = <<>>
      BY <1>1 DEF MessageType
    <3>3. TurnOf(t) = <<>>
      BY <3>2 DEF TurnOf
    <3> HIDE DEF t
    <3>4. TurnsOf(<<t>>) = <<>>
      <4> DEFINE R == {t}
                 s == <<t>>
      <4>1. s \in Seq(R) /\ \A x \in R : TurnOf(x) = <<>>
        BY <3>3
      <4> HIDE DEF R, s
      <4>2. TurnsOf(s) = <<>>
        BY <4>1, TurnsNone
      <4> QED BY <4>2 DEF s
    <3> QED BY <2>1, <3>1, <3>4
  <2> QED BY <2>2, <2>3
<1>4. CASE m.role \notin {"user", "assistant", "tool"}
  <2>1. TurnOf(m) = <<>>
    BY <1>4 DEF TurnOf
  <2>2. g[m] = <<Null>> \/ g[m] = <<>>
    BY <1>1, <1>4, ToOpenAICases, ToAnthropicCases
  <2>3. TurnOf(Null) = <<>>
    BY DEF TurnOf, Null, Message
  <2>4. TurnsOf(<<Null>>) = <<>>
    <3> DEFINE R == {Null}
               s == <<Null>>
    <3>1. s \in Seq(R) /\ \A x \in R : TurnOf(x) = <<>>
      BY <2>3
    <3> HIDE DEF R, s
    <3>2. TurnsOf(s) = <<>>
      BY <3>1, TurnsNone
    <3> QED BY <3>2 DEF s
  <2> QED BY <2>1, <2>2, <2>4, TurnsSmall
<1> QED BY <1>2, <1>3, <1>4

\* Every user and assistant message is in the body, in its order and once.
LEMMA BodyTurns ==
    ASSUME NEW g \in {ToOpenAI, ToAnthropic}
    PROVE  \A s \in Seq(Turn) : TurnsOf(FlatMap(g, s)) = TurnsOf(s)
<1> DEFINE Q(s) == TurnsOf(FlatMap(g, s)) = TurnsOf(s)
           T == {s \in Seq(Turn) : Q(s)}
<1>1. Maps(g, MessageType, MessageType)
  BY ToMaps
<1>2. Turn \subseteq MessageType
  BY DEF Turn
<1>3. Q(<<>>)
  BY <1>1, FlatMapSmall
<1>4. ASSUME NEW s \in Seq(Turn), NEW x \in Turn, Q(s) PROVE Q(Append(s, x))
  <2>1. s \in Seq(MessageType) /\ x \in MessageType
    BY <1>2, SeqMonotonic
  <2>2. FlatMap(g, Append(s, x)) = FlatMap(g, s) \o g[x]
    BY <1>1, <2>1, FlatMapAppend
  <2>3. FlatMap(g, s) \in Seq(Turn) /\ g[x] \in Seq(Turn)
    BY BodyTypes, ToMaps
  <2>4. TurnsOf(FlatMap(g, s) \o g[x]) = TurnsOf(FlatMap(g, s)) \o TurnsOf(g[x])
    BY <2>3, TurnsConcat
  <2>5. Append(s, x) = s \o <<x>> /\ <<x>> \in Seq(Turn)
    BY AppendIsConcat
  <2>6. TurnsOf(s \o <<x>>) = TurnsOf(s) \o TurnOf(x)
    <3>1. TurnsOf(s \o <<x>>) = TurnsOf(s) \o TurnsOf(<<x>>)
      BY <2>5, TurnsConcat
    <3> QED BY <2>1, <3>1, TurnsSmall
  <2>7. TurnsOf(g[x]) = TurnOf(x)
    BY TurnKept
  <2> QED BY <1>4, <2>2, <2>4, <2>5, <2>6, <2>7
<1> HIDE DEF Q
<1>5. <<>> \in T /\ \A s \in Seq(Turn), x \in Turn : s \in T => Append(s, x) \in T
  BY <1>3, <1>4
<1> HIDE DEF T
<1>6. \A s \in Seq(Turn) : s \in T
  BY <1>5, SeqInd
<1> QED BY <1>6 DEF T, Q

\* What ConvertMessages leaves in the conversation.
LEMMA ConvertedType ==
    ASSUME NEW ms \in Seq(RequestMessage)
    PROVE  Converted(ms) \in Seq(Plain) /\ SystemTexts(ms) \in Text
<1> DEFINE g == [m \in RequestMessage |-> IF m.role = "system" THEN <<>> ELSE <<Message(m.role, m.content)>>]
           h == [m \in RequestMessage |-> IF m.role = "system" THEN m.content ELSE <<>>]
<1>1. \A i \in DOMAIN ms : ms[i] \in RequestMessage
  OBVIOUS
<1>2. Converted(ms) = FlatMap(g, ms) /\ SystemTexts(ms) = FlatMap(h, ms)
  <2>1. [i \in DOMAIN ms |-> IF ms[i].role = "system" THEN <<>> ELSE <<Message(ms[i].role, ms[i].content)>>]
        = [i \in DOMAIN ms |-> g[ms[i]]]
    BY <1>1
  <2>2. [i \in DOMAIN ms |-> IF ms[i].role = "system" THEN ms[i].content ELSE <<>>]
        = [i \in DOMAIN ms |-> h[ms[i]]]
    BY <1>1
  <2> QED BY <2>1, <2>2 DEF Converted, SystemTexts, FlatMap
<1>3. Maps(g, RequestMessage, Plain)
  <2> SUFFICES ASSUME NEW m \in RequestMessage
               PROVE  (IF m.role = "system" THEN <<>> ELSE <<Message(m.role, m.content)>>) \in Seq(Plain)
    BY DEF Maps
  <2>1. CASE m.role = "system"
    BY <2>1
  <2>2. CASE m.role # "system"
    <3>1. Message(m.role, m.content) \in Plain
      BY <2>2, MessageParts DEF RequestMessage
    <3> QED BY <2>2, <3>1
  <2> QED BY <2>1, <2>2
<1>4. Maps(h, RequestMessage, Part)
  BY DEF Maps, RequestMessage, Text
<1> HIDE DEF g, h
<1>5. FlatMap(g, ms) \in Seq(Plain) /\ FlatMap(h, ms) \in Seq(Part)
  BY <1>3, <1>4, FlatMapConcat
<1> QED BY <1>2, <1>5 DEF Text

\* Every user and assistant message of the request is in the conversation.
LEMMA ConvertedTurns == \A ms \in Seq(RequestMessage) : TurnsOf(Converted(ms)) = TurnsOf(ms)
<1> DEFINE Q(s) == TurnsOf(Converted(s)) = TurnsOf(s)
           T == {s \in Seq(RequestMessage) : Q(s)}
           C(m) == IF m.role = "system" THEN <<>> ELSE <<Message(m.role, m.content)>>
<1>1. \A u : Converted(u) = FlattenSeq([i \in DOMAIN u |-> C(u[i])])
  BY DEF Converted
<1>2. Q(<<>>)
  <2>1. [i \in DOMAIN <<>> |-> C(<<>>[i])] = <<>>
    OBVIOUS
  <2> QED BY <1>1, <2>1, FlattenEmpty
<1>3. ASSUME NEW s \in Seq(RequestMessage), NEW x \in RequestMessage, Q(s) PROVE Q(Append(s, x))
  <2>1. Append(s, x) = s \o <<x>> /\ <<x>> \in Seq(RequestMessage)
    BY AppendIsConcat
  <2>2. C(x) \in Seq(Plain)
    <3>1. CASE x.role = "system"
      BY <3>1
    <3>2. CASE x.role # "system"
      <4>1. Message(x.role, x.content) \in Plain
        BY <3>2, MessageParts DEF RequestMessage
      <4> QED BY <3>2, <4>1
    <3> QED BY <3>1, <3>2
  <2>3. Converted(Append(s, x)) = Converted(s) \o C(x)
    <3> DEFINE g == [m \in RequestMessage |-> C(m)]
    <3>1. Maps(g, RequestMessage, Plain)
      <4> SUFFICES ASSUME NEW m \in RequestMessage PROVE C(m) \in Seq(Plain)
        BY DEF Maps
      <4>1. CASE m.role = "system"
        BY <4>1
      <4>2. CASE m.role # "system"
        <5>1. Message(m.role, m.content) \in Plain
          BY <4>2, MessageParts DEF RequestMessage
        <5> QED BY <4>2, <5>1
      <4> QED BY <4>1, <4>2
    <3>2. \A u \in Seq(RequestMessage) : Converted(u) = FlatMap(g, u)
      <4> SUFFICES ASSUME NEW u \in Seq(RequestMessage) PROVE Converted(u) = FlatMap(g, u)
        OBVIOUS
      <4>1. \A i \in DOMAIN u : u[i] \in RequestMessage
        OBVIOUS
      <4> HIDE DEF C
      <4>2. [i \in DOMAIN u |-> C(u[i])] = [i \in DOMAIN u |-> g[u[i]]]
        BY <4>1
      <4> QED BY <1>1, <4>2 DEF FlatMap
    <3>3. g[x] = C(x) /\ Append(s, x) \in Seq(RequestMessage)
      OBVIOUS
    <3> HIDE DEF g
    <3>4. FlatMap(g, Append(s, x)) = FlatMap(g, s) \o g[x]
      BY <3>1, FlatMapAppend
    <3> HIDE DEF C
    <3> QED BY <3>2, <3>3, <3>4
  <2>4. Plain \subseteq MessageType /\ Converted(s) \in Seq(Plain)
    BY ConvertedType DEF Plain, Turn
  <2>5. TurnsOf(C(x)) = TurnOf(x)
    <3>1. CASE x.role = "system"
      BY <3>1, TurnsSmall DEF TurnOf
    <3>2. CASE x.role # "system"
      <4> DEFINE m == Message(x.role, x.content)
      <4>1. m \in MessageType /\ C(x) = <<m>>
        BY <3>2, <2>4, MessageParts DEF RequestMessage
      <4>2. TurnOf(m) = TurnOf(x)
        BY DEF TurnOf, Message
      <4> HIDE DEF m, C
      <4> QED BY <4>1, <4>2, TurnsSmall
    <3> QED BY <3>1, <3>2
  <2> HIDE DEF C
  <2>6. Converted(s) \in Seq(MessageType) /\ C(x) \in Seq(MessageType)
    BY <2>2, <2>4, SeqMonotonic
  <2>7. TurnsOf(Converted(s) \o C(x)) = TurnsOf(Converted(s)) \o TurnsOf(C(x))
    BY <2>6, TurnsConcat
  <2>8. TurnsOf(s \o <<x>>) = TurnsOf(s) \o TurnOf(x)
    <3>1. TurnsOf(s \o <<x>>) = TurnsOf(s) \o TurnsOf(<<x>>)
      BY <2>1, TurnsConcat
    <3> QED BY <3>1, TurnsSmall
  <2> QED BY <1>3, <2>1, <2>3, <2>5, <2>7, <2>8
<1> HIDE DEF Q
<1>4. <<>> \in T /\ \A s \in Seq(RequestMessage), x \in RequestMessage : s \in T => Append(s, x) \in T
  BY <1>2, <1>3
<1> HIDE DEF T
<1>5. \A s \in Seq(RequestMessage) : s \in T
  BY <1>4, SeqInd
<1> QED BY <1>5 DEF T, Q

---------------------------------------------------------------------------
(* The conversation *)

\* The conversation begins with this message.
Prompt == Message("system", ServerPrompt \o SystemTexts(req.messages))

\* In either provider's form, the calls of some turns are answered.
Follows(s) == ResultsFollow(FlatMap(ToOpenAI, s)) /\ ResultsFollow(FlatMap(ToAnthropic, s))

\* Where the conversation is kept.
Talking == pc \in {"call", "calling"} \/ (pc \in {"streaming", "tools"} /\ tools)

\* The turns after the prompt: what they say begins with what the request says,
\* and is that before the first answer; the calls of all of them are answered,
\* but for those that are about to run.
Turns(rest) ==
    /\ \E w \in Seq(TurnType) :
          /\ TurnsOf(rest) = TurnsOf(req.messages) \o w
          /\ iter = 0 \/ (iter = 1 /\ pc = "calling") => w = <<>>
    /\ IF pc = "tools"
       THEN \E before \in Seq(Turn), a \in Turn :
               rest = Append(before, a) /\ a.role = "assistant" /\ a.calls # <<>> /\ Follows(before)
       ELSE Follows(rest)

\* The conversation of a tool loop and of its requests.
Prompted ==
    /\ pc = "received" => iter = 0
    /\ pc \in {"calling", "streaming", "tools"} => iter >= 1
    /\ Talking => \E rest \in Seq(Turn) : messages = <<Prompt>> \o rest /\ Turns(rest)

\* What a request holds, and the prompt made of it.
LEMMA RequestTyped ==
    ASSUME TypeOK
    PROVE  /\ req.messages \in Seq(RequestMessage)
           /\ ServerPrompt \o SystemTexts(req.messages) \in Text
           /\ ServerPrompt \o SystemTexts(req.messages) # <<>>
           /\ Prompt \in Uncalled
<1>1. req.messages \in Seq(RequestMessage)
  BY DEF TypeOK, RequestType, RequestMessage
<1>2. SystemTexts(req.messages) \in Seq(Part)
  BY <1>1, ConvertedType DEF Text
<1>3. ServerPrompt \in Seq(Part) /\ ServerPrompt # <<>>
  BY DEF ServerPrompt, Part
<1> DEFINE p == ServerPrompt
           s == SystemTexts(req.messages)
<1>4. p \in Seq(Part) /\ s \in Seq(Part) /\ p # <<>>
  BY <1>2, <1>3
<1> HIDE DEF p, s
<1>5. p \o s \in Seq(Part) /\ p \o s # <<>>
  BY <1>4
<1>6. Message("system", p \o s) \in Uncalled
  BY <1>5, MessageParts DEF Text, Roles
<1> QED BY <1>1, <1>5, <1>6 DEF p, s, Prompt, Text

\* Turns without calls and results leave nothing to answer.
LEMMA PlainFollows ==
    ASSUME NEW s \in Seq(Plain)
    PROVE  Follows(s)
<1>1. Plain \subseteq Uncalled
  BY DEF Plain, Turn, Uncalled
<1>2. s \in Seq(Uncalled)
  BY <1>1, SeqMonotonic
<1>3. ASSUME NEW g \in {ToOpenAI, ToAnthropic} PROVE ResultsFollow(FlatMap(g, s))
  <2>1. FlatMap(g, s) \in Seq(Uncalled)
    BY <1>2, BodyTypes
  <2>2. \A i \in DOMAIN FlatMap(g, s) : FlatMap(g, s)[i].calls = <<>>
    <3> DEFINE b == FlatMap(g, s)
    <3>1. b \in Seq(Uncalled)
      BY <2>1
    <3> HIDE DEF b
    <3>2. \A i \in DOMAIN b : b[i] \in Uncalled
      BY <3>1
    <3> QED BY <3>2 DEF Uncalled, b
  <2> QED BY <2>2, FollowNone
<1> QED BY <1>3 DEF Follows

\* A round of the tool loop: the calls of the assistant's turn and their results.
LEMMA RoundFollows ==
    ASSUME NEW before \in Seq(Turn), Follows(before),
           NEW a \in Turn, a.role = "assistant", a.calls # <<>>,
           NEW t \in Turn, t.role = "tool", t.calls = <<>>,
           t.results = [k \in DOMAIN a.calls |-> a.calls[k].id]
    PROVE  Follows(Append(Append(before, a), t))
<1> SUFFICES ASSUME NEW g \in {ToOpenAI, ToAnthropic}
             PROVE  ResultsFollow(FlatMap(g, Append(Append(before, a), t)))
  BY DEF Follows
<1>1. Turn \subseteq MessageType /\ a \in MessageType /\ t \in MessageType
  BY DEF Turn
<1>2. Maps(g, MessageType, MessageType) /\ before \in Seq(MessageType)
  BY <1>1, ToMaps, SeqMonotonic
<1> DEFINE b == FlatMap(g, before)
           r == g[t]
<1>3. b \in Seq(MessageType) /\ r \in Seq(MessageType)
  <2>1. FlatMap(g, before) \in Seq(MessageType)
    BY <1>2, FlatMapConcat
  <2>2. g[t] \in Seq(MessageType)
    BY <1>1, <1>2 DEF Maps
  <2> QED BY <2>1, <2>2
<1>4. FlatMap(g, Append(Append(before, a), t)) = b \o (<<a>> \o r)
  <2>1. FlatMap(g, Append(before, a)) = b \o g[a]
    BY <1>1, <1>2, FlatMapAppend
  <2>2. g[a] = <<a>>
    BY <1>1, ToOpenAICases, ToAnthropicCases
  <2>3. Append(before, a) \in Seq(MessageType)
    BY <1>1, <1>2
  <2>4. FlatMap(g, Append(Append(before, a), t)) = FlatMap(g, Append(before, a)) \o r
    <3> DEFINE c == Append(before, a)
    <3>1. c \in Seq(MessageType)
      BY <2>3
    <3> HIDE DEF c
    <3>2. FlatMap(g, Append(c, t)) = FlatMap(g, c) \o g[t]
      BY <1>1, <1>2, <3>1, FlatMapAppend
    <3> QED BY <3>2 DEF c
  <2> HIDE DEF b, r
  <2>5. (b \o <<a>>) \o r = b \o (<<a>> \o r)
    <3>1. <<a>> \in Seq(MessageType)
      BY <1>1
    <3>2. Associates(b, <<a>>, r)
      BY <1>3, <3>1, ConcatAssociates
    <3> QED BY <3>2 DEF Associates
  <2> QED BY <2>1, <2>2, <2>4, <2>5
<1>5. ResultsFollow(b)
  BY DEF Follows
<1>6. t.results \in Seq(CallId) /\ t.results # <<>>
  <2>1. t.results \in Seq(CallId) /\ a.calls \in Seq(CallType)
    BY <1>1 DEF MessageType
  <2>2. 1 \in DOMAIN a.calls
    BY <2>1
  <2>3. DOMAIN t.results = DOMAIN a.calls
    OBVIOUS
  <2>4. DOMAIN <<>> = {}
    OBVIOUS
  <2> QED BY <2>1, <2>2, <2>3, <2>4
<1>7. /\ r # <<>> /\ r[1].results # <<>>
      /\ \A i \in DOMAIN r : r[i].calls = <<>>
      /\ Answers(r) = t.results
  <2>1. CASE g = ToOpenAI
    <3> DEFINE ids == t.results
               u == [k \in DOMAIN ids |-> Result(ids[k])]
    <3>1. r = u
      BY <1>1, <2>1, ToOpenAICases
    <3>2. ids \in Seq(CallId) /\ ids # <<>>
      BY <1>6
    <3>3. Len(u) = Len(ids) /\ Answers(u) = ids /\ DOMAIN u = DOMAIN ids
      BY <3>2, ResultMessages
    <3>4. \A i \in DOMAIN ids : u[i] = Result(ids[i])
      OBVIOUS
    <3> HIDE DEF u, ids
    <3>5. \A id : Result(id).calls = <<>> /\ Result(id).results = <<id>>
      BY DEF Result, Message
    <3>6. 1 \in DOMAIN ids
      BY <3>2
    <3>7. u # <<>>
      <4>1. DOMAIN <<>> = {}
        OBVIOUS
      <4> QED BY <3>3, <3>6, <4>1
    <3>8. \A id : <<id>> # <<>>
      OBVIOUS
    <3>9. u[1].results # <<>> /\ \A i \in DOMAIN u : u[i].calls = <<>>
      <4>1. u[1] = Result(ids[1])
        BY <3>4, <3>6
      <4>2. Result(ids[1]).results = <<ids[1]>> /\ <<ids[1]>> # <<>>
        BY <3>5, <3>8, Zenon
      <4>3. u[1].results # <<>>
        BY <4>1, <4>2
      <4>4. \A i \in DOMAIN u : u[i] = Result(ids[i])
        BY <3>3, <3>4
      <4>5. \A i \in DOMAIN u : u[i].calls = <<>>
        BY <3>5, <4>4, Zenon
      <4> QED BY <4>3, <4>5
    <3> QED BY <3>1, <3>3, <3>7, <3>9 DEF ids
  <2>2. CASE g = ToAnthropic
    <3> DEFINE u == [t EXCEPT !.role = "user", !.content = <<>>]
    <3>1. r = <<u>>
      BY <1>1, <2>2, ToAnthropicCases
    <3>2. u.calls = <<>> /\ u.results = t.results /\ u \in MessageType
      <4> DEFINE e == <<>>
                 v == [t EXCEPT !.role = "user", !.content = e]
      <4>1. e \in Text
        BY DEF Text
      <4> HIDE DEF e
      <4>2. v.calls = t.calls /\ v.results = t.results /\ v \in MessageType
        BY <1>1, <4>1 DEF MessageType, Roles
      <4> QED BY <4>2 DEF e
    <3> HIDE DEF u
    <3>3. DOMAIN <<u>> = {1} /\ <<u>>[1] = u /\ <<u>> # <<>>
      OBVIOUS
    <3>4. Answers(<<u>>) = u.results
      <4>1. [k \in DOMAIN <<u>> |-> <<u>>[k].results] = <<u.results>>
        OBVIOUS
      <4>2. u.results \in Seq(CallId)
        BY <1>6, <3>2
      <4> QED BY <4>1, <4>2, FlattenSingle DEF Answers
    <3> HIDE DEF r
    <3> QED BY <1>6, <3>1, <3>2, <3>3, <3>4
  <2> QED BY <2>1, <2>2
<1> HIDE DEF b, r
<1>8. ResultsFollow(<<a>> \o r)
  BY <1>1, <1>3, <1>7, FollowRound
<1>9. <<a>> \o r \in Seq(MessageType)
  BY <1>1, <1>3
<1>10. ResultsFollow(b \o (<<a>> \o r))
  BY <1>3, <1>5, <1>8, <1>9, FollowConcat
<1> QED BY <1>4, <1>10

\* The form of a conversation is made message by message.
LEMMA FormConcat ==
    ASSUME NEW g \in {ToOpenAI, ToAnthropic}, NEW a \in Seq(MessageType), NEW b \in Seq(MessageType)
    PROVE  FlatMap(g, a \o b) = FlatMap(g, a) \o FlatMap(g, b) /\ FlatMap(g, a) \in Seq(MessageType)
<1>1. Maps(g, MessageType, MessageType)
  BY ToMaps
<1> QED BY <1>1, FlatMapConcat

\* The body of a call is the prompt and the provider's form of every turn.
LEMMA BodyShape ==
    ASSUME TypeOK, NEW rest \in Seq(Turn), messages = <<Prompt>> \o rest
    PROVE  /\ OpenAIMessages(messages) = <<Prompt>> \o FlatMap(ToOpenAI, rest)
           /\ AnthropicMessages(messages) = <<Prompt>> \o FlatMap(ToAnthropic, rest)
<1>1. Prompt \in MessageType /\ Prompt.role = "system" /\ Turn \subseteq MessageType
      /\ Prompt.content = ServerPrompt \o SystemTexts(req.messages)
  BY RequestTyped DEF Uncalled, Turn, Prompt, Message
<1>2. rest \in Seq(MessageType) /\ <<Prompt>> \in Seq(MessageType)
  BY <1>1, SeqMonotonic
<1>3. messages \in Seq(MessageType)
  BY <1>2
<1>4. \A i \in DOMAIN messages : messages[i] \in MessageType
  BY <1>3
<1>5. OpenAIMessages(messages) = FlatMap(ToOpenAI, messages)
  <2>1. [i \in DOMAIN messages |->
            LET m == messages[i] IN
            CASE m.role \in {"system", "user", "assistant"} -> <<m>>
              [] m.role = "tool" -> [k \in DOMAIN m.results |-> Result(m.results[k])]
              [] OTHER -> <<Null>>]
        = [i \in DOMAIN messages |-> ToOpenAI[messages[i]]]
    BY <1>4, Zenon DEF ToOpenAI
  <2> QED BY <2>1 DEF OpenAIMessages, FlatMap
<1>6. ASSUME NEW g \in {ToOpenAI, ToAnthropic}
      PROVE  FlatMap(g, messages) = g[Prompt] \o FlatMap(g, rest)
  <2>1. Maps(g, MessageType, MessageType)
    BY ToMaps
  <2> DEFINE p == <<Prompt>>
  <2>2. FlatMap(g, p) = g[Prompt]
    BY <1>1, <2>1, FlatMapSmall
  <2>3. p \in Seq(MessageType) /\ messages = p \o rest
    BY <1>2
  <2> HIDE DEF p
  <2>4. FlatMap(g, p \o rest) = FlatMap(g, p) \o FlatMap(g, rest)
    <3>1. \A q \in Seq(MessageType) : FlatMap(g, q \o rest) = FlatMap(g, q) \o FlatMap(g, rest)
      <4>1. rest \in Seq(MessageType)
        BY <1>2
      <4> QED BY <4>1, FormConcat
    <3>2. p \in Seq(MessageType)
      BY <2>3
    <3> QED BY <3>1, <3>2
  <2> QED BY <2>2, <2>3, <2>4
<1>7. ToOpenAI[Prompt] = <<Prompt>> /\ ToAnthropic[Prompt] = <<>>
  BY <1>1, ToOpenAICases, ToAnthropicCases
<1>8. AnthropicMessages(messages) = <<Prompt>> \o FlatMap(ToAnthropic, messages)
  <2> DEFINE system == {i \in DOMAIN messages : messages[i].role = "system"}
             prompt == IF system = {} THEN <<>> ELSE messages[Max(system)].content
             turns  == FlattenSeq([i \in DOMAIN messages |->
                    LET m == messages[i] IN
                    CASE m.role \in {"user", "assistant"} -> <<m>>
                      [] m.role = "tool" -> <<[m EXCEPT !.role = "user", !.content = <<>>]>>
                      [] OTHER -> <<>>])
  <2>1. AnthropicMessages(messages) =
           (IF prompt = <<>> THEN <<>> ELSE <<Message("system", prompt)>>) \o turns
    BY Zenon DEF AnthropicMessages
  <2>2. [i \in DOMAIN messages |->
                    LET m == messages[i] IN
                    CASE m.role \in {"user", "assistant"} -> <<m>>
                      [] m.role = "tool" -> <<[m EXCEPT !.role = "user", !.content = <<>>]>>
                      [] OTHER -> <<>>]
        = [i \in DOMAIN messages |-> ToAnthropic[messages[i]]]
    BY <1>4, Zenon DEF ToAnthropic
  <2>3. turns = FlatMap(ToAnthropic, messages)
    BY <2>2 DEF FlatMap
  <2>4. system = {1}
    <3>1. DOMAIN messages = 1..1 + Len(rest) /\ Len(rest) \in Nat /\ messages[1] = Prompt
          /\ \A i \in 1..Len(rest) : messages[1 + i] = rest[i]
      BY <1>2
    <3>2. \A i \in 1..Len(rest) : rest[i].role # "system"
      <4>1. \A i \in 1..Len(rest) : rest[i] \in Turn
        OBVIOUS
      <4> QED BY <4>1 DEF Turn
    <3>3. \A i \in DOMAIN messages : i = 1 \/ \E j \in 1..Len(rest) : i = 1 + j
      <4> SUFFICES ASSUME NEW i \in DOMAIN messages, i # 1 PROVE \E j \in 1..Len(rest) : i = 1 + j
        OBVIOUS
      <4>1. i - 1 \in 1..Len(rest) /\ i = 1 + (i - 1)
        BY <3>1
      <4> QED BY <4>1
    <3> QED BY <1>1, <3>1, <3>2, <3>3
  <2>5. Max({1}) = 1
    BY DEF Max
  <2>6. messages[1] = Prompt
    BY <1>2
  <2>7. {1} # {}
    OBVIOUS
  <2> HIDE DEF system, turns
  <2>8. prompt = Prompt.content
    BY <2>4, <2>5, <2>6, <2>7
  <2>9. Prompt.content # <<>> /\ Message("system", Prompt.content) = Prompt
    BY <1>1, RequestTyped DEF Prompt
  <2> HIDE DEF prompt
  <2> QED BY <2>1, <2>3, <2>8, <2>9
<1>9. FlatMap(ToAnthropic, messages) = FlatMap(ToAnthropic, rest)
  <2>1. FlatMap(ToAnthropic, messages) = <<>> \o FlatMap(ToAnthropic, rest)
    BY <1>6, <1>7
  <2>2. FlatMap(ToAnthropic, rest) \in Seq(Turn)
    BY BodyTypes
  <2> DEFINE f == FlatMap(ToAnthropic, rest)
  <2>3. f \in Seq(Turn)
    BY <2>2
  <2> HIDE DEF f
  <2>4. <<>> \o f = f
    BY <2>3
  <2> QED BY <2>1, <2>4 DEF f
<1> QED BY <1>5, <1>6, <1>7, <1>8, <1>9

\* A conversation in the provider's form carries the prompt, the turns and the
\* answers.
LEMMA BodyCarries ==
    ASSUME TypeOK, NEW rest \in Seq(Turn), NEW g \in {ToOpenAI, ToAnthropic},
           NEW b, b = <<Prompt>> \o FlatMap(g, rest)
    PROVE  /\ b[1] = Prompt /\ \A i \in 2..Len(b) : b[i].role # "system"
           /\ TurnsOf(b) = TurnsOf(rest)
           /\ Follows(rest) => ResultsFollow(b)
<1> DEFINE f == FlatMap(g, rest)
<1>1. f \in Seq(Turn) /\ Turn \subseteq MessageType /\ Prompt \in MessageType /\ Prompt.calls = <<>>
  BY BodyTypes, RequestTyped DEF Turn, Uncalled
<1>2. TurnsOf(f) = TurnsOf(rest)
  BY BodyTurns
<1>3. Follows(rest) => ResultsFollow(f)
  BY DEF Follows
<1> HIDE DEF f
<1>4. f \in Seq(MessageType) /\ <<Prompt>> \in Seq(MessageType) /\ b = <<Prompt>> \o f
  BY <1>1, SeqMonotonic DEF f
<1>5. b[1] = Prompt /\ Len(b) = 1 + Len(f) /\ Len(f) \in Nat /\ \A i \in 1..Len(f) : b[1 + i] = f[i]
  BY <1>4
<1>6. \A i \in 2..Len(b) : b[i].role # "system"
  <2> SUFFICES ASSUME NEW i \in 2..Len(b) PROVE b[i].role # "system"
    OBVIOUS
  <2> DEFINE j == i - 1
  <2>1. j \in 1..Len(f) /\ i = 1 + j
    BY <1>5
  <2> HIDE DEF j
  <2>2. f[j] \in Turn /\ b[i] = f[j]
    BY <1>1, <1>5, <2>1
  <2> QED BY <2>2 DEF Turn
<1>7. TurnsOf(b) = TurnsOf(rest)
  <2>1. TurnsOf(<<Prompt>> \o f) = TurnsOf(<<Prompt>>) \o TurnsOf(f)
    BY <1>4, TurnsConcat
  <2>2. TurnsOf(<<Prompt>>) = <<>>
    <3>1. TurnOf(Prompt) = <<>>
      BY DEF TurnOf, Prompt, Message
    <3> QED BY <1>1, <3>1, TurnsSmall
  <2>3. TurnsOf(f) \in Seq(TurnType)
    BY <1>4, TurnsConcat
  <2> DEFINE t == TurnsOf(f)
  <2>4. t \in Seq(TurnType)
    BY <2>3
  <2> HIDE DEF t
  <2>5. <<>> \o t = t
    BY <2>4
  <2> QED BY <1>2, <1>4, <2>1, <2>2, <2>5 DEF t
<1>8. Follows(rest) => ResultsFollow(b)
  <2> DEFINE p == <<Prompt>>
  <2>1. p \in Seq(MessageType) /\ b = p \o f
    BY <1>4
  <2>2. DOMAIN p = {1} /\ p[1] = Prompt
    OBVIOUS
  <2>3. ResultsFollow(p)
    BY <1>1, <2>2, FollowNone
  <2> HIDE DEF p
  <2> QED BY <1>3, <1>4, <2>1, <2>3, FollowConcat
<1> QED BY <1>5, <1>6, <1>7, <1>8

\* Nothing Prompted speaks of changes.
LEMMA PromptedSame ==
    ASSUME Prompted, UNCHANGED <<pc, req, messages, iter, tools>>
    PROVE  Prompted'
<1>1. Prompt' = Prompt
  BY DEF Prompt
<1>2. ASSUME NEW rest PROVE Turns(rest)' <=> Turns(rest)
  BY DEF Turns
<1> QED BY <1>1, <1>2 DEF Prompted, Talking

\* One more turn.
LEMMA TurnAdded ==
    ASSUME NEW rest \in Seq(Turn), NEW m \in Turn
    PROVE  /\ Append(rest, m) \in Seq(Turn)
           /\ \E v \in Seq(TurnType) : TurnsOf(Append(rest, m)) = TurnsOf(rest) \o v
           /\ TurnsOf(rest) \in Seq(TurnType)
           /\ \A p \in MessageType : Append(<<p>> \o rest, m) = <<p>> \o Append(rest, m)
<1>1. Append(rest, m) = rest \o <<m>> /\ <<m>> \in Seq(Turn) /\ Append(rest, m) \in Seq(Turn)
  BY AppendIsConcat
<1> DEFINE x == <<m>>
<1>2. x \in Seq(Turn) /\ Append(rest, m) = rest \o x
  BY <1>1
<1> HIDE DEF x
<1>3. TurnsOf(rest \o x) = TurnsOf(rest) \o TurnsOf(x) /\ TurnsOf(rest) \in Seq(TurnType)
  BY <1>2, TurnsConcat
<1>4. TurnsOf(x) \in Seq(TurnType)
  BY <1>2, TurnsConcat
<1>5. ASSUME NEW p \in MessageType PROVE Append(<<p>> \o rest, m) = <<p>> \o Append(rest, m)
  <2>1. rest \in Seq(MessageType) /\ m \in MessageType
    BY SeqMonotonic DEF Turn
  <2> QED BY <2>1
<1> QED BY <1>1, <1>2, <1>3, <1>4, <1>5

\* The last of a sequence after a first element.
LEMMA LastKept ==
    ASSUME NEW S, NEW p \in S, NEW rest \in Seq(S), rest # <<>>
    PROVE  (<<p>> \o rest)[Len(<<p>> \o rest)] = rest[Len(rest)]
  OBVIOUS

\* Every step keeps the conversation: the prompt, the turns of the request, and
\* rounds whose calls are answered in their order.
LEMMA PromptedStep == TypeOK /\ Shape /\ Prompted /\ [Next]_vars => Prompted'
<1> SUFFICES ASSUME TypeOK, Shape, Prompted, [Next]_vars PROVE Prompted'
  OBVIOUS
<1>0. iter \in Nat /\ pc \in PCs
  BY DEF TypeOK
<1>1. CASE Receive
  BY <1>1 DEF Receive, Prompted, Talking
<1>2. CASE pc' = "returned"
  BY <1>2 DEF Prompted, Talking
<1>3. CASE Accept
  <2>0. PICK rest : rest = Converted(req.messages)
    OBVIOUS
  <2>1. req.messages \in Seq(RequestMessage)
    BY RequestTyped
  <2>2. rest \in Seq(Plain) /\ Plain \subseteq Turn
    BY <2>0, <2>1, ConvertedType DEF Plain
  <2>3. rest \in Seq(Turn)
    BY <2>2, SeqMonotonic
  <2>4. messages' = <<Prompt>> \o rest /\ Prompt' = Prompt /\ req' = req
    BY <1>3, <2>0 DEF Accept, ConvertMessages, Prompt
  <2>5. Follows(rest)
    BY <2>2, PlainFollows
  <2>6. TurnsOf(rest) = TurnsOf(req.messages) \o <<>> /\ <<>> \in Seq(TurnType)
    <3>1. TurnsOf(rest) = TurnsOf(req.messages)
      BY <2>0, <2>1, ConvertedTurns
    <3> DEFINE t == TurnsOf(req.messages)
    <3>2. t \in Seq(TurnType)
      BY <2>1, TurnsConcat
    <3> HIDE DEF t
    <3>3. t \o <<>> = t
      BY <3>2
    <3> QED BY <3>1, <3>3 DEF t
  <2>7. pc' = "call" /\ iter' = iter /\ iter = 0
    BY <1>3 DEF Accept, Accepted, Prompted
  <2>8. Turns(rest)'
    BY <2>4, <2>5, <2>6, <2>7 DEF Turns
  <2> QED BY <2>3, <2>4, <2>7, <2>8 DEF Prompted
<1>4. CASE Call
  <2>1. Talking /\ pc = "call" /\ pc' = "calling" /\ iter' = iter + 1
        /\ UNCHANGED <<req, messages>>
    BY <1>4 DEF Call, Talking
  <2>2. PICK rest \in Seq(Turn) : messages = <<Prompt>> \o rest /\ Turns(rest)
    BY <2>1 DEF Prompted
  <2>3. Prompt' = Prompt
    BY <2>1 DEF Prompt
  <2>4. iter' = 0 \/ (iter' = 1 /\ pc' = "calling") => iter = 0
    BY <1>0, <2>1
  <2>5. Turns(rest)'
    BY <2>1, <2>2, <2>4 DEF Turns
  <2>6. iter' >= 1 /\ pc' # "received"
    BY <1>0, <2>1
  <2>7. messages' = <<Prompt'>> \o rest
    BY <2>1, <2>2, <2>3
  <2> QED BY <2>5, <2>6, <2>7 DEF Prompted
<1>5. CASE Answered
  <2>1. pc = "calling" /\ pc' = "streaming" /\ iter' = iter /\ tools' = tools /\ iter >= 1
    BY <1>5 DEF Answered, Prompted, server
  <2>2. CASE tools
    <3>1. UNCHANGED <<req, messages>>
      BY <1>5, <2>2 DEF Answered
    <3>2. PICK rest \in Seq(Turn) : messages = <<Prompt>> \o rest /\ Turns(rest)
      BY <2>1 DEF Prompted, Talking
    <3>3. Prompt' = Prompt
      BY <3>1 DEF Prompt
    <3>4. ~(iter' = 0 \/ (iter' = 1 /\ pc' = "calling"))
      BY <1>0, <2>1
    <3>5. Turns(rest)'
      BY <2>1, <3>1, <3>2, <3>4 DEF Turns
    <3>6. messages' = <<Prompt'>> \o rest
      BY <3>1, <3>2, <3>3
    <3> QED BY <2>1, <3>5, <3>6 DEF Prompted
  <2>3. CASE ~tools
    BY <2>1, <2>3 DEF Prompted, Talking
  <2> QED BY <2>2, <2>3
<1>6. CASE RequestTools
  <2>1. pc = "streaming" /\ pc' = "tools" /\ iter' = iter /\ req' = req /\ tools /\ iter >= 1
    BY <1>6 DEF RequestTools, Complete, Ended, Prompted
  <2>2. PICK rest \in Seq(Turn) : messages = <<Prompt>> \o rest /\ Turns(rest)
    BY <2>1 DEF Prompted, Talking
  <2>0. PICK a : a = [Message("assistant", content) EXCEPT !.calls = ToolCalls]
    OBVIOUS
  <2>3. messages' = Append(messages, a) /\ a.calls = ToolCalls /\ a.role = "assistant" /\ ToolCalls # <<>>
    BY <1>6, <2>0 DEF RequestTools, Message
  <2>4. a \in Turn
    <3>1. content \in Text /\ ToolCalls \in Seq(CallType) /\ <<>> \in Seq(CallId)
      BY ToolCallsType DEF TypeOK
    <3>2. a \in MessageType
      BY <2>0, <3>1 DEF Message, MessageType, Roles
    <3> QED BY <2>3, <3>2 DEF Turn
  <2>5. Prompt' = Prompt /\ Prompt \in MessageType
    BY <2>1, RequestTyped DEF Prompt, Uncalled
  <2>6. messages' = <<Prompt'>> \o Append(rest, a) /\ Append(rest, a) \in Seq(Turn)
    BY <2>2, <2>3, <2>4, <2>5, TurnAdded
  <2>7. Turns(Append(rest, a))'
    <3>1. PICK w \in Seq(TurnType) : TurnsOf(rest) = TurnsOf(req.messages) \o w
      BY <2>2 DEF Turns
    <3>2. PICK v \in Seq(TurnType) : TurnsOf(Append(rest, a)) = TurnsOf(rest) \o v
      BY <2>4, TurnAdded
    <3>3. req.messages \in Seq(RequestMessage)
      BY RequestTyped
    <3> DEFINE t == TurnsOf(req.messages)
    <3>4. t \in Seq(TurnType)
      BY <3>3, TurnsConcat
    <3> HIDE DEF t
    <3>5. (t \o w) \o v = t \o (w \o v) /\ w \o v \in Seq(TurnType)
      <4>1. (t \o w) \o v = t \o (w \o v)
        <5>1. Associates(t, w, v)
          BY <3>4, ConcatAssociates
        <5> QED BY <5>1 DEF Associates
      <4>2. w \o v \in Seq(TurnType)
        BY ConcatProperties, Zenon
      <4> QED BY <4>1, <4>2
    <3>6. TurnsOf(Append(rest, a)) = TurnsOf(req'.messages) \o (w \o v)
      BY <2>1, <3>1, <3>2, <3>5 DEF t
    <3>7. Follows(rest)
      BY <2>1, <2>2 DEF Turns
    <3>8. ~(iter' = 0 \/ (iter' = 1 /\ pc' = "calling"))
      BY <1>0, <2>1
    <3> QED BY <2>1, <2>3, <2>4, <3>5, <3>6, <3>7, <3>8 DEF Turns
  <2> QED BY <2>1, <2>6, <2>7 DEF Prompted
<1>7. CASE RunTools
  <2>1. pc = "tools" /\ pc' = "call" /\ iter' = iter /\ req' = req /\ tools /\ iter >= 1
    BY <1>7 DEF RunTools, Prompted, Shape
  <2>2. PICK rest \in Seq(Turn) : messages = <<Prompt>> \o rest /\ Turns(rest)
    BY <2>1 DEF Prompted, Talking
  <2>3. PICK before \in Seq(Turn), a \in Turn :
           rest = Append(before, a) /\ a.role = "assistant" /\ a.calls # <<>> /\ Follows(before)
    BY <2>1, <2>2 DEF Turns
  <2>4. Prompt' = Prompt /\ Prompt \in MessageType
    BY <2>1, RequestTyped DEF Prompt, Uncalled
  <2>5. Last(messages) = a
    <3>1. rest \in Seq(MessageType) /\ rest # <<>> /\ rest[Len(rest)] = a
      <4>1. rest # <<>> /\ rest[Len(rest)] = a
        BY <2>3
      <4> QED BY <4>1, SeqMonotonic DEF Turn
    <3>2. messages = <<Prompt>> \o rest /\ <<Prompt>> \in Seq(MessageType)
      BY <2>2, <2>4
    <3> QED BY <2>4, <3>1, <3>2, LastKept DEF Last
  <2> DEFINE ids == [k \in DOMAIN a.calls |-> a.calls[k].id]
             t == [Message("tool", <<>>) EXCEPT !.results = ids]
  <2>6. messages' = Append(messages, t)
    BY <1>7, <2>5 DEF RunTools
  <2>7. t \in Turn /\ t.role = "tool" /\ t.calls = <<>> /\ t.results = ids
    <3>1. a.calls \in Seq(CallType)
      BY DEF Turn, MessageType
    <3>2. ids \in Seq(CallId)
      <4>1. Len(a.calls) \in Nat /\ DOMAIN a.calls = 1..Len(a.calls)
            /\ \A k \in 1..Len(a.calls) : a.calls[k] \in CallType
        BY <3>1
      <4>2. ids \in [1..Len(a.calls) -> CallId]
        BY <4>1 DEF CallType
      <4> HIDE DEF ids
      <4> QED BY <4>1, <4>2, FcnIsSeq
    <3> DEFINE e == <<>>
    <3>3. e \in Text /\ e \in Seq(CallType)
      BY DEF Text
    <3>4. t = [role |-> "tool", content |-> e, calls |-> e, results |-> ids]
      BY DEF Message
    <3> HIDE DEF ids, t, e
    <3>5. t \in MessageType /\ t.role = "tool" /\ t.calls = e /\ t.results = ids
      BY <3>2, <3>3, <3>4 DEF MessageType, Roles
    <3> QED BY <3>5 DEF Turn, e
  <2>8. Follows(Append(rest, t))
    BY <2>3, <2>7, RoundFollows
  <2> HIDE DEF t
  <2>9. messages' = <<Prompt'>> \o Append(rest, t) /\ Append(rest, t) \in Seq(Turn)
    BY <2>2, <2>4, <2>6, <2>7, TurnAdded
  <2>10. Turns(Append(rest, t))'
    <3>1. PICK w \in Seq(TurnType) : TurnsOf(rest) = TurnsOf(req.messages) \o w
      BY <2>2 DEF Turns
    <3>2. PICK v \in Seq(TurnType) : TurnsOf(Append(rest, t)) = TurnsOf(rest) \o v
      BY <2>7, TurnAdded
    <3>3. req.messages \in Seq(RequestMessage)
      BY RequestTyped
    <3> DEFINE s == TurnsOf(req.messages)
    <3>4. s \in Seq(TurnType)
      BY <3>3, TurnsConcat
    <3> HIDE DEF s
    <3>5. (s \o w) \o v = s \o (w \o v) /\ w \o v \in Seq(TurnType)
      <4>1. (s \o w) \o v = s \o (w \o v)
        <5>1. Associates(s, w, v)
          BY <3>4, ConcatAssociates
        <5> QED BY <5>1 DEF Associates
      <4>2. w \o v \in Seq(TurnType)
        BY ConcatProperties, Zenon
      <4> QED BY <4>1, <4>2
    <3>6. TurnsOf(Append(rest, t)) = TurnsOf(req'.messages) \o (w \o v)
      BY <2>1, <3>1, <3>2, <3>5 DEF s
    <3>7. ~(iter' = 0 \/ (iter' = 1 /\ pc' = "calling"))
      BY <1>0, <2>1
    <3> QED BY <2>1, <2>8, <3>5, <3>6, <3>7 DEF Turns
  <2> QED BY <2>1, <2>9, <2>10 DEF Prompted
<1>8. CASE UNCHANGED <<pc, req, messages, iter, tools>>
  BY <1>8, PromptedSame
<1>9. \/ Receive \/ pc' = "returned" \/ Accept \/ Call \/ Answered \/ RequestTools \/ RunTools
      \/ UNCHANGED <<pc, req, messages, iter, tools>>
  BY DEF Next, Handler, Environment, Reject, Unconfigured, ContextEnded, ScanSkips, ScanText, ScanTool,
         ScanBad, Broken, UnparsedInput, Finish, LoopFails, Refused, Abort, Timeout, Send, HangUp,
         ClientGone, vars, server, Return, Fails
<1> QED BY <1>1, <1>2, <1>3, <1>4, <1>5, <1>6, <1>7, <1>8, <1>9

\* Every call to the API carries that conversation.
LEMMA BodyStep ==
    TypeOK /\ Prompted /\ PromptReachesModel /\ ResultsFollow(body) /\ [Next]_vars
        => PromptReachesModel' /\ ResultsFollow(body')
<1> SUFFICES ASSUME TypeOK, Prompted, PromptReachesModel, ResultsFollow(body), [Next]_vars
             PROVE  PromptReachesModel' /\ ResultsFollow(body')
  OBVIOUS
<1>1. CASE Call
  <2>1. /\ pc = "call" /\ pc' = "calling" /\ iter' = iter + 1 /\ UNCHANGED <<req, messages>>
        /\ body' = IF provider = "openai" THEN OpenAIMessages(messages) ELSE AnthropicMessages(messages)
    BY <1>1 DEF Call
  <2>2. PICK rest \in Seq(Turn) : messages = <<Prompt>> \o rest /\ Turns(rest)
    BY <2>1 DEF Prompted, Talking
  <2>3. PICK g \in {ToOpenAI, ToAnthropic} : body' = <<Prompt>> \o FlatMap(g, rest)
    BY <2>1, <2>2, BodyShape
  <2>4. /\ body'[1] = Prompt /\ \A i \in 2..Len(body') : body'[i].role # "system"
        /\ TurnsOf(body') = TurnsOf(rest)
        /\ Follows(rest) => ResultsFollow(body')
    BY <2>3, BodyCarries
  <2>5. Follows(rest)
    BY <2>1, <2>2 DEF Turns
  <2>6. PICK w \in Seq(TurnType) :
           TurnsOf(rest) = TurnsOf(req.messages) \o w /\ (iter = 0 => w = <<>>)
    BY <2>2 DEF Turns
  <2>7. Prompt.role = "system" /\ Prompt.content = ServerPrompt \o SystemTexts(req.messages)
    BY DEF Prompt, Message
  <2>8. IF iter' = 1 THEN TurnsOf(body') = TurnsOf(req'.messages)
        ELSE IsPrefix(TurnsOf(req'.messages), TurnsOf(body'))
    <3> DEFINE t == TurnsOf(req.messages)
    <3>1. t \in Seq(TurnType)
      <4>1. req.messages \in Seq(RequestMessage)
        BY RequestTyped
      <4> QED BY <4>1, TurnsConcat
    <3>2. TurnsOf(body') = t \o w /\ TurnsOf(req'.messages) = t
      BY <2>1, <2>4, <2>6
    <3> HIDE DEF t
    <3>3. CASE iter' = 1
      <4>1. w = <<>>
        BY <2>1, <2>6, <3>3 DEF TypeOK
      <4>2. t \o <<>> = t
        BY <3>1
      <4> QED BY <3>2, <3>3, <4>1, <4>2
    <3>4. CASE iter' # 1
      <4>1. Len(t) <= Len(t \o w) /\ SubSeq(t, 1, Len(t)) = SubSeq(t \o w, 1, Len(t))
        <5>1. Len(t) \in Nat /\ Len(w) \in Nat /\ Len(t \o w) = Len(t) + Len(w)
              /\ \A i \in 1..Len(t) : (t \o w)[i] = t[i]
          BY <3>1
        <5>2. t \o w \in Seq(TurnType)
          BY <3>1
        <5> QED BY <3>1, <5>1, <5>2
      <4>2. IsPrefix(t, t \o w)
        BY <4>1 DEF IsPrefix
      <4> QED BY <3>2, <3>4, <4>2
    <3> QED BY <3>3, <3>4
  <2>9. PromptReachesModel'
    BY <2>1, <2>4, <2>7, <2>8 DEF PromptReachesModel
  <2> QED BY <2>4, <2>5, <2>9
<1>2. CASE body' = <<>> /\ pc' # "calling"
  BY <1>2, FollowNone DEF PromptReachesModel
<1>3. CASE body' = body /\ pc' # "calling"
  BY <1>3 DEF PromptReachesModel
<1>4. CASE UNCHANGED <<pc, req, iter, body>>
  BY <1>4 DEF PromptReachesModel
<1>5. Call \/ (body' = <<>> /\ pc' # "calling") \/ (body' = body /\ pc' # "calling")
      \/ UNCHANGED <<pc, req, iter, body>>
  BY DEF Next, Handler, Environment, Receive, Reject, Unconfigured, Accept, Answered, ContextEnded,
         ScanSkips, ScanText, ScanTool, ScanBad, Broken, UnparsedInput, Finish, RequestTools, RunTools,
         LoopFails, Refused, Abort, Timeout, Send, HangUp, ClientGone, vars, Return, Fails,
         Readable, Scanned
<1> QED BY <1>1, <1>2, <1>3, <1>4, <1>5

---------------------------------------------------------------------------
\* The inductive invariant.
StreamInv ==
    /\ TypeOK /\ Ordered /\ Collected /\ Shape /\ Spoken /\ Prompted
    /\ StreamWellFormed /\ AnswerIsTheModels /\ CallsKept /\ NoneLeft
    /\ PromptReachesModel /\ ResultsFollow(body)

\* The invariant holds at the start.
LEMMA StreamInit == Init => StreamInv
<1> SUFFICES ASSUME Init PROVE StreamInv
  OBVIOUS
<1>1. TypeOK
  BY InitType
<1>2. lines = <<>> /\ read = 0 /\ content = <<>> /\ calls = <<>> /\ pc = "idle" /\ out = <<>> /\ body = <<>>
  BY DEF Init
<1>3. Ordered
  BY <1>2 DEF Ordered
<1>4. Collected
  <2>1. DOMAIN calls = {} /\ SubSeq(lines, 1, read) = <<>>
    BY <1>2
  <2>2. {i \in Indexes : CameIn("head", i, read)} = {}
    BY <1>2 DEF CameIn
  <2>3. content = Said(SubSeq(lines, 1, read))
    BY <1>2, <2>1, SaidEmpty
  <2> QED BY <1>2, <2>1, <2>2, <2>3 DEF Collected
<1>5. Shape /\ Spoken /\ Prompted
  BY <1>2 DEF Shape, Spoken, Prompted, Talking
<1>6. StreamWellFormed
  BY <1>2 DEF StreamWellFormed, FramesInOrder, MarkedEnd
<1>7. AnswerIsTheModels /\ CallsKept /\ NoneLeft /\ PromptReachesModel
  BY <1>2 DEF AnswerIsTheModels, Succeeded, CallsKept, NoneLeft, PromptReachesModel
<1>8. ResultsFollow(body)
  BY <1>2, FollowNone
<1> QED BY <1>1, <1>3, <1>4, <1>5, <1>6, <1>7, <1>8 DEF StreamInv

\* Every step keeps it.
LEMMA StreamKept == StreamInv /\ [Next]_vars => StreamInv'
<1> SUFFICES ASSUME StreamInv, [Next]_vars PROVE StreamInv'
  OBVIOUS
<1>1. TypeOK /\ Ordered /\ Collected /\ Shape /\ Spoken /\ Prompted
  BY DEF StreamInv
<1>2. StreamWellFormed /\ AnswerIsTheModels /\ CallsKept /\ NoneLeft /\ PromptReachesModel
      /\ ResultsFollow(body)
  BY DEF StreamInv
<1>3. TypeOK'
  BY <1>1, TypeStep
<1>4. Ordered' /\ Collected'
  BY <1>1, OrderedStep, CollectedStep
<1>5. Shape' /\ StreamWellFormed'
  BY <1>1, <1>2, <1>3, StreamStep
<1>6. Spoken' /\ Prompted'
  BY <1>1, SpokenStep, PromptedStep
<1>7. AnswerIsTheModels'
  BY <1>1, <1>2, AnswerStep
<1>8. CallsKept' /\ NoneLeft'
  <2>1. Sent
    <3> SUFFICES ASSUME pc = "streaming", tools PROVE messages \in Seq(MessageType)
      BY DEF Sent
    <3>1. PICK rest \in Seq(Turn) : messages = <<Prompt>> \o rest
      BY <1>1 DEF Prompted, Talking
    <3>2. rest \in Seq(MessageType) /\ Prompt \in MessageType
      BY <1>1, RequestTyped, SeqMonotonic DEF Turn, Uncalled
    <3> QED BY <3>1, <3>2
  <2> QED BY <1>1, <1>2, <2>1, CallsStep
<1>9. PromptReachesModel' /\ ResultsFollow(body')
  BY <1>1, <1>2, BodyStep
<1> QED BY <1>3, <1>4, <1>5, <1>6, <1>7, <1>8, <1>9 DEF StreamInv

\* The invariant of a request through the chat API holds throughout, for any
\* conversations, any tool calls and answers of any length.
THEOREM StreamInvariant == Spec => []StreamInv
  BY StreamInit, StreamKept, PTL DEF Spec

\* The frames a client sees are in order and, but for the two cases MarkedEnd
\* names, end with [DONE], whoever fails and whenever (handler.go and stream.go of
\* openaiapi, called from the providers' callbacks).
THEOREM StreamSafe == Spec => []StreamWellFormed
<1>1. StreamInv => StreamWellFormed
  BY DEF StreamInv
<1> QED BY <1>1, StreamInvariant, PTL

\* An answer given as complete is letter for letter the whole answer of the API,
\* for answers of any length, streamed, split by tokenize or as one body.
THEOREM AnswerSafe == Spec => []AnswerIsTheModels
<1>1. StreamInv => AnswerIsTheModels
  BY DEF StreamInv
<1> QED BY <1>1, StreamInvariant, PTL

\* However the deltas of the tool calls were interleaved, the loop runs them all,
\* in order and under their ids, and answers each in the next body (stream.go of
\* openai and anthropic, RunToolLoop).
THEOREM CallsSafe == Spec => []CallsSurvive
<1>1. StreamInv => CallsSurvive
  BY CallsSurviveParts DEF StreamInv
<1> QED BY <1>1, StreamInvariant, PTL

\* Every call to the API carries the server's prompt, the client's system messages
\* and all user and assistant messages in their order (ConvertMessages,
\* toOpenAIMessages, toAnthropicMessages), for conversations of any length.
THEOREM PromptSafe == Spec => []PromptReachesModel
<1>1. StreamInv => PromptReachesModel
  BY DEF StreamInv
<1> QED BY <1>1, StreamInvariant, PTL

---------------------------------------------------------------------------
(***************************************************************************)
(* The batch coordinator.  Its results are counted through flattening and  *)
(* ranking, which is why its proofs are kept with the lemmas above: both   *)
(* are shown to be bijections between places.                              *)
(***************************************************************************)

\* The batches: of every worker but the first few, which take one more, the
\* quotient of the documents by the workers.
Quotient == docs \div Least(agents, docs)
Remainder == docs % Least(agents, docs)
End(i) == i * Quotient + Least(i, Remainder)
Share(i) == (End(i - 1) + 1) .. End(i)

\* The quotient and the remainder of a division.
LEMMA Division ==
    ASSUME NEW d \in Nat, NEW n \in Nat \ {0}
    PROVE  d \div n \in Nat /\ d % n \in 0 .. n - 1 /\ d = n * (d \div n) + (d % n)
  OBVIOUS

\* As long as there are documents, there is a worker.
LEMMA WorkersDivide ==
    ASSUME NEW i \in Workers, docs \in Nat, agents \in Nat
    PROVE  /\ Least(agents, docs) \in Nat \ {0}
           /\ Quotient \in Nat /\ Remainder \in Nat /\ Remainder < Least(agents, docs)
           /\ docs = Least(agents, docs) * Quotient + Remainder
<1>1. Least(agents, docs) \in Nat \ {0}
  BY DEF Workers, Least
<1> DEFINE n == Least(agents, docs)
<1>2. n \in Nat \ {0}
  BY <1>1
<1> HIDE DEF n
<1>3. docs \div n \in Nat /\ docs % n \in 0 .. n - 1 /\ docs = n * (docs \div n) + (docs % n)
  BY <1>2, Division
<1>4. Quotient = docs \div n /\ Remainder = docs % n
  BY DEF n, Quotient, Remainder
<1>5. docs % n \in Nat /\ docs % n < n
  BY <1>2, <1>3
<1> QED BY <1>1, <1>3, <1>4, <1>5 DEF n

\* The ends of the batches do not decrease, and the last is the last document.
LEMMA Ends ==
    ASSUME NEW q \in Nat, NEW r \in Nat, NEW i \in Nat, NEW j \in Nat, i <= j
    PROVE  /\ i * q + Least(i, r) \in Nat
           /\ i * q + Least(i, r) <= j * q + Least(j, r)
<1>1. j - i \in Nat /\ (j - i) * q \in Nat /\ j * q = i * q + (j - i) * q /\ i * q \in Nat /\ j * q \in Nat
  OBVIOUS
<1>2. i * q <= j * q
  BY <1>1
<1>3. Least(i, r) \in Nat /\ Least(j, r) \in Nat /\ Least(i, r) <= Least(j, r)
  BY DEF Least
<1> DEFINE a == i * q
           b == j * q
<1>4. a \in Nat /\ b \in Nat /\ a <= b
  BY <1>1, <1>2
<1> HIDE DEF a, b
<1>5. a + Least(i, r) \in Nat /\ a + Least(i, r) <= b + Least(j, r)
  BY <1>3, <1>4
<1> QED BY <1>5 DEF a, b

\* One batch more.
LEMMA EndStep ==
    ASSUME NEW q \in Nat, NEW r \in Nat, NEW i \in Nat
    PROVE  i * q + Least(i, r) + (q + (IF i + 1 <= r THEN 1 ELSE 0)) = (i + 1) * q + Least(i + 1, r)
<1>1. (i + 1) * q = i * q + q /\ i * q \in Nat
  OBVIOUS
<1>2. Least(i + 1, r) = Least(i, r) + (IF i + 1 <= r THEN 1 ELSE 0)
  BY DEF Least
<1>3. Least(i, r) \in Nat
  BY DEF Least
<1> DEFINE a == i * q
           l == Least(i, r)
           e == IF i + 1 <= r THEN 1 ELSE 0
<1>4. a \in Nat /\ l \in Nat /\ e \in Nat
  BY <1>1, <1>3
<1>5. (i + 1) * q = a + q /\ Least(i + 1, r) = l + e
  BY <1>1, <1>2
<1> HIDE DEF a, l, e
<1>6. a + l + (q + e) = (a + q) + (l + e)
  BY <1>4
<1> QED BY <1>5, <1>6 DEF a, l, e

\* splitDocuments gives each worker its share.
LEMMA SplitIsShare ==
    ASSUME docs \in Nat, agents \in Nat, NEW w \in Workers
    PROVE  splitDocuments[w] = Share(w)
<1> DEFINE F(g) == [i \in Nat |-> IF i <= 1 THEN 0 ELSE g[i - 1] + BatchSize(i - 1)]
           c == CHOOSE g : g = F(g)
           g0 == [i \in Nat |-> IF i <= 1 THEN 0 ELSE End(i - 1)]
<1>1. Quotient \in Nat /\ Remainder \in Nat
  BY WorkersDivide
<1>2. \A i \in Nat : BatchSize(i) = Quotient + (IF i <= Remainder THEN 1 ELSE 0)
  BY DEF BatchSize, Quotient, Remainder
<1>3. \A i \in Nat : End(i) + BatchSize(i + 1) = End(i + 1)
  <2> SUFFICES ASSUME NEW i \in Nat PROVE End(i) + BatchSize(i + 1) = End(i + 1)
    OBVIOUS
  <2>1. i + 1 \in Nat
    OBVIOUS
  <2>2. BatchSize(i + 1) = Quotient + (IF i + 1 <= Remainder THEN 1 ELSE 0)
    BY <1>2, <2>1
  <2> DEFINE q == Quotient
             r == Remainder
  <2>3. q \in Nat /\ r \in Nat
    BY <1>1
  <2> HIDE DEF q, r
  <2>4. i * q + Least(i, r) + (q + (IF i + 1 <= r THEN 1 ELSE 0)) = (i + 1) * q + Least(i + 1, r)
    BY <2>3, EndStep
  <2> QED BY <2>2, <2>4 DEF End, q, r
<1>4. End(0) = 0
  BY <1>1 DEF End, Least
<1>5. g0 = F(g0)
  <2> SUFFICES ASSUME NEW i \in Nat PROVE g0[i] = F(g0)[i]
    OBVIOUS
  <2>1. CASE i <= 1
    BY <2>1
  <2>2. CASE i = 2
    <3>1. g0[i] = End(1) /\ F(g0)[i] = 0 + BatchSize(1)
      BY <2>2
    <3>2. End(0) + BatchSize(0 + 1) = End(0 + 1)
      BY <1>3
    <3> QED BY <3>1, <3>2, <1>4
  <2>3. CASE i > 2
    <3>1. g0[i] = End(i - 1) /\ g0[i - 1] = End(i - 2) /\ i - 2 \in Nat
      <4>1. i - 1 \in Nat /\ ~ (i - 1 <= 1) /\ ~ (i <= 1) /\ (i - 1) - 1 = i - 2 /\ i - 2 \in Nat
        BY <2>3
      <4> QED BY <4>1
    <3>2. F(g0)[i] = g0[i - 1] + BatchSize(i - 1)
      BY <2>3
    <3>3. End(i - 2) + BatchSize((i - 2) + 1) = End((i - 2) + 1)
      BY <1>3, <3>1
    <3>4. (i - 2) + 1 = i - 1
      OBVIOUS
    <3> HIDE DEF F, g0
    <3> QED BY <3>1, <3>2, <3>3, <3>4
  <2> QED BY <2>1, <2>2, <2>3
<1>6. c = F(c)
  <2> HIDE DEF F, g0
  <2> QED BY <1>5, Zenon
<1>7. splitDocuments[w] = (c[w] + 1) .. (c[w] + BatchSize(w))
  BY DEF splitDocuments, Workers
<1>8. \A i \in Nat : c[i] = IF i <= 1 THEN 0 ELSE c[i - 1] + BatchSize(i - 1)
  <2> HIDE DEF c
  <2> SUFFICES ASSUME NEW i \in Nat PROVE c[i] = IF i <= 1 THEN 0 ELSE c[i - 1] + BatchSize(i - 1)
    OBVIOUS
  <2>1. c[i] = F(c)[i]
    BY <1>6, Zenon
  <2> QED BY <2>1
<1> HIDE DEF c
<1> DEFINE T == {k \in Nat : c[k + 1] = End(k)}
<1>9. \A k \in Nat : k \in T
  <2>1. 0 \in T
    <3>1. c[1] = 0
      BY <1>8
    <3> QED BY <3>1, <1>4
  <2>2. ASSUME NEW k \in Nat, k \in T PROVE k + 1 \in T
    <3>1. c[(k + 1) + 1] = c[k + 1] + BatchSize(k + 1)
      <4>1. (k + 1) + 1 \in Nat /\ ~ ((k + 1) + 1 <= 1) /\ ((k + 1) + 1) - 1 = k + 1
        OBVIOUS
      <4>2. c[(k + 1) + 1] = c[((k + 1) + 1) - 1] + BatchSize(((k + 1) + 1) - 1)
        BY <1>8, <4>1, Zenon
      <4> QED BY <4>1, <4>2
    <3> QED BY <1>3, <2>2, <3>1
  <2> HIDE DEF T
  <2> QED BY <2>1, <2>2, NatInd
<1>10. w \in Nat /\ w - 1 \in Nat /\ (w - 1) + 1 = w
  BY DEF Workers
<1>11. c[w] = End(w - 1)
  <2>1. c[(w - 1) + 1] = End(w - 1)
    BY <1>9, <1>10
  <2> QED BY <1>10, <2>1
<1>12. End(w - 1) + BatchSize(w) = End(w)
  <2>1. End(w - 1) + BatchSize((w - 1) + 1) = End((w - 1) + 1)
    BY <1>3, <1>10
  <2> QED BY <1>10, <2>1
<1> QED BY <1>7, <1>11, <1>12 DEF Share

\* The shares of the workers: each document is in one of them, none in two, and
\* their sizes differ by one at most.
LEMMA SharesPartition ==
    ASSUME docs \in Nat, agents \in Nat \ {0}
    PROVE  /\ UNION {Share(i) : i \in Workers} = Doc
           /\ \A i, j \in Workers : i # j =>
                 /\ Share(i) \cap Share(j) = {}
                 /\ Cardinality(Share(i)) <= Cardinality(Share(j)) + 1
<1> DEFINE n == Least(agents, docs)
<1>1. n \in Nat /\ Workers = 1 .. n
  BY DEF Workers, Least
<1>2. CASE n = 0
  <2>1. docs = 0 /\ Workers = {}
    BY <1>1, <1>2 DEF Least
  <2> QED BY <2>1 DEF Doc
<1>3. CASE n # 0
  <2>1. 1 \in Workers
    BY <1>1, <1>3
  <2>2. /\ Quotient \in Nat /\ Remainder \in Nat /\ Remainder < n
        /\ docs = n * Quotient + Remainder
    BY <2>1, WorkersDivide
  <2> HIDE DEF n
  <2>3. \A i, j \in Nat : i <= j => End(i) \in Nat /\ End(i) <= End(j)
    BY <2>2, Ends DEF End
  <2>4. End(0) = 0 /\ End(n) = docs
    <3>1. Least(0, Remainder) = 0 /\ Least(n, Remainder) = Remainder
      BY <1>1, <2>2 DEF Least
    <3>2. 0 * Quotient = 0
      BY <2>2
    <3> QED BY <2>2, <3>1, <3>2 DEF End
  <2>5. \A i \in Nat : End(i) \in Nat
    BY <2>3
  <2>6. ASSUME NEW i \in Workers
        PROVE  i \in Nat /\ i - 1 \in Nat /\ i <= n /\ (i - 1) + 1 = i /\ i - 1 <= i
    BY <1>1
  <2>7. \A i \in Workers : Share(i) \subseteq Doc
    <3> SUFFICES ASSUME NEW i \in Workers, NEW d \in Share(i) PROVE d \in Doc
      OBVIOUS
    <3>1. End(i - 1) \in Nat /\ End(i) \in Nat /\ End(i) <= End(n)
      BY <1>1, <2>3, <2>5, <2>6
    <3> QED BY <2>4, <3>1 DEF Share, Doc
  <2>8. \A d \in Doc : \E i \in Workers : d \in Share(i)
    <3> SUFFICES ASSUME NEW d \in Doc PROVE \E i \in Workers : d \in Share(i)
      OBVIOUS
    <3> DEFINE T == {k \in Nat : d <= End(k)}
    <3>1. n \in T
      BY <1>1, <2>4 DEF Doc
    <3>2. PICK k \in T : \A l \in T : k <= l
      <4>1. T \subseteq Nat /\ T # {}
        BY <3>1
      <4> HIDE DEF T
      <4> QED BY <4>1, NatMin
    <3>3. d \in Nat /\ d >= 1
      BY DEF Doc
    <3>4. k \in Nat /\ k # 0 /\ k <= n /\ d <= End(k)
      BY <2>4, <3>1, <3>2, <3>3
    <3>5. k - 1 \in Nat /\ ~ (k <= k - 1)
      BY <3>4
    <3>6. ~ (d <= End(k - 1))
      BY <3>2, <3>5
    <3>7. k \in Workers
      BY <1>1, <3>4
    <3>8. End(k) \in Nat /\ End(k - 1) \in Nat
      BY <2>5, <3>4, <3>5
    <3>9. d \in Share(k)
      BY <3>3, <3>4, <3>6, <3>8 DEF Share
    <3> QED BY <3>7, <3>9
  <2>9. ASSUME NEW i \in Workers, NEW j \in Workers, i < j PROVE Share(i) \cap Share(j) = {}
    <3>1. End(i) <= End(j - 1) /\ End(i) \in Nat /\ End(i - 1) \in Nat /\ End(j) \in Nat /\ End(j - 1) \in Nat
      <4>1. i <= j - 1
        BY <1>1, <2>9
      <4> QED BY <2>3, <2>5, <2>6, <4>1
    <3> QED BY <3>1 DEF Share
  <2>10. ASSUME NEW i \in Workers PROVE Cardinality(Share(i)) \in {Quotient, Quotient + 1}
    <3>1. End(i) = End(i - 1) + (Quotient + (IF (i - 1) + 1 <= Remainder THEN 1 ELSE 0))
      <4>0. i - 1 \in Nat /\ (i - 1) + 1 = i
        BY <2>6
      <4> DEFINE k == i - 1
                 q == Quotient
                 r == Remainder
      <4>1. k \in Nat /\ k + 1 = i /\ q \in Nat /\ r \in Nat
        BY <2>2, <4>0
      <4> HIDE DEF k, q, r
      <4>2. k * q + Least(k, r) + (q + (IF k + 1 <= r THEN 1 ELSE 0)) = (k + 1) * q + Least(k + 1, r)
        BY <4>1, EndStep
      <4> QED BY <4>1, <4>2 DEF End, k, q, r
    <3>2. End(i - 1) \in Nat /\ End(i) \in Nat
      BY <2>5, <2>6
    <3> DEFINE a == End(i - 1)
               b == End(i)
    <3>3. a \in Nat /\ b \in Nat /\ b - a \in {Quotient, Quotient + 1}
      BY <2>2, <3>1, <3>2
    <3> HIDE DEF a, b
    <3>4. Cardinality((a + 1) .. b) = IF a + 1 > b THEN 0 ELSE b - (a + 1) + 1
      <4>1. a + 1 \in Int /\ b \in Int
        BY <3>3
      <4> QED BY <4>1, FS_Interval
    <3>5. Cardinality((a + 1) .. b) = b - a
      BY <2>2, <3>3, <3>4
    <3> QED BY <3>3, <3>5 DEF Share, a, b
  <2>11. ASSUME NEW i \in Workers, NEW j \in Workers, i # j
         PROVE  /\ Share(i) \cap Share(j) = {}
                /\ Cardinality(Share(i)) <= Cardinality(Share(j)) + 1
    <3>1. i < j \/ j < i
      BY <2>11, <2>6
    <3>2. Share(i) \cap Share(j) = {}
      BY <2>9, <3>1
    <3>3. Cardinality(Share(i)) \in {Quotient, Quotient + 1}
          /\ Cardinality(Share(j)) \in {Quotient, Quotient + 1}
      BY <2>10
    <3> DEFINE x == Cardinality(Share(i))
               y == Cardinality(Share(j))
    <3>4. x \in {Quotient, Quotient + 1} /\ y \in {Quotient, Quotient + 1}
      BY <3>3
    <3> HIDE DEF x, y
    <3>5. x <= y + 1
      BY <2>2, <3>4
    <3> QED BY <3>2, <3>5 DEF x, y
  <2>12. UNION {Share(i) : i \in Workers} = Doc
    BY <2>7, <2>8
  <2> QED BY <2>11, <2>12
<1> QED BY <1>2, <1>3

\* What a worker's answer holds.
LEMMA TextRows ==
    ASSUME NEW a \in AgentAnswer
    PROVE  TextOf(a) \in AnswerText /\ TextOf(a).rows \in Seq(Candidate)
<1>1. \A t \in AnswerText : t.rows \in Seq(Candidate)
  <2> SUFFICES ASSUME NEW t \in AnswerText PROVE t.rows \in Seq(Candidate)
    OBVIOUS
  <2>1. CASE t.rows \in SeqOf(Candidate, MaxResults)
    <3>1. PICK m \in 0 .. MaxResults : t.rows \in [1 .. m -> Candidate]
      BY <2>1 DEF SeqOf
    <3>2. m \in Nat
      BY SizesAssumption
    <3> QED BY <3>1, <3>2, FcnIsSeq
  <2>2. CASE \E c \in Candidate : t.rows = <<c>>
    <3>1. PICK c \in Candidate : t.rows = <<c>>
      BY <2>2
    <3> QED BY <3>1
  <2>3. CASE t.rows = <<>>
    BY <2>3
  <2> QED BY <2>1, <2>2, <2>3 DEF AnswerText
<1>2. a.status \in AnswerText
  <2>1. Empty \in AnswerText
    BY DEF Empty, AnswerText
  <2> QED BY <2>1 DEF AgentAnswer
<1>3. \A k \in DOMAIN a.artifacts : a.artifacts[k] \in AnswerText
  <2>1. Empty \in AnswerText
    BY DEF Empty, AnswerText
  <2>2. CASE a.artifacts = <<>>
    BY <2>2
  <2>3. CASE \E t \in AnswerText : a.artifacts = <<Empty, t>>
    <3>1. PICK t \in AnswerText : a.artifacts = <<Empty, t>>
      BY <2>3
    <3> QED BY <2>1, <3>1
  <2> QED BY <2>2, <2>3 DEF AgentAnswer
<1> DEFINE filled == {k \in DOMAIN a.artifacts : a.artifacts[k] # Empty}
<1>4. filled # {} => Min(filled) \in filled
  <2> SUFFICES ASSUME filled # {} PROVE Min(filled) \in filled
    OBVIOUS
  <2>1. filled \subseteq Nat
    BY DEF AgentAnswer
  <2> HIDE DEF filled
  <2>2. \E x \in filled : \A y \in filled : x <= y
    BY <2>1, NatMin
  <2> QED BY <2>2 DEF Min
<1>5. filled # {} => a.artifacts[Min(filled)] \in AnswerText
  BY <1>3, <1>4
<1>6. [json |-> "none", rows |-> <<>>] \in AnswerText
  BY DEF AnswerText
<1>7. a.type \in {"message", "failed", "task"}
  BY DEF AgentAnswer
<1> HIDE DEF filled
<1>8. TextOf(a) \in AnswerText
  <2>1. CASE a.type = "message"
    BY <1>2, <2>1 DEF TextOf
  <2>2. CASE a.type = "failed"
    BY <1>2, <1>6, <2>2 DEF TextOf
  <2>3. CASE a.type = "task"
    BY <1>2, <1>5, <2>3 DEF TextOf, filled
  <2> QED BY <1>7, <2>1, <2>2, <2>3
<1> QED BY <1>1, <1>8

\* The members of a set that a bijection takes to those of another are as many.
LEMMA SameNumber ==
    ASSUME NEW A, NEW B, IsFiniteSet(A), NEW f \in Bijection(A, B),
           NEW U \in SUBSET A, NEW V \in SUBSET B, \A a \in A : a \in U <=> f[a] \in V
    PROVE  Cardinality(U) = Cardinality(V)
<1> DEFINE g == [a \in U |-> f[a]]
<1>1. f \in [A -> B] /\ (\A a, b \in A : f[a] = f[b] => a = b) /\ \A y \in B : \E a \in A : f[a] = y
  BY DEF Bijection, Injection, Surjection, IsInjective
<1>2. g \in [U -> V]
  BY <1>1
<1>3. \A a, b \in U : g[a] = g[b] => a = b
  BY <1>1
<1>4. \A y \in V : \E a \in U : g[a] = y
  BY <1>1
<1> HIDE DEF g
<1>5. g \in Bijection(U, V)
  BY <1>2, <1>3, <1>4 DEF Bijection, Injection, Surjection, IsInjective
<1>6. ExistsBijection(U, V)
  BY <1>5 DEF ExistsBijection
<1>7. IsFiniteSet(U)
  BY FS_Subset
<1> QED BY <1>6, <1>7, FS_Bijection

\* The places of the elements in a sequence of sequences.
Spots(ss) == UNION {{i} \X DOMAIN ss[i] : i \in DOMAIN ss}

\* b takes the places in a flattened sequence to those the elements came from.
Unflattens(b, ss) ==
    /\ b \in Bijection(DOMAIN FlattenSeq(ss), Spots(ss))
    /\ \A j \in DOMAIN FlattenSeq(ss) : FlattenSeq(ss)[j] = ss[b[j][1]][b[j][2]]

\* Flattening moves the elements, and neither loses nor repeats one.
LEMMA FlattenPlaces ==
    ASSUME NEW S, NEW ss \in Seq(Seq(S))
    PROVE  \E b : Unflattens(b, ss)
<1> DEFINE T == {u \in Seq(Seq(S)) : \E b : Unflattens(b, u)}
<1>1. <<>> \in T
  <2> DEFINE e == <<>>
  <2>1. e \in Seq(Seq(S)) /\ DOMAIN e = {} /\ FlattenSeq(e) = e
    BY FlattenEmpty
  <2> HIDE DEF e
  <2>2. Spots(e) = {}
    BY <2>1 DEF Spots
  <2>3. e \in [{} -> {}]
    <3>1. e = [i \in {} |-> {}]
      BY DEF e
    <3> QED BY <3>1
  <2>4. e \in Bijection({}, {})
    BY <2>1, <2>3 DEF Bijection, Injection, Surjection, IsInjective
  <2>5. Unflattens(e, e)
    BY <2>1, <2>2, <2>4 DEF Unflattens
  <2> QED BY <2>1, <2>5 DEF e
<1>2. ASSUME NEW u \in Seq(Seq(S)), NEW x \in Seq(S), u \in T PROVE Append(u, x) \in T
  <2> DEFINE v == Append(u, x)
             n == Len(u) + 1
             F == FlattenSeq(u)
             G == FlattenSeq(v)
  <2>1. PICK b : Unflattens(b, u)
    BY <1>2
  <2>2. /\ v \in Seq(Seq(S)) /\ DOMAIN v = 1 .. n /\ DOMAIN u = 1 .. n - 1 /\ n \in Nat /\ n >= 1
        /\ v[n] = x /\ \A i \in 1 .. n - 1 : v[i] = u[i]
    OBVIOUS
  <2>3. F \in Seq(S) /\ G = F \o x
    BY FlattenType, FlattenAppend
  <2> HIDE DEF v, n, F, G
  <2> DEFINE l == Len(F)
             m == Len(x)
  <2>4. /\ l \in Nat /\ m \in Nat /\ DOMAIN F = 1 .. l /\ DOMAIN x = 1 .. m /\ DOMAIN G = 1 .. l + m
        /\ \A j \in 1 .. l : G[j] = F[j]
        /\ \A j \in l + 1 .. l + m : G[j] = x[j - l]
    BY <2>3
  <2> HIDE DEF l, m
  <2>5. /\ b \in [1 .. l -> Spots(u)]
        /\ \A j, k \in 1 .. l : b[j] = b[k] => j = k
        /\ \A y \in Spots(u) : \E j \in 1 .. l : b[j] = y
        /\ \A j \in 1 .. l : F[j] = u[b[j][1]][b[j][2]]
    BY <2>1, <2>4 DEF Unflattens, Bijection, Injection, Surjection, IsInjective, F
  <2>6. \A y : y \in Spots(v) <=> y \in Spots(u) \/ y \in {n} \X (1 .. m)
    <3>1. \A y : y \in Spots(v) <=> \E i \in 1 .. n : y \in {i} \X DOMAIN v[i]
      BY <2>2 DEF Spots
    <3>2. \A y : y \in Spots(u) <=> \E i \in 1 .. n - 1 : y \in {i} \X DOMAIN v[i]
      BY <2>2 DEF Spots
    <3>3. \A i : i \in 1 .. n <=> i = n \/ i \in 1 .. n - 1
      BY <2>2
    <3>4. DOMAIN v[n] = 1 .. m
      BY <2>2, <2>4
    <3> QED BY <3>1, <3>2, <3>3, <3>4, Zenon
  <2>7. \A y \in Spots(u) : y = <<y[1], y[2]>> /\ y[1] \in 1 .. n - 1
    <3> SUFFICES ASSUME NEW y \in Spots(u) PROVE y = <<y[1], y[2]>> /\ y[1] \in 1 .. n - 1
      OBVIOUS
    <3>1. PICK i \in 1 .. n - 1 : y \in {i} \X DOMAIN u[i]
      BY <2>2 DEF Spots
    <3> QED BY <3>1
  <2> DEFINE c == [j \in 1 .. l + m |-> IF j <= l THEN b[j] ELSE <<n, j - l>>]
  <2>8. /\ \A j \in 1 .. l : c[j] = b[j]
        /\ \A j \in l + 1 .. l + m : c[j] = <<n, j - l>> /\ j - l \in 1 .. m
    BY <2>4
  <2>9. \A j : j \in 1 .. l + m <=> j \in 1 .. l \/ j \in l + 1 .. l + m
    BY <2>4
  <2>10. c \in [1 .. l + m -> Spots(v)]
    <3>1. \A j \in 1 .. l + m : c[j] \in Spots(v)
      <4> SUFFICES ASSUME NEW j \in 1 .. l + m PROVE c[j] \in Spots(v)
        OBVIOUS
      <4> HIDE DEF c
      <4>1. CASE j \in 1 .. l
        BY <2>5, <2>6, <2>8, <4>1
      <4>2. CASE j \in l + 1 .. l + m
        <5>0. \A k \in 1 .. m : <<n, k>> \in {n} \X (1 .. m)
          OBVIOUS
        <5>1. c[j] \in {n} \X (1 .. m)
          BY <2>8, <4>2, <5>0
        <5> QED BY <2>6, <5>1
      <4> QED BY <2>9, <4>1, <4>2
    <3> QED BY <3>1
  <2> HIDE DEF c
  <2>11. ASSUME NEW j \in 1 .. l + m, NEW k \in 1 .. l + m, c[j] = c[k] PROVE j = k
    <3>1. CASE j \in 1 .. l /\ k \in 1 .. l
      BY <2>5, <2>8, <2>11, <3>1
    <3>2. CASE j \in l + 1 .. l + m /\ k \in l + 1 .. l + m
      <4>1. j - l = k - l
        BY <2>8, <2>11, <3>2
      <4> QED BY <2>4, <4>1
    <3>3. ASSUME NEW i \in 1 .. l, NEW h \in l + 1 .. l + m PROVE c[i] # c[h]
      <4>1. c[i] \in Spots(u) /\ c[h] = <<n, h - l>>
        BY <2>5, <2>8
      <4>2. c[i][1] # n
        BY <2>2, <2>7, <4>1
      <4> QED BY <4>1, <4>2
    <3> QED BY <2>9, <2>11, <3>1, <3>2, <3>3
  <2>12. ASSUME NEW y \in Spots(v) PROVE \E j \in 1 .. l + m : c[j] = y
    <3>1. CASE y \in Spots(u)
      <4>1. PICK j \in 1 .. l : b[j] = y
        BY <2>5, <3>1
      <4> QED BY <2>8, <2>9, <4>1
    <3>2. CASE y \in {n} \X (1 .. m)
      <4>1. PICK k \in 1 .. m : y = <<n, k>>
        BY <3>2
      <4>2. l + k \in l + 1 .. l + m /\ (l + k) - l = k
        BY <2>4
      <4>3. c[l + k] = <<n, k>>
        BY <2>8, <4>2
      <4> QED BY <2>9, <4>1, <4>2, <4>3
    <3> QED BY <2>6, <3>1, <3>2
  <2>13. ASSUME NEW j \in 1 .. l + m PROVE G[j] = v[c[j][1]][c[j][2]]
    <3>1. CASE j \in 1 .. l
      <4>1. G[j] = u[b[j][1]][b[j][2]] /\ c[j] = b[j] /\ b[j] \in Spots(u)
        BY <2>4, <2>5, <2>8, <3>1
      <4>2. v[b[j][1]] = u[b[j][1]]
        BY <2>2, <2>7, <4>1
      <4> QED BY <4>1, <4>2
    <3>2. CASE j \in l + 1 .. l + m
      <4>1. G[j] = x[j - l] /\ c[j] = <<n, j - l>>
        BY <2>4, <2>8, <3>2
      <4> QED BY <2>2, <4>1
    <3> QED BY <2>9, <3>1, <3>2
  <2>14. Unflattens(c, v)
    <3>1. c \in Bijection(DOMAIN G, Spots(v))
      BY <2>4, <2>10, <2>11, <2>12 DEF Bijection, Injection, Surjection, IsInjective
    <3> QED BY <2>4, <2>13, <3>1 DEF Unflattens, G
  <2> QED BY <2>2, <2>14 DEF v
<1>3. ss \in T
  <2> HIDE DEF T
  <2>1. \A u \in Seq(Seq(S)), x \in Seq(S) : u \in T => Append(u, x) \in T
    BY <1>2
  <2> QED BY <1>1, <2>1, SeqInd
<1> QED BY <1>3

\* A ranking permutes the rows, and orders them.
LEMMA RankedRows ==
    ASSUME NEW rows \in Seq(Candidate), NEW s \in Ranked(rows)
    PROVE  /\ s \in Seq(Candidate) /\ Len(s) = Len(rows) /\ DOMAIN s = DOMAIN rows
           /\ \E p \in Bijection(DOMAIN rows, DOMAIN rows) : \A k \in DOMAIN rows : s[k] = rows[p[k]]
           /\ \A j, k \in DOMAIN s : j < k => s[j].score >= s[k].score
<1> DEFINE D == DOMAIN rows
           n == Len(rows)
<1>1. PICK p \in [D -> D] : IsInjective(p) /\ s = [k \in D |-> rows[p[k]]]
  BY DEF Ranked
<1>2. \A k \in 1 .. n - 1 : s[k].score >= s[k + 1].score
  BY DEF Ranked
<1>3. D = 1 .. n /\ n \in Nat /\ \A k \in 1 .. n : rows[k] \in Candidate
  OBVIOUS
<1>4. p \in Injection(D, D)
  BY <1>1 DEF Injection
<1>5. IsFiniteSet(D)
  BY <1>3, FS_Interval
<1>6. p \in Bijection(D, D)
  <2> HIDE DEF D
  <2>1. p \in Surjection(D, D)
    BY <1>4, <1>5, FS_Injection
  <2> QED BY <1>4, <2>1 DEF Bijection
<1> HIDE DEF n
<1>7. s \in [1 .. n -> Candidate]
  BY <1>1, <1>3
<1>8. s \in Seq(Candidate) /\ Len(s) = n /\ DOMAIN s = 1 .. n
  BY <1>3, <1>7, FcnIsSeq
<1>9. ASSUME NEW j \in 1 .. n PROVE \A k \in 1 .. n : j < k => s[j].score >= s[k].score
  <2> DEFINE T == {d \in Nat : j + 1 + d \in 1 .. n => s[j].score >= s[j + 1 + d].score}
  <2>1. \A k \in 1 .. n : s[k].score \in Int
    BY <1>7, ScoresAssumption DEF Candidate
  <2>2. 0 \in T
    <3>1. ASSUME j + 1 \in 1 .. n PROVE s[j].score >= s[j + 1].score
      <4>1. j \in 1 .. n - 1
        BY <1>3, <3>1
      <4> QED BY <1>2, <4>1
    <3>2. j + 1 + 0 = j + 1
      BY <1>3
    <3> QED BY <3>1, <3>2
  <2>3. ASSUME NEW d \in Nat, d \in T PROVE d + 1 \in T
    <3> SUFFICES ASSUME j + 1 + (d + 1) \in 1 .. n
                 PROVE  s[j].score >= s[j + 1 + (d + 1)].score
      OBVIOUS
    <3> DEFINE k == j + 1 + d
    <3>1. k \in 1 .. n - 1 /\ k \in 1 .. n /\ k + 1 \in 1 .. n /\ j + 1 + (d + 1) = k + 1
      BY <1>3
    <3>2. s[j].score >= s[k].score
      BY <2>3, <3>1
    <3> HIDE DEF k
    <3>3. s[k].score >= s[k + 1].score
      BY <1>2, <3>1
    <3>4. s[j].score \in Int /\ s[k].score \in Int /\ s[k + 1].score \in Int
      BY <2>1, <3>1
    <3>5. \A x, y, z \in Int : x >= y /\ y >= z => x >= z
      OBVIOUS
    <3>6. s[j].score >= s[k + 1].score
      BY <3>2, <3>3, <3>4, <3>5, Zenon
    <3> QED BY <3>1, <3>6, Zenon
  <2>4. \A d \in Nat : d \in T
    <3> HIDE DEF T
    <3> QED BY <2>2, <2>3, NatInd
  <2> SUFFICES ASSUME NEW k \in 1 .. n, j < k PROVE s[j].score >= s[k].score
    OBVIOUS
  <2>5. k - j - 1 \in Nat /\ j + 1 + (k - j - 1) = k
    BY <1>3
  <2>6. k - j - 1 \in T
    BY <2>4, <2>5
  <2> QED BY <2>5, <2>6
<1>10. Len(s) = Len(rows) /\ DOMAIN s = DOMAIN rows
  BY <1>3, <1>8 DEF n
<1>11. \A k \in DOMAIN rows : s[k] = rows[p[k]]
  BY <1>1
<1>12. \A j, k \in DOMAIN s : j < k => s[j].score >= s[k].score
  BY <1>8, <1>9
<1> QED BY <1>6, <1>8, <1>10, <1>11, <1>12, Zenon

\* The slots of the workers hold what their agents answered.
Slots == results \in [Workers -> Seq(Candidate)] /\ answered = results

\* A worker has sent its share, once it is past the start.
Shares == \A i \in Workers : worker[i] # "start" => sent[i] = Share(i)

\* Nothing but the deadline cancels the context of the errgroup.
Private == (cancelled => deadline) /\ FailureIsPrivate

\* How a goroutine ends.
Finished == {"ok", "error", "cancelled"}

\* Once the goroutines are waited for, their slots are in the report.
Reported ==
    main # "wait" =>
        /\ \A i \in Workers : worker[i] \in Finished
        /\ report \in Ranked(Rows)
        /\ stats = [processed |-> Len(Rows), failed |-> Failed]

\* What is written is a top of the ranking, and nothing before there is one.
Written ==
    /\ OutputIsTop
    /\ main \in {"wait", "write"} => output = <<>>

\* The inductive invariant.
BatchInv == BatchTypeOK /\ Slots /\ Shares /\ Private /\ Reported /\ Written

\* What each worker adds to the rows.
Parts == [i \in Workers |-> IF worker[i] = "ok" THEN results[i] ELSE <<>>]

\* The rows of the workers that have an answer.
LEMMA RowsTyped ==
    ASSUME BatchTypeOK, Slots
    PROVE  /\ Parts \in Seq(Seq(Candidate)) /\ DOMAIN Parts = Workers
           /\ Rows = FlattenSeq(Parts) /\ Rows \in Seq(Candidate) /\ Len(Rows) \in Nat
<1>1. Least(agents, docs) \in Nat /\ Workers = 1 .. Least(agents, docs)
  BY DEF BatchTypeOK, Least, Workers
<1>2. Parts \in [Workers -> Seq(Candidate)]
  <2> SUFFICES ASSUME NEW i \in Workers
               PROVE  (IF worker[i] = "ok" THEN results[i] ELSE <<>>) \in Seq(Candidate)
    BY DEF Parts
  <2> QED BY DEF Slots
<1>3. Parts \in Seq(Seq(Candidate)) /\ DOMAIN Parts = Workers
  BY <1>1, <1>2, FcnIsSeq
<1>4. Rows = FlattenSeq(Parts)
  BY DEF Rows, Parts
<1>5. FlattenSeq(Parts) \in Seq(Candidate)
  BY <1>3, FlattenType
<1> QED BY <1>3, <1>4, <1>5

\* The rows depend on the workers and their slots.
LEMMA RowsSame ==
    ASSUME UNCHANGED <<docs, agents, worker, results>>
    PROVE  Workers' = Workers /\ Doc' = Doc /\ Rows' = Rows /\ Failed' = Failed
           /\ Ranked(Rows)' = Ranked(Rows) /\ \A i : Share(i)' = Share(i)
<1>1. Workers' = Workers /\ Doc' = Doc
  BY DEF Workers, Doc
<1>2. Parts' = Parts
  BY <1>1 DEF Parts
<1>3. Rows' = FlattenSeq(Parts') /\ Rows = FlattenSeq(Parts)
  BY DEF Rows, Parts
<1>4. Rows' = Rows
  BY <1>2, <1>3
<1>5. Failed' = Failed
  BY <1>4 DEF Failed
<1>6. \A i : Share(i)' = Share(i)
  BY DEF Share, End, Quotient, Remainder
<1>7. Ranked(Rows)' = Ranked(Rows)
  BY <1>4 DEF Ranked
<1> QED BY <1>1, <1>4, <1>5, <1>6, <1>7

\* The invariant holds at the start.
LEMMA BatchStarts == BatchInit => BatchInv
<1> SUFFICES ASSUME BatchInit PROVE BatchInv
  OBVIOUS
<1>1. BatchTypeOK
  <2>1. \A i \in Workers : results[i] \in Seq(Candidate) /\ answered[i] \in Seq(Candidate)
    BY DEF BatchInit
  <2>2. /\ report \in Seq(Candidate) /\ output \in Seq(Candidate)
        /\ stats \in [processed : Nat, failed : Int]
    BY DEF BatchInit, NoStats
  <2> QED BY <2>1, <2>2 DEF BatchInit, BatchTypeOK
<1>2. Slots
  <2>1. <<>> \in Seq(Candidate)
    OBVIOUS
  <2> QED BY <2>1 DEF BatchInit, Slots
<1>3. Shares /\ Private /\ Reported
  BY DEF BatchInit, Shares, Private, FailureIsPrivate, Reported
<1>4. Written
  <2>1. Len(output) <= Len(report) /\ DOMAIN output = {}
    BY DEF BatchInit
  <2> QED BY <2>1 DEF BatchInit, Written, OutputIsTop
<1> QED BY <1>1, <1>2, <1>3, <1>4 DEF BatchInv

\* A share is of documents.
LEMMA ShareOfDocs ==
    ASSUME BatchTypeOK, NEW i \in Workers
    PROVE  splitDocuments[i] = Share(i) /\ Share(i) \subseteq Doc
<1>1. docs \in Nat /\ agents \in Nat \ {0}
  BY SizesAssumption DEF BatchTypeOK
<1>2. splitDocuments[i] = Share(i)
  BY <1>1, SplitIsShare
<1>3. UNION {Share(j) : j \in Workers} = Doc
  BY <1>1, SharesPartition
<1> QED BY <1>2, <1>3

\* Every step keeps it.
LEMMA BatchKept == BatchInv /\ [BatchNext]_batchVars => BatchInv'
<1> SUFFICES ASSUME BatchInv, [BatchNext]_batchVars PROVE BatchInv'
  OBVIOUS
<1>0. BatchTypeOK /\ Slots /\ Shares /\ Private /\ Reported /\ Written
  BY DEF BatchInv
<1>1. ASSUME NEW i \in Workers, Worker(i) PROVE BatchInv'
  <2>1. worker[i] \notin Finished
    BY <1>1 DEF Worker, Invoke, AgentAnswers, InvokeFails, Cancelled, Finished
  <2>2. main = "wait"
    BY <1>0, <2>1 DEF Reported
  <2>3. UNCHANGED <<docs, agents, deadline, cancelled, main, report, output, stats>>
    BY <1>1 DEF Worker, Invoke, AgentAnswers, InvokeFails, Cancelled
  <2>4. Workers' = Workers /\ Doc' = Doc /\ \A j : Share(j)' = Share(j)
    BY <2>3 DEF Workers, Doc, Share, End, Quotient, Remainder
  <2>5. Reported' /\ Written'
    BY <1>0, <2>2, <2>3 DEF Reported, Written, OutputIsTop
  <2>6. splitDocuments[i] = Share(i) /\ Share(i) \subseteq Doc
    BY <1>0, ShareOfDocs
  <2>7. PICK st \in {"invoke", "ok", "error", "cancelled"} :
           worker' = [worker EXCEPT ![i] = st] /\ (st = "cancelled" => cancelled)
                                               /\ (worker[i] = "start" => st = "invoke")
    BY <1>1 DEF Worker, Invoke, AgentAnswers, InvokeFails, Cancelled
  <2>8. Private'
    <3>1. FailureIsPrivate'
      BY <1>0, <2>3, <2>4, <2>7 DEF Private, FailureIsPrivate, BatchTypeOK
    <3> QED BY <1>0, <2>3, <3>1 DEF Private
  <2>9. sent' \in [Workers -> SUBSET Doc] /\ Shares'
    <3>1. CASE Invoke(i)
      <4>1. sent' = [sent EXCEPT ![i] = Share(i)]
        BY <2>6, <3>1 DEF Invoke
      <4> QED BY <1>0, <2>4, <2>6, <2>7, <4>1 DEF BatchTypeOK, Shares
    <3>2. CASE ~ Invoke(i)
      <4>1. sent' = sent /\ worker[i] # "start"
        BY <1>1, <3>2 DEF Worker, AgentAnswers, InvokeFails, Cancelled
      <4> QED BY <1>0, <2>4, <2>7, <4>1 DEF BatchTypeOK, Shares
    <3> QED BY <3>1, <3>2
  <2>10. Slots'
    <3>1. CASE AgentAnswers(i)
      <4>1. PICK a \in AgentAnswer :
               /\ results' = [results EXCEPT ![i] = TextOf(a).rows]
               /\ answered' = [answered EXCEPT ![i] = TextOf(a).rows]
        BY <3>1 DEF AgentAnswers
      <4> DEFINE rows == TextOf(a).rows
      <4>2. rows \in Seq(Candidate)
        BY TextRows
      <4>3. results' = [results EXCEPT ![i] = rows] /\ answered' = results'
        BY <1>0, <4>1 DEF Slots
      <4> HIDE DEF rows
      <4>4. results' \in [Workers -> Seq(Candidate)]
        BY <1>0, <4>2, <4>3 DEF Slots
      <4> QED BY <2>4, <4>3, <4>4 DEF Slots, Candidate
    <3>2. CASE ~ AgentAnswers(i)
      <4>1. results' = results /\ answered' = answered
        BY <1>1, <3>2 DEF Worker, Invoke, InvokeFails, Cancelled
      <4> QED BY <1>0, <2>4, <4>1 DEF Slots, Candidate
    <3> QED BY <3>1, <3>2
  <2>11. BatchTypeOK'
    <3>1. \A j \in Workers : results'[j] \in Seq(Candidate) /\ answered'[j] \in Seq(Candidate)
      BY <2>4, <2>10 DEF Slots, Candidate
    <3>2. worker' \in [Workers -> {"start", "invoke", "ok", "error", "cancelled"}]
      BY <1>0, <2>7 DEF BatchTypeOK
    <3> QED BY <1>0, <2>3, <2>4, <2>9, <3>1, <3>2 DEF BatchTypeOK, Candidate
  <2> QED BY <2>5, <2>8, <2>9, <2>10, <2>11 DEF BatchInv
<1>2. CASE Deadline
  <2>1. main = "wait" /\ main' = "wait" /\ deadline' = TRUE /\ cancelled' = TRUE
        /\ UNCHANGED <<docs, agents, worker, results, report, output, stats, sent, answered>>
    BY <1>2 DEF Deadline
  <2>2. Workers' = Workers /\ Doc' = Doc /\ \A j : Share(j)' = Share(j)
    BY <2>1, RowsSame
  <2>3. BatchTypeOK' /\ Slots'
    BY <1>0, <2>1, <2>2 DEF BatchTypeOK, Slots, Candidate
  <2>4. Shares' /\ Private' /\ Reported' /\ Written'
    BY <1>0, <2>1, <2>2 DEF Shares, Private, FailureIsPrivate, Reported, Written, OutputIsTop
  <2> QED BY <2>3, <2>4 DEF BatchInv
<1>3. CASE Collect
  <2>1. /\ \A i \in Workers : worker[i] \in Finished
        /\ report' \in Ranked(Rows) /\ stats' = [processed |-> Len(Rows), failed |-> Failed]
        /\ main = "wait" /\ main' \in {"write", "done"}
        /\ UNCHANGED <<docs, agents, worker, results, deadline, cancelled, output, sent, answered>>
    BY <1>3 DEF Collect, Finished
  <2>2. Workers' = Workers /\ Doc' = Doc /\ Rows' = Rows /\ Failed' = Failed
        /\ Ranked(Rows)' = Ranked(Rows) /\ \A j : Share(j)' = Share(j)
    BY <2>1, RowsSame
  <2>3. Rows \in Seq(Candidate) /\ Len(Rows) \in Nat
    BY <1>0, RowsTyped
  <2>4. report' \in Seq(Candidate)
    BY <2>1, <2>3, RankedRows
  <2>5. stats' \in [processed : Nat, failed : Int]
    BY <1>0, <2>1, <2>3 DEF BatchTypeOK, Failed
  <2>6. BatchTypeOK' /\ Slots'
    BY <1>0, <2>1, <2>2, <2>4, <2>5 DEF BatchTypeOK, Slots, Candidate
  <2>7. Shares' /\ Private'
    BY <1>0, <2>1, <2>2 DEF Shares, Private, FailureIsPrivate
  <2>8. Reported'
    BY <2>1, <2>2 DEF Reported
  <2>9. Written'
    <3>1. output = <<>> /\ output' = <<>>
      BY <1>0, <2>1 DEF Written
    <3>2. Len(output') = 0 /\ DOMAIN output' = {} /\ Len(report') \in Nat
      BY <2>4, <3>1
    <3> QED BY <3>1, <3>2 DEF Written, OutputIsTop
  <2> QED BY <2>6, <2>7, <2>8, <2>9 DEF BatchInv
<1>4. CASE Write
  <2>1. /\ main = "write" /\ main' \in {"done", "error"}
        /\ UNCHANGED <<docs, agents, worker, results, deadline, cancelled, report, stats, sent, answered>>
    BY <1>4 DEF Write
  <2>2. Workers' = Workers /\ Doc' = Doc /\ Rows' = Rows /\ Failed' = Failed
        /\ Ranked(Rows)' = Ranked(Rows) /\ \A j : Share(j)' = Share(j)
    BY <2>1, RowsSame
  <2>3. /\ output' \in Seq(Candidate) /\ Len(output') <= Len(report)
        /\ \A k \in DOMAIN output' : output'[k] = report[k]
    <3>1. report \in Seq(Candidate) /\ Len(report) \in Nat
      BY <1>0 DEF BatchTypeOK
    <3>2. CASE output' = report
      BY <3>1, <3>2
    <3>3. ASSUME NEW n \in 0 .. Len(report) - 1, output' = SubSeq(report, 1, n)
          PROVE  /\ output' \in Seq(Candidate) /\ Len(output') <= Len(report)
                 /\ \A k \in DOMAIN output' : output'[k] = report[k]
      <4>1. n \in Int /\ 1 \in Int /\ n <= Len(report) /\ n \in Nat
        BY <3>1
      <4>2. \A k \in 1 .. n : report[k] \in Candidate
        BY <3>1, <4>1
      <4>3. SubSeq(report, 1, n) \in Seq(Candidate)
            /\ Len(SubSeq(report, 1, n)) = n
            /\ \A k \in 1 .. n : SubSeq(report, 1, n)[k] = report[k]
        BY <3>1, <4>1, <4>2
      <4> HIDE DEF Candidate
      <4>4. DOMAIN output' = 1 .. n
        BY <3>3, <4>1, <4>3
      <4> QED BY <3>3, <4>1, <4>3, <4>4
    <3> QED BY <1>4, <3>2, <3>3 DEF Write
  <2>4. BatchTypeOK' /\ Slots'
    BY <1>0, <2>1, <2>2, <2>3 DEF BatchTypeOK, Slots, Candidate
  <2>5. Shares' /\ Private'
    BY <1>0, <2>1, <2>2 DEF Shares, Private, FailureIsPrivate
  <2>6. Reported' /\ Written'
    BY <1>0, <2>1, <2>2, <2>3 DEF Reported, Written, OutputIsTop
  <2> QED BY <2>4, <2>5, <2>6 DEF BatchInv
<1>5. CASE UNCHANGED batchVars
  <2>1. UNCHANGED <<docs, agents, worker, results, deadline, cancelled, main, report, output,
                    stats, sent, answered>>
    BY <1>5 DEF batchVars
  <2>2. Workers' = Workers /\ Doc' = Doc /\ Rows' = Rows /\ Failed' = Failed
        /\ Ranked(Rows)' = Ranked(Rows) /\ \A j : Share(j)' = Share(j)
    BY <2>1, RowsSame
  <2>3. BatchTypeOK' /\ Slots'
    BY <1>0, <2>1, <2>2 DEF BatchTypeOK, Slots, Candidate
  <2>4. Shares' /\ Private'
    BY <1>0, <2>1, <2>2 DEF Shares, Private, FailureIsPrivate
  <2>5. Reported' /\ Written'
    BY <1>0, <2>1, <2>2 DEF Reported, Written, OutputIsTop
  <2> QED BY <2>3, <2>4, <2>5 DEF BatchInv
<1> QED BY <1>1, <1>2, <1>3, <1>4, <1>5 DEF BatchNext, BatchEnded

\* Then every document was sent once.
LEMMA SentExactly == BatchInv => EveryDocumentSent
<1> SUFFICES ASSUME BatchInv, main # "wait"
             PROVE  /\ UNION {sent[i] : i \in Workers} = Doc
                    /\ \A i, j \in Workers : i # j =>
                          /\ sent[i] \cap sent[j] = {}
                          /\ Cardinality(sent[i]) <= Cardinality(sent[j]) + 1
  BY DEF EveryDocumentSent
<1>1. \A i \in Workers : sent[i] = Share(i)
  BY DEF BatchInv, Shares, Reported, Finished
<1>2. docs \in Nat /\ agents \in Nat \ {0}
  BY SizesAssumption DEF BatchInv, BatchTypeOK
<1>3. /\ UNION {Share(i) : i \in Workers} = Doc
      /\ \A i, j \in Workers : i # j =>
            /\ Share(i) \cap Share(j) = {}
            /\ Cardinality(Share(i)) <= Cardinality(Share(j)) + 1
  BY <1>2, SharesPartition
<1>4. UNION {sent[i] : i \in Workers} = UNION {Share(i) : i \in Workers}
  BY <1>1
<1> QED BY <1>1, <1>3, <1>4

\* And the report is exact: ranking and flattening only move the results.
LEMMA ReportExact == BatchInv => ReportIsExact
<1> SUFFICES ASSUME BatchInv, main # "wait" PROVE ReportIsExact
  BY DEF ReportIsExact, ReportHoldsResults, WarningIsRight, BatchInv, Written
<1>0. BatchTypeOK /\ Slots /\ report \in Ranked(Rows)
  BY DEF BatchInv, Reported
<1>1. /\ Parts \in Seq(Seq(Candidate)) /\ DOMAIN Parts = Workers
      /\ Rows = FlattenSeq(Parts) /\ Rows \in Seq(Candidate)
  BY <1>0, RowsTyped
<1>2. /\ report \in Seq(Candidate) /\ Len(report) = Len(Rows) /\ DOMAIN report = DOMAIN Rows
      /\ \A j, k \in DOMAIN report : j < k => report[j].score >= report[k].score
  BY <1>0, <1>1, RankedRows
<1>3. PICK p \in Bijection(DOMAIN Rows, DOMAIN Rows) : \A k \in DOMAIN Rows : report[k] = Rows[p[k]]
  BY <1>0, <1>1, RankedRows
<1>4. PICK b : Unflattens(b, Parts)
  BY <1>1, FlattenPlaces
<1>5. IsFiniteSet(DOMAIN Rows)
  <2>1. DOMAIN Rows = 1 .. Len(Rows) /\ 1 \in Int /\ Len(Rows) \in Int
    BY <1>1
  <2> QED BY <2>1, FS_Interval
<1>6. ASSUME NEW k \in DOMAIN Rows PROVE b[k] \in Spots(Parts) /\ Rows[k] = Parts[b[k][1]][b[k][2]]
  BY <1>1, <1>4 DEF Unflattens, Bijection, Injection
<1>7. ReportHoldsResults
  <2>1. ASSUME NEW c \in Candidate
        PROVE  Cardinality({k \in DOMAIN report : report[k] = c}) = Cardinality(Places(c))
    <3> DEFINE U == {k \in DOMAIN report : report[k] = c}
               V == {k \in DOMAIN Rows : Rows[k] = c}
               D == DOMAIN Rows
    <3>1. \A k \in D : k \in U <=> p[k] \in V
      BY <1>2, <1>3 DEF Bijection, Injection
    <3>2. U \in SUBSET D /\ V \in SUBSET D
      BY <1>2
    <3>3. Places(c) = {x \in Spots(Parts) : Parts[x[1]][x[2]] = c}
      <4>1. \A i \in Workers : DOMAIN Parts[i] = IF worker[i] = "ok" THEN DOMAIN answered[i] ELSE {}
        BY <1>0 DEF Parts, Slots
      <4>2. \A i \in Workers : worker[i] = "ok" => Parts[i] = answered[i]
        BY <1>0 DEF Parts, Slots
      <4>3. ASSUME NEW x \in Places(c) PROVE x \in Spots(Parts) /\ Parts[x[1]][x[2]] = c
        <5>0. PICK i \in Workers :
                 worker[i] = "ok" /\ x \in {i} \X {k \in DOMAIN answered[i] : answered[i][k] = c}
          BY DEF Places
        <5>1. PICK k \in DOMAIN answered[i] : answered[i][k] = c /\ x = <<i, k>>
          BY <5>0
        <5>2. k \in DOMAIN Parts[i] /\ Parts[i][k] = c
          BY <4>1, <4>2, <5>0, <5>1
        <5>3. x \in {i} \X DOMAIN Parts[i]
          BY <5>1, <5>2
        <5>4. x \in Spots(Parts)
          BY <1>1, <5>3 DEF Spots
        <5> QED BY <5>1, <5>2, <5>4
      <4>4. ASSUME NEW x \in Spots(Parts), Parts[x[1]][x[2]] = c PROVE x \in Places(c)
        <5>1. PICK i \in Workers : x \in {i} \X DOMAIN Parts[i]
          BY <1>1 DEF Spots
        <5>2. PICK k \in DOMAIN Parts[i] : x = <<i, k>>
          BY <5>1
        <5>3. worker[i] = "ok" /\ k \in DOMAIN answered[i] /\ answered[i][k] = c
          BY <4>1, <4>2, <4>4, <5>2
        <5>4. x \in {i} \X {l \in DOMAIN answered[i] : answered[i][l] = c}
          BY <5>2, <5>3
        <5> QED BY <5>3, <5>4 DEF Places
      <4> QED BY <4>3, <4>4
    <3>4. Places(c) \in SUBSET Spots(Parts) /\ \A k \in D : k \in V <=> b[k] \in Places(c)
      BY <1>6, <3>3
    <3>5. b \in Bijection(D, Spots(Parts)) /\ p \in Bijection(D, D) /\ IsFiniteSet(D)
      BY <1>1, <1>3, <1>4, <1>5 DEF Unflattens
    <3> HIDE DEF U, V, D
    <3>6. Cardinality(U) = Cardinality(V)
      BY <3>1, <3>2, <3>5, SameNumber
    <3>7. Cardinality(V) = Cardinality(Places(c))
      BY <3>2, <3>4, <3>5, SameNumber
    <3> QED BY <3>6, <3>7 DEF U
  <2> QED BY <1>2, <2>1 DEF ReportHoldsResults
<1>8. WarningIsRight
  <2> DEFINE I == {report[k].doc : k \in DOMAIN report}
             D == DOMAIN report
             f == [k \in D |-> report[k].doc]
  <2>1. D = 1 .. Len(report) /\ Len(report) \in Nat
    BY <1>2
  <2>2. IsFiniteSet(D) /\ Cardinality(D) = Len(report)
    <3>1. Len(report) \in Int /\ 1 \in Int
      BY <2>1
    <3>2. IsFiniteSet(1 .. Len(report))
          /\ Cardinality(1 .. Len(report)) = IF 1 > Len(report) THEN 0 ELSE Len(report) - 1 + 1
      BY <3>1, FS_Interval
    <3> QED BY <2>1, <3>2
  <2>3. docs \in Nat
    BY <1>0, SizesAssumption DEF BatchTypeOK
  <2>4. IsFiniteSet(Doc) /\ Cardinality(Doc) = docs
    <3>1. IsFiniteSet(1 .. docs) /\ Cardinality(1 .. docs) = IF 1 > docs THEN 0 ELSE docs - 1 + 1
      BY <2>3, FS_Interval
    <3> QED BY <2>3, <3>1 DEF Doc
  <2>5. f \in Surjection(D, I) /\ \A k \in D : f[k] = report[k].doc
    <3>1. f \in [D -> I] /\ (\A y \in I : \E k \in D : f[k] = y) /\ \A k \in D : f[k] = report[k].doc
      OBVIOUS
    <3> HIDE DEF f, D, I
    <3> QED BY <3>1 DEF Surjection
  <2>6. NamedDocs = Doc \cap I
    BY DEF NamedDocs
  <2>7. EachNamesOne <=> (\A k \in D : report[k].doc \in Doc) /\ (\A j, k \in D : f[j] = f[k] => j = k)
    BY <2>5 DEF EachNamesOne
  <2>8. (\A k \in D : report[k].doc \in Doc) <=> I \subseteq Doc
    OBVIOUS
  <2> HIDE DEF I, D, f
  <2>9. /\ IsFiniteSet(I) /\ Cardinality(I) <= Len(report)
        /\ Cardinality(I) = Len(report) <=> f \in Injection(D, I)
    BY <2>2, <2>5, FS_Surjection
  <2>10. f \in Injection(D, I) <=> \A j, k \in D : f[j] = f[k] => j = k
    BY <2>5 DEF Injection, IsInjective, Surjection
  <2>11. /\ Cardinality(Doc \cap I) <= Cardinality(I)
         /\ Cardinality(Doc \cap I) = Cardinality(I) <=> I \subseteq Doc
    <3>1. (Doc \cap I) \in SUBSET I
      OBVIOUS
    <3>2. /\ Cardinality(Doc \cap I) <= Cardinality(I)
          /\ Cardinality(I) = Cardinality(Doc \cap I) => I = Doc \cap I
      BY <2>9, <3>1, FS_Subset
    <3>3. I \subseteq Doc => Doc \cap I = I
      OBVIOUS
    <3>4. I = Doc \cap I => I \subseteq Doc
      OBVIOUS
    <3> QED BY <3>2, <3>3, <3>4
  <2>12. Cardinality(Doc \ (Doc \cap I)) = docs - Cardinality(Doc \cap I)
    <3>1. Cardinality(Doc \ (Doc \cap I)) = Cardinality(Doc) - Cardinality(Doc \cap (Doc \cap I))
      BY <2>4, FS_Difference
    <3>2. Doc \cap (Doc \cap I) = Doc \cap I
      OBVIOUS
    <3> QED BY <2>4, <3>1, <3>2
  <2>13. Cardinality(I) \in Nat /\ Cardinality(Doc \cap I) \in Nat
    <3>1. IsFiniteSet(Doc \cap I)
      BY <2>4, FS_Subset
    <3> QED BY <2>9, <3>1, FS_CardinalityType
  <2>14. stats.failed = docs - Len(report)
    BY <1>2 DEF BatchInv, Reported, Failed
  <2>15. EachNamesOne <=> Cardinality(Doc \cap I) = Len(report)
    <3>1. EachNamesOne <=> /\ Cardinality(Doc \cap I) = Cardinality(I)
                           /\ Cardinality(I) = Len(report)
      BY <2>7, <2>8, <2>9, <2>10, <2>11, Zenon
    <3> HIDE DEF EachNamesOne
    <3> QED BY <2>1, <2>9, <2>11, <2>13, <3>1
  <2>16. stats.failed <= Cardinality(Doc \ NamedDocs)
    BY <2>1, <2>3, <2>6, <2>9, <2>11, <2>12, <2>13, <2>14
  <2>17. stats.failed = Cardinality(Doc \ NamedDocs) <=> Cardinality(Doc \cap I) = Len(report)
    BY <2>1, <2>3, <2>6, <2>12, <2>13, <2>14
  <2> QED BY <2>15, <2>16, <2>17 DEF WarningIsRight
<1>9. OutputIsTop
  BY DEF BatchInv, Written
<1> QED BY <1>7, <1>8, <1>9 DEF ReportIsExact

\* The invariant of the batch coordinator holds throughout, for any number of
\* documents, agents and results.
THEOREM BatchInvariant == BatchSpec => []BatchInv
<1>1. BatchInit => BatchInv
  BY BatchStarts
<1>2. BatchInv /\ [BatchNext]_batchVars => BatchInv'
  BY BatchKept
<1> QED BY <1>1, <1>2, PTL DEF BatchSpec

\* Every document goes to exactly one agent and the shares differ by one document
\* at most (splitDocuments, batch.go:85-106), however many there are of either.
THEOREM SentSafe == BatchSpec => []EveryDocumentSent
<1>1. BatchSpec => []BatchInv
  BY BatchInvariant
<1>2. BatchInv => EveryDocumentSent
  BY SentExactly
<1> QED BY <1>1, <1>2, PTL

\* One agent's failure cancels no other call: only the deadline of the command does
\* (batch.go:143-151).
THEOREM PrivateSafe == BatchSpec => []FailureIsPrivate
<1>1. BatchSpec => []BatchInv
  BY BatchInvariant
<1>2. BatchInv => FailureIsPrivate
  BY DEF BatchInv, Private
<1> QED BY <1>1, <1>2, PTL

\* The ranking holds each result of each answer that could be parsed as often as
\* the answers do, best score first, what reaches the file is a top of it, whichever
\* flush fails, and the number of documents not processed is never too large, and
\* right just when the agents, who may answer anything, repeat and invent no document
\* (batch.go:54-83, 171-190, 303).
THEOREM ReportSafe == BatchSpec => []ReportIsExact
<1>1. BatchSpec => []BatchInv
  BY BatchInvariant
<1>2. BatchInv => ReportIsExact
  BY ReportExact
<1> QED BY <1>1, <1>2, PTL
=============================================================================
