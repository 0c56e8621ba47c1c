------------------------- MODULE InboundAuth_proofs -------------------------
(***************************************************************************)
(* Proofs about the inbound middleware and its JWKS cache, for any number  *)
(* of requests, kids and tokens, any policy and interval, and clocks and   *)
(* key rotations without bound.                                            *)
(*                                                                         *)
(* First the cache by itself.  None of its safety properties is inductive. *)
(* What makes them so is the bookkeeping of Inv: who refreshes, which      *)
(* channel the refresh owns, when it started, and from which epoch its     *)
(* answer comes.  All of it carries over to the middleware, because that   *)
(* drives the cache by steps of the cache's specification.                 *)
(***************************************************************************)
EXTENDS InboundAuth, TLAPS

---------------------------------------------------------------------------
(* The key cache *)

\* The goroutines between the two lock holds of a refresh.
Refreshing(c) == pc[c] \in {"fetch", "install"}

\* The goroutine that refreshes owns the newest channel; a waiter holds that
\* one or a closed one.
Channels ==
    /\ \A c \in Callers : Refreshing(c) => done[c] = refreshDone
    /\ \A c \in Callers : pc[c] = "wait" =>
          done[c] \in closed \/ (refreshing /\ done[c] = refreshDone)

\* The refreshes started so far fit before the last one.
Pace ==
    /\ lastFetch <= now
    /\ attempted => fetches > 0 /\ (fetches - 1) * MinRefreshInterval <= lastFetch
    /\ ~attempted => fetches = 0

\* Every set of keys in the process was published, no later than now.
Provenance ==
    /\ issuer.keys \subseteq published
    /\ keys \subseteq published
    /\ \A c \in Callers : fetched[c].keys \subseteq published

\* The answer in flight is at least as new as the cached set.
Epochs ==
    /\ keysEpoch <= issuer.epoch
    /\ \A c \in Callers : pc[c] = "install" /\ ~fetched[c].err =>
          keysEpoch <= fetched[c].epoch /\ fetched[c].epoch <= issuer.epoch

Inv == TypeOK /\ OneRefresh /\ Channels /\ Pace /\ Provenance /\ Epochs /\ FailsClosed

---------------------------------------------------------------------------

\* One interval more: the arithmetic of the rate limit.
LEMMA OneMoreInterval ==
    ASSUME NEW n \in Nat, n > 0, NEW m \in Nat, NEW t \in Nat, NEW u \in Nat,
           (n - 1) * m <= t, t + m <= u
    PROVE  n * m <= u
  <1>1. n * m = (n - 1) * m + m
    OBVIOUS
  <1>2. (n - 1) * m \in Nat
    OBVIOUS
  <1> QED
    BY <1>1, <1>2

\* A failed fetch, and a successful one, are fetch results.
LEMMA FetchTypes ==
    /\ NoFetch \in FetchResults
    /\ \A S \in SUBSET Kids, e \in Nat :
          [err |-> FALSE, keys |-> S, epoch |-> e] \in FetchResults
  BY DEF NoFetch, FetchResults

\* Every step of the cache keeps the type of every variable.
LEMMA TypeStep == TypeOK /\ [Next]_vars => TypeOK'
  <1> SUFFICES ASSUME TypeOK, [Next]_vars
               PROVE  TypeOK'
    OBVIOUS
  <1> USE FetchTypes DEF TypeOK, PCs, Verdicts, Return, Missing, cache, world
  <1>1. ASSUME NEW c \in Callers, Call(c)
        PROVE  TypeOK'
    BY <1>1 DEF Call
  <1>2. ASSUME NEW c \in Callers, CacheHit(c)
        PROVE  TypeOK'
    BY <1>2 DEF CacheHit
  <1>3. ASSUME NEW c \in Callers, RateLimited(c)
        PROVE  TypeOK'
    BY <1>3 DEF RateLimited
  <1>4. ASSUME NEW c \in Callers, JoinRefresh(c)
        PROVE  TypeOK'
    BY <1>4 DEF JoinRefresh
  <1>5. ASSUME NEW c \in Callers, Wake(c)
        PROVE  TypeOK'
    BY <1>5 DEF Wake
  <1>6. ASSUME NEW c \in Callers, WaitCancelled(c)
        PROVE  TypeOK'
    BY <1>6 DEF WaitCancelled
  <1>7. ASSUME NEW c \in Callers, Recheck(c)
        PROVE  TypeOK'
    BY <1>7 DEF Recheck
  <1>8. ASSUME NEW c \in Callers, StartRefresh(c)
        PROVE  TypeOK'
    BY <1>8 DEF StartRefresh
  <1>9. ASSUME NEW c \in Callers, FetchOK(c)
        PROVE  TypeOK'
    <2>1. issuer.keys \in SUBSET Kids /\ issuer.epoch \in Nat
      OBVIOUS
    <2> QED
      BY <1>9, <2>1 DEF FetchOK
  <1>10. ASSUME NEW c \in Callers, FetchFail(c)
         PROVE  TypeOK'
    BY <1>10 DEF FetchFail
  <1>11. ASSUME NEW c \in Callers, Install(c)
         PROVE  TypeOK'
    <2>1. fetched[c].err \in BOOLEAN /\ fetched[c].keys \in SUBSET Kids
            /\ fetched[c].epoch \in Nat
      BY DEF FetchResults
    <2> QED
      BY <1>11, <2>1 DEF Install
  <1>12. CASE Tick
    BY <1>12 DEF Tick
  <1>13. CASE Rotate
    BY <1>13 DEF Rotate
  <1>14. CASE UNCHANGED vars
    BY <1>14 DEF vars
  <1> QED
    BY <1>1, <1>2, <1>3, <1>4, <1>5, <1>6, <1>7, <1>8, <1>9, <1>10, <1>11,
       <1>12, <1>13, <1>14 DEF Next

\* The initial states are well typed.
LEMMA InitType == Init => TypeOK
  <1> SUFFICES ASSUME Init
               PROVE  TypeOK
    OBVIOUS
  <1>1. issuer \in [keys : SUBSET Kids, epoch : Nat] /\ issuer.keys \in SUBSET Kids
    BY DEF Init
  <1>2. fetched \in [Callers -> FetchResults]
    BY FetchTypes DEF Init
  <1> QED
    BY <1>1, <1>2 DEF Init, TypeOK, PCs, Verdicts

\* Type correctness of keySource, its callers and the issuer.
THEOREM TypeCorrect == Spec => []TypeOK
  BY InitType, TypeStep, PTL DEF Spec

\* Inv is inductive: each step of key(), of the clock and of the issuer keeps
\* the bookkeeping of the refresh.
LEMMA InvStep == Inv /\ [Next]_vars => Inv'
  <1> SUFFICES ASSUME Inv, [Next]_vars
               PROVE  Inv'
    OBVIOUS
  <1>t. TypeOK'
    BY TypeStep DEF Inv
  <1> USE <1>t, IntervalAssumption DEF Inv
  <1>1. ASSUME NEW c \in Callers, Call(c)
        PROVE  Inv'
    BY <1>1 DEF Call, NoFetch, OneRefresh, Channels, Refreshing, Pace, Provenance,
       Epochs, FailsClosed, TypeOK, PCs, cache, world
  <1>2. ASSUME NEW c \in Callers, CacheHit(c)
        PROVE  Inv'
    BY <1>2 DEF CacheHit, Return, NoFetch, OneRefresh, Channels, Refreshing, Pace, Provenance,
       Epochs, FailsClosed, TypeOK, PCs, cache, world
  <1>3. ASSUME NEW c \in Callers, RateLimited(c)
        PROVE  Inv'
    BY <1>3 DEF RateLimited, Return, NoFetch, Missing, OneRefresh, Channels, Refreshing, Pace, Provenance,
       Epochs, FailsClosed, TypeOK, PCs, cache, world
  <1>4. ASSUME NEW c \in Callers, JoinRefresh(c)
        PROVE  Inv'
    BY <1>4 DEF JoinRefresh, OneRefresh, Channels, Refreshing, Pace, Provenance,
       Epochs, FailsClosed, TypeOK, PCs, cache, world
  <1>5. ASSUME NEW c \in Callers, Wake(c)
        PROVE  Inv'
    BY <1>5 DEF Wake, OneRefresh, Channels, Refreshing, Pace, Provenance,
       Epochs, FailsClosed, TypeOK, PCs, cache, world
  <1>6. ASSUME NEW c \in Callers, WaitCancelled(c)
        PROVE  Inv'
    BY <1>6 DEF WaitCancelled, Return, NoFetch, OneRefresh, Channels, Refreshing, Pace, Provenance,
       Epochs, FailsClosed, TypeOK, PCs, cache, world
  <1>7. ASSUME NEW c \in Callers, Recheck(c)
        PROVE  Inv'
    BY <1>7 DEF Recheck, Return, NoFetch, Missing, OneRefresh, Channels, Refreshing, Pace, Provenance,
       Epochs, FailsClosed, TypeOK, PCs, cache, world
  <1>8. ASSUME NEW c \in Callers, StartRefresh(c)
        PROVE  Inv'
    <2>1. OneRefresh'
      BY <1>8 DEF StartRefresh, OneRefresh, TypeOK, PCs, cache, world
    <2>2. Channels'
      BY <1>8 DEF StartRefresh, Channels, Refreshing, OneRefresh, TypeOK, PCs, cache, world
    <2>3. Pace'
      <3>1. CASE attempted
        <4>1. fetches * MinRefreshInterval <= now
          BY <1>8, <3>1, OneMoreInterval
             DEF StartRefresh, WithinInterval, Pace, TypeOK
        <4> QED
          BY <1>8, <4>1 DEF StartRefresh, Pace, TypeOK, world
      <3>2. CASE ~attempted
        BY <1>8, <3>2 DEF StartRefresh, Pace, TypeOK, world
      <3> QED
        BY <3>1, <3>2 DEF TypeOK
    <2>4. Provenance'
      BY <1>8 DEF StartRefresh, Provenance, TypeOK, FetchResults, NoFetch, cache, world
    <2>5. Epochs'
      BY <1>8 DEF StartRefresh, Epochs, TypeOK, FetchResults, NoFetch, PCs, cache, world
    <2>6. FailsClosed'
      BY <1>8 DEF StartRefresh, FailsClosed, Provenance, TypeOK, Verdicts, cache, world
    <2> QED
      BY <2>1, <2>2, <2>3, <2>4, <2>5, <2>6
  <1>9. ASSUME NEW c \in Callers, FetchOK(c)
        PROVE  Inv'
    <2>1. OneRefresh'
      BY <1>9 DEF FetchOK, OneRefresh, TypeOK, PCs, cache, world
    <2>2. Channels'
      BY <1>9 DEF FetchOK, Channels, Refreshing, OneRefresh, TypeOK, PCs, cache, world
    <2>3. Pace'
      BY <1>9 DEF FetchOK, Pace, TypeOK, cache, world
    <2>4. Provenance'
      BY <1>9 DEF FetchOK, Provenance, TypeOK, FetchResults, NoFetch, cache, world
    <2>5. Epochs'
      BY <1>9 DEF FetchOK, Epochs, TypeOK, FetchResults, NoFetch, PCs, cache, world
    <2>6. FailsClosed'
      BY <1>9 DEF FetchOK, FailsClosed, Provenance, TypeOK, Verdicts, cache, world
    <2> QED
      BY <2>1, <2>2, <2>3, <2>4, <2>5, <2>6
  <1>10. ASSUME NEW c \in Callers, FetchFail(c)
        PROVE  Inv'
    <2>1. OneRefresh'
      BY <1>10 DEF FetchFail, OneRefresh, TypeOK, PCs, cache, world
    <2>2. Channels'
      BY <1>10 DEF FetchFail, Channels, Refreshing, OneRefresh, TypeOK, PCs, cache, world
    <2>3. Pace'
      BY <1>10 DEF FetchFail, Pace, TypeOK, cache, world
    <2>4. Provenance'
      BY <1>10 DEF FetchFail, Provenance, TypeOK, FetchResults, NoFetch, cache, world
    <2>5. Epochs'
      BY <1>10 DEF FetchFail, Epochs, TypeOK, FetchResults, NoFetch, PCs, cache, world
    <2>6. FailsClosed'
      BY <1>10 DEF FetchFail, FailsClosed, Provenance, TypeOK, Verdicts, cache, world
    <2> QED
      BY <2>1, <2>2, <2>3, <2>4, <2>5, <2>6
  <1>11. ASSUME NEW c \in Callers, Install(c)
        PROVE  Inv'
    <2>1. OneRefresh'
      BY <1>11 DEF Install, OneRefresh, TypeOK, PCs, Return, cache, world
    <2>2. Channels'
      BY <1>11 DEF Install, Channels, Refreshing, OneRefresh, TypeOK, PCs, Return, cache, world
    <2>3. Pace'
      BY <1>11 DEF Install, Pace, TypeOK, Return, cache, world
    <2>4. Provenance'
      BY <1>11 DEF Install, Provenance, TypeOK, FetchResults, NoFetch, Return, cache, world
    <2>5. Epochs'
      BY <1>11 DEF Install, Epochs, TypeOK, FetchResults, NoFetch, PCs, OneRefresh, Return, cache, world
    <2>6. FailsClosed'
      BY <1>11 DEF Install, FailsClosed, Provenance, TypeOK, Verdicts, Return, cache, world
    <2> QED
      BY <2>1, <2>2, <2>3, <2>4, <2>5, <2>6
  <1>12. CASE Tick
    <2>1. OneRefresh'
      BY <1>12 DEF Tick, OneRefresh, TypeOK, PCs, cache, world
    <2>2. Channels'
      BY <1>12 DEF Tick, Channels, Refreshing, OneRefresh, TypeOK, PCs, cache, world
    <2>3. Pace'
      BY <1>12 DEF Tick, Pace, TypeOK, cache, world
    <2>4. Provenance'
      BY <1>12 DEF Tick, Provenance, TypeOK, FetchResults, NoFetch, cache, world
    <2>5. Epochs'
      BY <1>12 DEF Tick, Epochs, TypeOK, FetchResults, NoFetch, PCs, cache, world
    <2>6. FailsClosed'
      BY <1>12 DEF Tick, FailsClosed, Provenance, TypeOK, Verdicts, cache, world
    <2> QED
      BY <2>1, <2>2, <2>3, <2>4, <2>5, <2>6
  <1>13. CASE Rotate
    <2>1. OneRefresh'
      BY <1>13 DEF Rotate, OneRefresh, TypeOK, PCs, cache, world
    <2>2. Channels'
      BY <1>13 DEF Rotate, Channels, Refreshing, OneRefresh, TypeOK, PCs, cache, world
    <2>3. Pace'
      BY <1>13 DEF Rotate, Pace, TypeOK, cache, world
    <2>4. Provenance'
      BY <1>13 DEF Rotate, Provenance, TypeOK, FetchResults, NoFetch, cache, world
    <2>5. Epochs'
      BY <1>13 DEF Rotate, Epochs, TypeOK, FetchResults, NoFetch, PCs, cache, world
    <2>6. FailsClosed'
      BY <1>13 DEF Rotate, FailsClosed, Provenance, TypeOK, Verdicts, cache, world
    <2> QED
      BY <2>1, <2>2, <2>3, <2>4, <2>5, <2>6
  <1>14. CASE UNCHANGED vars
    BY <1>14 DEF vars, OneRefresh, Channels, Refreshing, Pace, Provenance, Epochs, FailsClosed
  <1> QED
    BY <1>1, <1>2, <1>3, <1>4, <1>5, <1>6, <1>7, <1>8, <1>9, <1>10, <1>11, <1>12, <1>13, <1>14 DEF Next

\* The bookkeeping holds in every reachable state.
LEMMA Invariance == Spec => []Inv
  <1>1. Init => Inv
    <2> SUFFICES ASSUME Init
                 PROVE  Inv
      OBVIOUS
    <2>1. TypeOK
      BY InitType
    <2> QED
      BY <2>1 DEF Init, Inv, OneRefresh, Channels, Refreshing, Pace, Provenance, Epochs,
                  FailsClosed, NoFetch
  <1> QED
    BY <1>1, InvStep, PTL DEF Spec

\* Only one refresh runs at a time, and k.refreshing says so (keys.go:26).
THEOREM RefreshIsExclusive == Spec => []OneRefresh
  BY Invariance, PTL DEF Inv

\* The issuer is asked at most once per MinRefreshInterval (keys.go:21), for
\* every interval and over any length of time.
THEOREM RefreshIsRateLimited == Spec => []RefreshRate
  <1>1. Inv => RefreshRate
    <2> SUFFICES ASSUME Inv, fetches > 0
                 PROVE  (fetches - 1) * MinRefreshInterval <= now
      BY DEF RefreshRate
    <2>1. (fetches - 1) * MinRefreshInterval <= lastFetch /\ lastFetch <= now
      BY DEF Inv, TypeOK, Pace
    <2>2. (fetches - 1) * MinRefreshInterval \in Nat
      BY IntervalAssumption DEF Inv, TypeOK
    <2> QED
      BY <2>1, <2>2 DEF Inv, TypeOK
  <1> QED
    BY <1>1, Invariance, PTL

\* No goroutine waits on a channel that nobody will close (keys.go:66).
THEOREM NoWaiterIsForgotten == Spec => []NoLostWakeup
  <1>1. Inv => NoLostWakeup
    BY DEF Inv, NoLostWakeup, Channels, Refreshing, OneRefresh
  <1> QED
    BY <1>1, Invariance, PTL

\* key() vouches only for kids that the issuer has published (keys.go:22).
THEOREM KeysFailClosed == Spec => []FailsClosed
  BY Invariance, PTL DEF Inv

\* Refreshes are installed in the order the issuer published them: no refresh
\* brings back a key set older than the cached one (keys.go:92).
THEOREM InstallsAreMonotone == Spec => NoStaleInstall
  <1>1. Inv /\ [Next]_vars => [keysEpoch' >= keysEpoch]_vars
    <2> SUFFICES ASSUME Inv, Next
                 PROVE  keysEpoch' >= keysEpoch
      OBVIOUS
    <2>1. keysEpoch \in Nat
      BY DEF Inv, TypeOK
    <2>2. ASSUME NEW c \in Callers, Install(c)
          PROVE  keysEpoch' >= keysEpoch
      BY <2>1, <2>2 DEF Install, Inv, Epochs, TypeOK, FetchResults
    <2>3. CASE keysEpoch' = keysEpoch
      BY <2>1, <2>3
    <2>4. Next => keysEpoch' = keysEpoch \/ \E c \in Callers : Install(c)
      BY DEF Next, Call, CacheHit, RateLimited, JoinRefresh, Wake, WaitCancelled,
             Recheck, StartRefresh, FetchOK, FetchFail, Tick, Rotate
    <2> QED
      BY <2>2, <2>3, <2>4
  <1> QED
    BY <1>1, Invariance, PTL DEF Spec, NoStaleInstall

---------------------------------------------------------------------------
(* The middleware *)

\* A request under decision has a verdict of the cache.
Judged == \A c \in Callers : Deciding(c) => verdict[c] # "none"

\* A kid that was never withdrawn is in every set that was or will be cached.
Kept ==
    /\ always \subseteq issuer.keys
    /\ keysEpoch > 0 => always \subseteq keys
    /\ \A c \in Callers : pc[c] = "install" /\ ~fetched[c].err =>
          always \subseteq fetched[c].keys

\* A lookup that began with a fetched set finds such a kid at once.
Warm ==
    \A c \in Callers : warm[c] =>
        /\ keysEpoch > 0
        /\ kid[c] \in always =>
              pc[c] = "lookup" \/ (pc[c] = "returned" /\ verdict[c] = "key")

AuthInv == AuthTypeOK /\ Judged /\ Kept /\ Warm

---------------------------------------------------------------------------
(* The middleware drives the key cache by the cache's own steps *)

\* A step of the middleware is a step of the cache, or leaves it alone.
LEMMA CacheStep == [AuthNext]_allVars => [Next]_vars
  BY DEF AuthNext, allVars, Verify, AnswerEarly, Lookup, AuthRotate, KeyStep, Next

\* What is proved of the key cache holds under the middleware (verify.go:62).
THEOREM MiddlewareUsesCache == AuthSpec => Spec
  <1>1. AuthInit => Init
    BY DEF AuthInit
  <1> QED
    BY <1>1, CacheStep, PTL DEF AuthSpec, Spec

---------------------------------------------------------------------------
(* The decision *)

\* The least of some of the checks is one of them.
LEMMA LeastIsMember ==
    ASSUME NEW S \in SUBSET (1 .. 8), S # {}
    PROVE  Min(S) \in S
  <1> DEFINE First(k) == k \in S /\ \A y \in S : k <= y
  <1>1. PICK z : z \in S
    OBVIOUS
  <1>2. z = 1 \/ z = 2 \/ z = 3 \/ z = 4 \/ z = 5 \/ z = 6 \/ z = 7 \/ z = 8
    BY <1>1
  <1>3. First(1) \/ First(2) \/ First(3) \/ First(4) \/ First(5) \/ First(6) \/ First(7)
          \/ First(8)
    <2>1. ASSUME NEW k \in 1 .. 8, k \in S, \A j \in 1 .. 8 : j < k => j \notin S
          PROVE  First(k)
      BY <2>1
    <2>2. \A j \in 1 .. 8 : j = 1 \/ j = 2 \/ j = 3 \/ j = 4 \/ j = 5 \/ j = 6 \/ j = 7 \/ j = 8
      OBVIOUS
    <2>3. CASE 1 \in S
      BY <2>1, <2>3
    <2>4. CASE 1 \notin S /\ 2 \in S
      BY <2>1, <2>2, <2>4
    <2>5. CASE 1 \notin S /\ 2 \notin S /\ 3 \in S
      BY <2>1, <2>2, <2>5
    <2>6. CASE 1 \notin S /\ 2 \notin S /\ 3 \notin S /\ 4 \in S
      BY <2>1, <2>2, <2>6
    <2>7. CASE 1 \notin S /\ 2 \notin S /\ 3 \notin S /\ 4 \notin S
      BY <1>1, <1>2, <2>1, <2>2, <2>7
    <2> QED
      BY <2>3, <2>4, <2>5, <2>6, <2>7
  <1> QED
    BY <1>3 DEF Min

\* A check that fails has a status other than "next".
LEMMA DenialsDeny ==
    ASSUME NEW c \in Callers, NEW t \in Tokens, Decision(c, t) = "next"
    PROVE  \A i \in 1 .. 8 : Checks(t)[i].ok
  <1> DEFINE failing == {i \in DOMAIN Checks(t) : ~Checks(t)[i].ok}
  <1>1. DOMAIN Checks(t) = 1 .. 8
    BY DEF Checks
  <1>2. \A i \in 1 .. 8 : Checks(t)[i].status # "next"
    BY DEF Checks
  <1>3. ASSUME failing # {}
        PROVE  FALSE
    <2>1. failing \subseteq 1 .. 8
      BY <1>1
    <2>3. Min(failing) \in failing
      BY <1>3, <2>1, LeastIsMember
    <2>4. Checks(t)[Min(failing)].status # "next"
      BY <1>2, <2>1, <2>3
    <2> QED
      BY <1>3, <2>4 DEF Decision
  <1> QED
    BY <1>1, <1>3

\* A token that passes the checks meets the policy, and the other way round.
LEMMA ChecksArePolicy ==
    ASSUME NEW t \in Tokens
    PROVE  (\A i \in 1 .. 8 : Checks(t)[i].ok) <=> Good(t)
  <1> DEFINE ok(i) == Checks(t)[i].ok
             by == IF t.azp = <<>> THEN t.clientID ELSE t.azp
  <1>1. (ok(2) /\ ok(3)) <=> \E e \in t.exp : now <= e + ClockSkew
    <2>1. ok(2) <=> t.exp # {}
      BY DEF Checks
    <2>2. ok(3) <=> \A e \in t.exp : now <= e + ClockSkew
      BY DEF Checks
    <2>3. \A d, e \in t.exp : d = e
      BY TokensAssumption
    <2> HIDE DEF ok
    <2> QED
      BY <2>1, <2>2, <2>3
  <1>2. tokenCaller(t) = by /\ by \in Seq(STRING)
    BY TokensAssumption DEF tokenCaller
  <1>3. ASSUME NEW e \in AllowedCallers, NEW w \in Seq(STRING), w # <<>>
        PROVE  (Len(e) = 1 /\ w[1] = e[1]) <=> e = <<w[1]>>
    <2>1. e \in Seq(STRING)
      BY CallersAssumption
    <2> QED
      BY <2>1
  <1>4. callerAllowed(tokenCaller(t)) <=>
            by # <<>> /\ (by \in AllowedCallers \/ <<by[1]>> \in AllowedCallers)
    <2> HIDE DEF by
    <2> QED
      BY <1>2, <1>3 DEF callerAllowed
  <1>5. ok(8) <=> (AllowedCallers # {} => callerAllowed(tokenCaller(t)))
    BY DEF Checks
  <1>6. ok(7) <=> (RequiredScopes # {} => (t.scope \cup t.scp) \cap RequiredScopes # {})
    BY DEF Checks, tokenScopes
  <1>7. /\ ok(1) <=> t.signer = t.kid
        /\ ok(4) <=> \A s \in t.starts : s <= now + ClockSkew
        /\ ok(5) <=> t.iss = Issuer
        /\ ok(6) <=> Audience \in t.aud
    BY DEF Checks
  <1>8. (\A i \in 1 .. 8 : ok(i)) <=>
            ok(1) /\ ok(2) /\ ok(3) /\ ok(4) /\ ok(5) /\ ok(6) /\ ok(7) /\ ok(8)
    <2> HIDE DEF ok
    <2> QED
      OBVIOUS
  <1>9. Good(t) <=>
          /\ t.signer = t.kid
          /\ \E e \in t.exp : now <= e + ClockSkew
          /\ \A s \in t.starts : s <= now + ClockSkew
          /\ t.iss = Issuer /\ Audience \in t.aud
          /\ RequiredScopes # {} => (t.scope \cup t.scp) \cap RequiredScopes # {}
          /\ AllowedCallers # {} =>
                by # <<>> /\ (by \in AllowedCallers \/ <<by[1]>> \in AllowedCallers)
    BY DEF Good
  <1>10. (\A i \in 1 .. 8 : ok(i)) <=> Good(t)
    <2> HIDE DEF ok, by
    <2> QED
      BY <1>1, <1>4, <1>5, <1>6, <1>7, <1>8, <1>9
  <1> QED
    BY <1>10

---------------------------------------------------------------------------
(* The invariant *)

\* The types of what the middleware adds.
LEMMA AuthTypeStep == AuthTypeOK /\ [AuthNext]_allVars => AuthTypeOK'
  <1> SUFFICES ASSUME AuthTypeOK, [AuthNext]_allVars
               PROVE  AuthTypeOK'
    OBVIOUS
  <1>1. TypeOK'
    BY TypeStep, CacheStep DEF AuthTypeOK
  <1>2. (answer \in [Callers -> {"none", "given"}])'
    BY DEF AuthTypeOK, AuthNext, allVars, authVars, AnswerEarly, Lookup, Verify, Respond,
           AuthRotate
  <1>3. (warm \in [Callers -> BOOLEAN])'
    <2>1. ASSUME NEW c \in Callers, NEW b \in BOOLEAN
          PROVE  [warm EXCEPT ![c] = b] \in [Callers -> BOOLEAN]
      BY DEF AuthTypeOK
    <2>2. ASSUME NEW c \in Callers, Lookup(c) \/ Verify(c)
          PROVE  (warm \in [Callers -> BOOLEAN])'
      <3>1. (keysEpoch > 0) \in BOOLEAN
        BY DEF AuthTypeOK, TypeOK
      <3> QED
        BY <2>1, <2>2, <3>1, Zenon DEF Lookup, Verify
    <2> QED
      BY <2>2 DEF AuthTypeOK, AuthNext, allVars, authVars, AnswerEarly, AuthRotate
  <1>4. (always \in SUBSET Kids)'
    BY DEF AuthTypeOK, AuthNext, allVars, authVars, AnswerEarly, Lookup, Verify, AuthRotate
  <1> QED
    BY <1>1, <1>2, <1>3, <1>4 DEF AuthTypeOK

\* Every step of the middleware, the cache and the issuer keeps AuthInv.
LEMMA AuthInvStep == Inv /\ AuthInv /\ [AuthNext]_allVars => AuthInv'
  <1> SUFFICES ASSUME Inv, AuthInv, [AuthNext]_allVars
               PROVE  AuthInv'
    OBVIOUS
  <1>1. AuthTypeOK'
    BY AuthTypeStep DEF AuthInv
  <1> USE DEF AuthInv, AuthTypeOK, TypeOK, Judged, Kept, Warm, Deciding
  <1>2. ASSUME NEW c \in Callers, AnswerEarly(c)
        PROVE  Judged' /\ Kept' /\ Warm'
    BY <1>2 DEF AnswerEarly, Respond, vars
  <1>3. ASSUME NEW c \in Callers, Lookup(c)
        PROVE  Judged' /\ Kept' /\ Warm'
    BY <1>3 DEF Lookup, Call, cache, world
  <1>4. ASSUME NEW c \in Callers, Verify(c)
        PROVE  Judged' /\ Kept' /\ Warm'
    BY <1>4 DEF Verify, Respond, vars
  <1>5. CASE Tick /\ UNCHANGED authVars
    BY <1>5 DEF Tick, authVars, cache
  <1>6. CASE AuthRotate
    BY <1>6 DEF AuthRotate, Rotate, cache
  <1>7. CASE UNCHANGED allVars
    BY <1>7 DEF allVars, vars, authVars
  <1>8. ASSUME NEW c \in Callers, KeyStep(c) \/ WaitCancelled(c), UNCHANGED authVars
        PROVE  Judged' /\ Kept' /\ Warm'
    <2>1. CASE CacheHit(c)
      BY <1>8, <2>1 DEF CacheHit, Return, NoFetch, authVars, cache, world
    <2>2. CASE RateLimited(c)
      BY <1>8, <2>2 DEF RateLimited, Return, Missing, NoFetch, authVars, cache, world
    <2>3. CASE JoinRefresh(c)
      BY <1>8, <2>3 DEF JoinRefresh, authVars, cache, world
    <2>4. CASE Wake(c)
      BY <1>8, <2>4 DEF Wake, authVars, cache, world
    <2>5. CASE Recheck(c)
      BY <1>8, <2>5 DEF Recheck, Return, Missing, NoFetch, authVars, cache, world
    <2>6. CASE StartRefresh(c)
      BY <1>8, <2>6 DEF StartRefresh, authVars, cache, world
    <2>7. CASE FetchOK(c)
      BY <1>8, <2>7 DEF FetchOK, FetchResults, authVars, cache, world
    <2>8. CASE FetchFail(c)
      BY <1>8, <2>8 DEF FetchFail, NoFetch, authVars, cache, world
    <2>9. CASE WaitCancelled(c)
      BY <1>8, <2>9 DEF WaitCancelled, Return, NoFetch, authVars, cache, world
    <2>10. CASE Install(c)
      <3>1. fetched[c].err \in BOOLEAN /\ fetched[c].epoch \in Nat
        BY DEF FetchResults
      <3>2. keysEpoch' >= keysEpoch /\ keysEpoch' \in Nat
        BY <2>10, <3>1 DEF Install, Inv, Epochs
      <3>3. Judged'
        BY <1>8, <2>10 DEF Install, Return, authVars
      <3>4. Kept'
        BY <1>8, <2>10, <3>1 DEF Install, Return, NoFetch, authVars, world
      <3>5. Warm'
        BY <1>8, <2>10, <3>2 DEF Install, Return, authVars
      <3> QED
        BY <3>3, <3>4, <3>5
    <2> QED
      BY <1>8, <2>1, <2>2, <2>3, <2>4, <2>5, <2>6, <2>7, <2>8, <2>9, <2>10 DEF KeyStep
  <1> QED
    BY <1>1, <1>2, <1>3, <1>4, <1>5, <1>6, <1>7, <1>8 DEF AuthNext

\* The middleware's invariant, next to the cache's.
LEMMA AuthInvariance == AuthSpec => [](Inv /\ AuthInv)
  <1>1. AuthInit => AuthInv
    BY InitType DEF AuthInit, Init, AuthInv, AuthTypeOK, Judged, Deciding, Kept, Warm
  <1>2. AuthSpec => []Inv
    BY MiddlewareUsesCache, Invariance, PTL
  <1> QED
    BY <1>1, <1>2, AuthInvStep, PTL DEF AuthSpec

\* The verdict of the cache that Decision looks at.
LEMMA VerdictDecides ==
    ASSUME Inv, AuthInv, NEW c \in Callers, Deciding(c), NEW t \in Tokens
    PROVE  /\ verdict[c] \in {"key", "errKeyUnknown", "errJWKSFetch"}
           /\ Decision(c, t) = "next" => verdict[c] = "key"
           /\ verdict[c] = "key" /\ (\A i \in 1 .. 8 : Checks(t)[i].ok) => Decision(c, t) = "next"
  <1>1. verdict[c] \in {"key", "errKeyUnknown", "errJWKSFetch"}
    BY DEF Inv, TypeOK, Verdicts, AuthInv, Judged
  <1>2. DOMAIN Checks(t) = 1 .. 8
    BY DEF Checks
  <1> QED
    BY <1>1, <1>2 DEF Decision

---------------------------------------------------------------------------

\* Whoever reaches the next handler with a token was judged by the whole policy, at
\* the time of the decision, under a key the issuer published (middleware.go:10).
THEOREM MiddlewareFailsClosed == AuthSpec => []AdmissionIsSound
  <1>1. Inv /\ AuthInv => AdmissionIsSound
    BY VerdictDecides, DenialsDeny, ChecksArePolicy DEF AdmissionIsSound, Inv, FailsClosed
  <1> QED
    BY <1>1, AuthInvariance, PTL

\* Once a fetch has succeeded, no outage of the issuer, rate limit or request of
\* another caller locks out the holder of a key that was never withdrawn
\* (keys.go:92-104).
THEOREM OutagesLockNobodyOut == AuthSpec => []WarmCacheAdmits
  <1>1. Inv /\ AuthInv => WarmCacheAdmits
    BY VerdictDecides, ChecksArePolicy DEF WarmCacheAdmits, AuthInv, Warm, Deciding
  <1> QED
    BY <1>1, AuthInvariance, PTL

\* Under the middleware the issuer is asked at most once per MinRefreshInterval
\* (keys.go:21).
THEOREM MiddlewareIsRateLimited == AuthSpec => []RefreshRate
  BY MiddlewareUsesCache, RefreshIsRateLimited, PTL

\* Under the middleware an older key set never replaces a newer one (keys.go:92).
THEOREM MiddlewareInstallsInOrder == AuthSpec => NoStaleInstall
  BY MiddlewareUsesCache, InstallsAreMonotone, PTL
=============================================================================
