----------------------------- MODULE KeySource -----------------------------
(***************************************************************************)
(* The JWKS cache of pkg/inboundauth/keys.go: many request goroutines look *)
(* a key id up in one cache, and at most one of them at a time leaves the  *)
(* mutex to fetch the issuer's key set over the network.                   *)
(*                                                                         *)
(* The mutex k.mu is never held across the network call, so one action is  *)
(* one hold of the mutex (or one step outside it).  The issuer is external *)
(* and publishes a new key set, one more epoch, at any time.               *)
(***************************************************************************)
EXTENDS Naturals, FiniteSets

CONSTANTS
    Callers,             \* goroutines that serve one request after another
    Kids,                \* key ids a token header may name
    MinRefreshInterval,  \* Config.MinRefreshInterval, in clock ticks
    MaxTime,             \* bound on the clock
    MaxEpoch             \* bound on the key rotations of the issuer

\* withDefaults (config.go:41) replaces a zero interval by 60 s.
ASSUME IntervalAssumption == MinRefreshInterval \in Nat \ {0}
ASSUME BoundsAssumption == MaxTime \in Nat /\ MaxEpoch \in Nat

VARIABLES
    keys,        \* k.keys: the kids of the cached set
    attempted,   \* k.attempted
    lastFetch,   \* k.lastFetch
    lastErr,     \* k.lastErr # nil
    refreshing,  \* k.refreshing
    refreshDone, \* k.refreshDone: the number of the channel of the refresh
    closed,      \* the channels that have been closed
    pc,          \* where each caller is in key()
    kid,         \* the kid each caller asks for
    done,        \* the channel a caller captured under the lock
    fetched,     \* what fetch() returned to the caller that refreshes
    verdict,     \* what key() returned
    now,         \* the clock
    issuer,      \* the key set the issuer publishes, and its epoch
    fetches,     \* history: refreshes started so far
    keysEpoch,   \* history: epoch of the cached set, 0 before the first one
    published    \* history: every kid the issuer has ever published

vars == <<keys, attempted, lastFetch, lastErr, refreshing, refreshDone, closed,
          pc, kid, done, fetched, verdict, now, issuer, fetches, keysEpoch,
          published>>

cache == <<keys, attempted, lastFetch, lastErr, refreshing, refreshDone, closed>>
world == <<now, issuer, published>>

PCs == {"idle", "lookup", "wait", "relock", "fetch", "install", "returned"}
Verdicts == {"none", "key", "errKeyUnknown", "errJWKSFetch"}
FetchResults == [err : BOOLEAN, keys : SUBSET Kids, epoch : Nat]
NoFetch == [err |-> TRUE, keys |-> {}, epoch |-> 0]

TypeOK ==
    /\ keys \in SUBSET Kids
    /\ attempted \in BOOLEAN
    /\ lastFetch \in Nat
    /\ lastErr \in BOOLEAN
    /\ refreshing \in BOOLEAN
    /\ refreshDone \in Nat
    /\ closed \in SUBSET Nat
    /\ pc \in [Callers -> PCs]
    /\ kid \in [Callers -> Kids]
    /\ done \in [Callers -> Nat]
    /\ fetched \in [Callers -> FetchResults]
    /\ verdict \in [Callers -> Verdicts]
    /\ now \in Nat
    /\ issuer \in [keys : SUBSET Kids, epoch : Nat]
    /\ fetches \in Nat
    /\ keysEpoch \in Nat
    /\ published \in SUBSET Kids

Init ==
    /\ keys = {}
    /\ attempted = FALSE
    /\ lastFetch = 0
    /\ lastErr = FALSE
    /\ refreshing = FALSE
    /\ refreshDone = 0
    /\ closed = {}
    /\ pc = [c \in Callers |-> "idle"]
    /\ kid \in [Callers -> Kids]
    /\ done = [c \in Callers |-> 0]
    /\ fetched = [c \in Callers |-> NoFetch]
    /\ verdict = [c \in Callers |-> "none"]
    /\ now = 0
    /\ issuer \in [keys : SUBSET Kids, epoch : {1}]
    /\ fetches = 0
    /\ keysEpoch = 0
    /\ published = issuer.keys

---------------------------------------------------------------------------
(* key() *)

\* The local variables of key() are gone when it returns.
Return(c, v) ==
    /\ pc' = [pc EXCEPT ![c] = "returned"]
    /\ verdict' = [verdict EXCEPT ![c] = v]
    /\ done' = [done EXCEPT ![c] = 0]
    /\ fetched' = [fetched EXCEPT ![c] = NoFetch]

\* The answer to a kid that is not in the cache.
Missing == IF lastErr THEN "errJWKSFetch" ELSE "errKeyUnknown"

\* A request whose token header names kid k arrives and calls key().
Call(c) ==
    /\ pc[c] \in {"idle", "returned"}
    /\ pc' = [pc EXCEPT ![c] = "lookup"]
    /\ \E k \in Kids : kid' = [kid EXCEPT ![c] = k]
    /\ verdict' = [verdict EXCEPT ![c] = "none"]
    /\ UNCHANGED <<cache, done, fetched, world, fetches, keysEpoch>>

CacheHit(c) ==
    /\ pc[c] = "lookup"
    /\ kid[c] \in keys
    /\ Return(c, "key")
    /\ UNCHANGED <<cache, kid, world, fetches, keysEpoch>>

\* attempted && time.Since(lastFetch) < MinRefreshInterval
WithinInterval == attempted /\ now < lastFetch + MinRefreshInterval

RateLimited(c) ==
    /\ pc[c] = "lookup"
    /\ kid[c] \notin keys
    /\ WithinInterval
    /\ Return(c, Missing)
    /\ UNCHANGED <<cache, kid, world, fetches, keysEpoch>>

\* Another goroutine is refreshing: remember its channel and wait outside.
JoinRefresh(c) ==
    /\ pc[c] = "lookup"
    /\ kid[c] \notin keys
    /\ ~WithinInterval
    /\ refreshing
    /\ done' = [done EXCEPT ![c] = refreshDone]
    /\ pc' = [pc EXCEPT ![c] = "wait"]
    /\ UNCHANGED <<cache, kid, fetched, verdict, world, fetches, keysEpoch>>

Wake(c) ==
    /\ pc[c] = "wait"
    /\ done[c] \in closed
    /\ pc' = [pc EXCEPT ![c] = "relock"]
    /\ UNCHANGED <<cache, kid, done, fetched, verdict, world, fetches, keysEpoch>>

\* ctx.Done() while waiting: the client went away.
WaitCancelled(c) ==
    /\ pc[c] = "wait"
    /\ Return(c, "errJWKSFetch")
    /\ UNCHANGED <<cache, kid, world, fetches, keysEpoch>>

\* The second lookup, after the refresh it waited for.
Recheck(c) ==
    /\ pc[c] = "relock"
    /\ Return(c, IF kid[c] \in keys THEN "key" ELSE Missing)
    /\ UNCHANGED <<cache, kid, world, fetches, keysEpoch>>

\* Mutant: k.refreshing is not consulted.
StartRefresh_Unguarded(c) ==
    /\ pc[c] = "lookup"
    /\ kid[c] \notin keys
    /\ ~WithinInterval
    /\ refreshing' = TRUE
    /\ attempted' = TRUE
    /\ lastFetch' = now
    /\ fetches' = fetches + 1
    /\ refreshDone' = fetches + 1
    /\ done' = [done EXCEPT ![c] = fetches + 1]
    /\ pc' = [pc EXCEPT ![c] = "fetch"]
    /\ UNCHANGED <<keys, lastErr, closed, kid, fetched, verdict, world, keysEpoch>>

StartRefresh(c) ==
    /\ pc[c] = "lookup"
    /\ kid[c] \notin keys
    /\ ~WithinInterval
    /\ ~refreshing
    /\ refreshing' = TRUE
    /\ attempted' = TRUE
    /\ lastFetch' = now
    /\ fetches' = fetches + 1
    /\ refreshDone' = fetches + 1
    /\ done' = [done EXCEPT ![c] = fetches + 1]
    /\ pc' = [pc EXCEPT ![c] = "fetch"]
    /\ UNCHANGED <<keys, lastErr, closed, kid, fetched, verdict, world, keysEpoch>>

\* fetch() succeeds with the set the issuer publishes at this moment.
FetchOK(c) ==
    /\ pc[c] = "fetch"
    /\ fetched' = [fetched EXCEPT ![c] =
                     [err |-> FALSE, keys |-> issuer.keys, epoch |-> issuer.epoch]]
    /\ pc' = [pc EXCEPT ![c] = "install"]
    /\ UNCHANGED <<cache, kid, done, verdict, world, fetches, keysEpoch>>

\* fetch() fails: transport, status, parse, the 10 s timeout, or the ctx of
\* the caller that leads the refresh.
FetchFail(c) ==
    /\ pc[c] = "fetch"
    /\ fetched' = [fetched EXCEPT ![c] = NoFetch]
    /\ pc' = [pc EXCEPT ![c] = "install"]
    /\ UNCHANGED <<cache, kid, done, verdict, world, fetches, keysEpoch>>

\* Mutant: the channel of the refresh is not closed.
Install_NoClose(c) ==
    LET f == fetched[c] IN
    /\ pc[c] = "install"
    /\ keys' = IF f.err THEN keys ELSE f.keys
    /\ keysEpoch' = IF f.err THEN keysEpoch ELSE f.epoch
    /\ lastErr' = f.err
    /\ refreshing' = FALSE
    /\ refreshDone' = 0
    /\ Return(c, CASE f.err -> "errJWKSFetch"
                   [] kid[c] \in f.keys -> "key"
                   [] OTHER -> "errKeyUnknown")
    /\ UNCHANGED <<closed, attempted, lastFetch, kid, world, fetches>>

\* Mutant: a failed fetch does not count as an attempt.
Install_ForgetsFailure(c) ==
    LET f == fetched[c] IN
    /\ pc[c] = "install"
    /\ keys' = IF f.err THEN keys ELSE f.keys
    /\ keysEpoch' = IF f.err THEN keysEpoch ELSE f.epoch
    /\ lastErr' = f.err
    /\ attempted' = ~f.err
    /\ refreshing' = FALSE
    /\ refreshDone' = 0
    /\ closed' = closed \cup {done[c]}
    /\ Return(c, CASE f.err -> "errJWKSFetch"
                   [] kid[c] \in f.keys -> "key"
                   [] OTHER -> "errKeyUnknown")
    /\ UNCHANGED <<lastFetch, kid, world, fetches>>

\* Mutant: a failed fetch leaves no keys.
Install_DropsKeys(c) ==
    LET f == fetched[c] IN
    /\ pc[c] = "install"
    /\ keys' = f.keys
    /\ keysEpoch' = IF f.err THEN keysEpoch ELSE f.epoch
    /\ lastErr' = f.err
    /\ refreshing' = FALSE
    /\ refreshDone' = 0
    /\ closed' = closed \cup {done[c]}
    /\ Return(c, CASE f.err -> "errJWKSFetch"
                   [] kid[c] \in f.keys -> "key"
                   [] OTHER -> "errKeyUnknown")
    /\ UNCHANGED <<attempted, lastFetch, kid, world, fetches>>

\* Back under the lock: publish the outcome and release the waiters.
Install(c) ==
    LET f == fetched[c] IN
    /\ pc[c] = "install"
    /\ keys' = IF f.err THEN keys ELSE f.keys
    /\ keysEpoch' = IF f.err THEN keysEpoch ELSE f.epoch
    /\ lastErr' = f.err
    /\ refreshing' = FALSE
    /\ refreshDone' = 0
    /\ closed' = closed \cup {done[c]}
    /\ Return(c, CASE f.err -> "errJWKSFetch"
                   [] kid[c] \in f.keys -> "key"
                   [] OTHER -> "errKeyUnknown")
    /\ UNCHANGED <<attempted, lastFetch, kid, world, fetches>>

---------------------------------------------------------------------------
(* The world around it. *)

Tick ==
    /\ now < MaxTime
    /\ now' = now + 1
    /\ UNCHANGED <<cache, pc, kid, done, fetched, verdict, issuer, fetches,
                   keysEpoch, published>>

\* The issuer rotates its keys: any set, one epoch later.
Rotate ==
    /\ issuer.epoch < MaxEpoch
    /\ \E s \in SUBSET Kids :
          /\ issuer' = [keys |-> s, epoch |-> issuer.epoch + 1]
          /\ published' = published \cup s
    /\ UNCHANGED <<cache, pc, kid, done, fetched, verdict, now, fetches, keysEpoch>>

Next ==
    \/ \E c \in Callers :
          \/ Call(c) \/ CacheHit(c) \/ RateLimited(c) \/ JoinRefresh(c)
          \/ Wake(c) \/ WaitCancelled(c) \/ Recheck(c) \/ StartRefresh(c)
          \/ FetchOK(c) \/ FetchFail(c) \/ Install(c)
    \/ Tick
    \/ Rotate

Spec == Init /\ [][Next]_vars

\* A running goroutine takes its next step; fetch() returns because it is
\* bounded by a 10 s timeout.  Clients need not go away (WaitCancelled),
\* nor the issuer rotate.
KeyStep(c) ==
    \/ CacheHit(c) \/ RateLimited(c) \/ JoinRefresh(c) \/ Wake(c)
    \/ Recheck(c) \/ StartRefresh(c) \/ FetchOK(c) \/ FetchFail(c) \/ Install(c)

---------------------------------------------------------------------------
(* Properties *)

\* "only one refresh runs at a time" (keys.go:25): the flag k.refreshing is
\* up exactly while one goroutine is between the two lock holds of a refresh.
OneRefresh ==
    /\ \A c, d \in Callers :
          pc[c] \in {"fetch", "install"} /\ pc[d] \in {"fetch", "install"} => c = d
    /\ refreshing <=> \E c \in Callers : pc[c] \in {"fetch", "install"}

\* "refreshes them at most once per MinRefreshInterval" (keys.go:21), over the
\* whole life of the process: n refreshes take n - 1 full intervals.
RefreshRate == fetches > 0 => (fetches - 1) * MinRefreshInterval <= now

\* A goroutine that waits for a refresh holds the channel of a refresh that
\* still runs, or one that is closed: nobody waits on a channel that no one
\* will close (keys.go:61, 85, 97).
NoLostWakeup ==
    \A c \in Callers : pc[c] = "wait" =>
        \/ done[c] \in closed
        \/ \E d \in Callers : pc[d] \in {"fetch", "install"} /\ done[d] = done[c]

\* "It fails closed" (keys.go:22): key() returns a key only for a kid that the
\* issuer has published, whatever fetches failed or raced before.
FailsClosed == \A c \in Callers : verdict[c] = "key" => kid[c] \in published

\* A refresh never replaces the cached set by one the issuer published earlier:
\* results of two refreshes cannot be installed out of order, so a kid that a
\* refresh has dropped does not come back from an older answer (keys.go:92).
NoStaleInstall == [][keysEpoch' >= keysEpoch]_vars

=============================================================================
