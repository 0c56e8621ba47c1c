---------------------------- MODULE InboundAuth ----------------------------
(***************************************************************************)
(* The middleware of pkg/inboundauth over its JWKS cache: every request is *)
(* answered by the next handler or by a denial, after the checks of        *)
(* verifyToken, between which the key lookup of KeySource takes its steps. *)
(*                                                                         *)
(* Up to the lookup only the key id of a token matters, so the rest of the *)
(* token is chosen when it is looked at.                                   *)
(***************************************************************************)
EXTENDS KeySource, Sequences, FiniteSetsExt

CONSTANTS
    Tokens,          \* tokens whose header names a kid and an accepted algorithm
    Issuer,          \* cfg.Issuer
    Audience,        \* cfg.Audience
    RequiredScopes,  \* cfg.RequiredScopes
    AllowedCallers,  \* cfg.AllowedCallers
    ClockSkew        \* cfg.ClockSkew, in clock ticks

\* exp holds the expiry claim if there is one, starts the nbf and iat claims.
\* A caller is <<directory, name>>, an allowed caller that or, for an entry that
\* ends in "/", <<directory>>; <<>> is an absent azp or client_id.
ASSUME TokensAssumption ==
    \A t \in Tokens :
        /\ t.kid \in Kids /\ t.starts \in SUBSET Nat
        /\ t.exp \in SUBSET Nat /\ \A d, e \in t.exp : d = e
        /\ t.iss \in STRING /\ t.aud \in SUBSET STRING
        /\ t.scope \in SUBSET STRING /\ t.scp \in SUBSET STRING
        /\ t.azp \in Seq(STRING) /\ t.clientID \in Seq(STRING)
ASSUME CallersAssumption == \A entry \in AllowedCallers : entry \in Seq(STRING)
ASSUME SkewAssumption == ClockSkew \in Nat

VARIABLES
    answer,  \* whether the last request was answered, or is being verified
    warm,    \* history: a key set had been fetched when the lookup began
    always   \* history: the kids that every key set of the issuer held

authVars == <<answer, warm, always>>
allVars == <<vars, authVars>>

AuthTypeOK ==
    /\ TypeOK
    /\ answer \in [Callers -> {"none", "given"}]
    /\ warm \in [Callers -> BOOLEAN]
    /\ always \in SUBSET Kids

AuthInit ==
    /\ Init
    /\ answer = [c \in Callers |-> "given"]
    /\ warm = [c \in Callers |-> FALSE]
    /\ always = issuer.keys

---------------------------------------------------------------------------
(* verifyToken *)

tokenScopes(t) == t.scope \cup t.scp

tokenCaller(t) == IF t.azp # <<>> THEN t.azp ELSE t.clientID

callerAllowed(caller) ==
    /\ caller # <<>>
    /\ \E entry \in AllowedCallers :
          caller = entry \/ (Len(entry) = 1 /\ caller[1] = entry[1])

\* Mutant: a token without an expiry never expires.
Checks_NoExpiry(t) ==
    << [ok |-> t.signer = t.kid,                                                 status |-> "401"],
       [ok |-> \A e \in t.exp : now <= e + ClockSkew,                            status |-> "401"],
       [ok |-> \A s \in t.starts : s <= now + ClockSkew,                         status |-> "401"],
       [ok |-> t.iss = Issuer,                                                   status |-> "401"],
       [ok |-> Audience \in t.aud,                                               status |-> "403"],
       [ok |-> RequiredScopes # {} => tokenScopes(t) \cap RequiredScopes # {},   status |-> "403"],
       [ok |-> AllowedCallers # {} => callerAllowed(tokenCaller(t)),             status |-> "403"] >>

\* The checks after the lookup, in their order; the first that fails decides
\* the code, and with it the status.
Checks(t) ==
    << [ok |-> t.signer = t.kid,                                                 status |-> "401"],
       [ok |-> t.exp # {},                                                       status |-> "401"],
       [ok |-> \A e \in t.exp : now <= e + ClockSkew,                            status |-> "401"],
       [ok |-> \A s \in t.starts : s <= now + ClockSkew,                         status |-> "401"],
       [ok |-> t.iss = Issuer,                                                   status |-> "401"],
       [ok |-> Audience \in t.aud,                                               status |-> "403"],
       [ok |-> RequiredScopes # {} => tokenScopes(t) \cap RequiredScopes # {},   status |-> "403"],
       [ok |-> AllowedCallers # {} => callerAllowed(tokenCaller(t)),             status |-> "403"] >>

\* What a token is answered with after the lookup.
Decision(c, t) ==
    LET failing == {i \in DOMAIN Checks(t) : ~Checks(t)[i].ok} IN
    CASE verdict[c] = "errJWKSFetch"  -> "503"
      [] verdict[c] = "errKeyUnknown" -> "401"
      [] OTHER -> IF failing = {} THEN "next" ELSE Checks(t)[Min(failing)].status

\* The next handler is called, or a denial is written with this status.
Respond(c, a) ==
    /\ a \in {"next", "401", "403", "503"}
    /\ answer' = [answer EXCEPT ![c] = "given"]

\* A request whose lookup has returned.
Deciding(c) == pc[c] = "returned" /\ answer[c] = "none"

Verify(c) ==
    /\ Deciding(c)
    /\ \E t \in Tokens : t.kid = kid[c] /\ Respond(c, Decision(c, t))
    /\ warm' = [warm EXCEPT ![c] = FALSE]
    /\ UNCHANGED <<vars, always>>

---------------------------------------------------------------------------
(* Middleware *)

\* An exempt path: the next handler is called without claims and without the
\* Authorization header.  The denials: no Authorization header, more than one or
\* one that is not a bearer token; a token that is not a JWT; an algorithm other
\* than ES256 and RS256.
AnswerEarly(c) ==
    /\ answer[c] = "given"
    /\ Respond(c, "next") \/ Respond(c, "401")
    /\ UNCHANGED <<vars, warm, always>>

Lookup(c) ==
    /\ answer[c] = "given"
    /\ Call(c)
    /\ answer' = [answer EXCEPT ![c] = "none"]
    /\ warm' = [warm EXCEPT ![c] = keysEpoch > 0]
    /\ UNCHANGED always

AuthRotate ==
    /\ Rotate
    /\ always' = always \cap issuer'.keys
    /\ UNCHANGED <<answer, warm>>

AuthNext ==
    \/ \E c \in Callers :
          \/ AnswerEarly(c) \/ Lookup(c) \/ Verify(c)
          \/ (KeyStep(c) \/ WaitCancelled(c)) /\ UNCHANGED authVars
    \/ Tick /\ UNCHANGED authVars
    \/ AuthRotate

AuthSpec == AuthInit /\ [][AuthNext]_allVars

\* As for KeySource: a request that is being verified takes its next step.
AuthFairSpec ==
    /\ AuthSpec
    /\ \A c \in Callers : WF_allVars(Verify(c) \/ (KeyStep(c) /\ UNCHANGED authVars))

---------------------------------------------------------------------------
(* Properties *)

Good(t) ==
    /\ t.signer = t.kid
    /\ \E e \in t.exp : now <= e + ClockSkew
    /\ \A s \in t.starts : s <= now + ClockSkew
    /\ t.iss = Issuer /\ Audience \in t.aud
    /\ RequiredScopes # {} => (t.scope \cup t.scp) \cap RequiredScopes # {}
    /\ AllowedCallers # {} =>
          LET by == IF t.azp = <<>> THEN t.clientID ELSE t.azp IN
          by # <<>> /\ (by \in AllowedCallers \/ <<by[1]>> \in AllowedCallers)

\* The middleware "fails closed and never calls next with an unverified request"
\* (middleware.go:10): a token that reaches the next handler is signed by a key
\* the issuer has published under its kid, and meets the whole policy at the time
\* of the decision, however long the lookup has taken.
AdmissionIsSound ==
    \A c \in Callers, t \in Tokens :
        Deciding(c) /\ kid[c] = t.kid /\ Decision(c, t) = "next" =>
            t.kid \in published /\ Good(t)

\* A token that meets the policy, of a key the issuer has never withdrawn, is
\* admitted once any fetch has succeeded: later failures of the issuer, the rate
\* limit and cancelled requests of others cannot lock its callers out
\* (keys.go:92-104).
WarmCacheAdmits ==
    \A c \in Callers, t \in Tokens :
        Deciding(c) /\ kid[c] = t.kid /\ warm[c] /\ t.kid \in always /\ Good(t) =>
            Decision(c, t) = "next"

\* Every request that reaches the lookup is answered, also one that waits for the
\* refresh of another request.
EveryRequestAnswered == \A c \in Callers : answer[c] = "none" ~> answer[c] = "given"

===========================================================================
