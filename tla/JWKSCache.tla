----------------------------- MODULE JWKSCache ------------------------------
(***************************************************************************)
(* The cache of an issuer's signing keys (internal/auth/jwks.go): calls of *)
(* PublicKey that run at the same time, share one mutex and one set of     *)
(* keys, and let one of them fetch for the others.  A call leaves the      *)
(* mutex while it fetches or waits, and everything it has read may have    *)
(* changed when it comes back.                                             *)
(*                                                                         *)
(* Each critical section of PublicKey is one action.  A channel is named   *)
(* after the call that made it: a call makes at most one, since it returns *)
(* after its own fetch.                                                    *)
(***************************************************************************)
EXTENDS Integers, Sequences, FiniteSets

CONSTANTS
  Calls,      \* calls of PublicKey, one for each token to verify
  Kids,       \* key ids that tokens name
  Documents,  \* the sets of kids the issuer may publish
  None,       \* the nil channel
  TTL,        \* how long a fetched document counts as fresh
  FetchTime,  \* the HTTP client's timeout, and the wait for the mutex after it
  MaxClock    \* bound on the clock

ASSUME ConstantsAssumption ==
  /\ Documents \subseteq SUBSET Kids
  /\ IsFiniteSet(Calls) /\ None \notin Calls
  /\ TTL \in Nat \ {0} /\ FetchTime \in Nat /\ MaxClock \in Nat

VARIABLES
  issuer,           \* the kids the issuer has published at each instant so far
  keys, fetchedAt, hasCache, generation, forceClaimedGen, \* the cache's fields
  forceWait,        \* channel of a force-refresh, or None
  ttlWait,          \* channel of a TTL refresh, or None
  call              \* each call: where it is and its local variables

cacheVars == <<keys, fetchedAt, hasCache, generation, forceClaimedGen,
               forceWait, ttlWait>>
vars == <<issuer, cacheVars, call>>

Now == Len(issuer) - 1
PublishedAt(t) == issuer[t + 1]

-----------------------------------------------------------------------------

Places == {"idle", "looking", "waiting", "fetching", "fetched", "done"}
Roles == {"none", "force", "ttl"}
Results == {"none", "key", "unauthenticated", "unavailable"}

NoCall == [at |-> "idle", kid |-> None, role |-> "none", wait |-> None,
           claimedGen |-> 0, claimedFetchedAt |-> 0, since |-> 0,
           fetched |-> {}, failed |-> FALSE, closed |-> FALSE,
           result |-> "none", answeredAt |-> 0]

\* The cache is as NewJWKSCache makes it, or a call that found its kid has just
\* filled it.
Init ==
  /\ issuer \in [1..1 -> Documents]
  /\ \/ keys = {} /\ hasCache = FALSE /\ generation = 0
     \/ keys = issuer[1] /\ keys # {} /\ hasCache = TRUE /\ generation = 1
  /\ fetchedAt = 0 /\ forceClaimedGen = 0
  /\ forceWait = None /\ ttlWait = None
  /\ call = [c \in Calls |-> NoCall]

At(c, place) == call[c].at = place

\* The document is younger than TTL, counted from when it was applied.
Fresh == hasCache /\ Now - fetchedAt < TTL

\* What remains of call c once it has returned: its answer, and what it fetched for.
Answered(c, result) ==
  [NoCall EXCEPT !.at = "done", !.kid = call[c].kid, !.role = call[c].role,
                 !.claimedGen = call[c].claimedGen,
                 !.result = result, !.answeredAt = Now]

\* What c answers by looking its kid up in a set of keys.
Lookup(c, ks) == IF call[c].kid \in ks THEN "key" ELSE "unauthenticated"

-----------------------------------------------------------------------------

Begin(c, kid) ==
  /\ At(c, "idle")
  /\ call' = [call EXCEPT ![c].at = "looking", ![c].kid = kid]
  /\ UNCHANGED <<issuer, cacheVars>>

\* The kid is in the fresh cache.
Hit(c) ==
  /\ At(c, "looking") /\ Fresh /\ call[c].kid \in keys
  /\ call' = [call EXCEPT ![c] = Answered(c, "key")]
  /\ UNCHANGED <<issuer, cacheVars>>

Miss(c) == At(c, "looking") /\ Fresh /\ call[c].kid \notin keys

\* This generation's force-refresh is claimed and on its way.
FollowForce(c) ==
  /\ Miss(c) /\ forceClaimedGen = generation /\ forceWait # None
  /\ call' = [call EXCEPT ![c].at = "waiting", ![c].wait = forceWait]
  /\ UNCHANGED <<issuer, cacheVars>>

\* It is claimed and, by what forceWait says, over.
Reject(c) ==
  /\ Miss(c) /\ forceClaimedGen = generation /\ forceWait = None
  /\ call' = [call EXCEPT ![c] = Answered(c, "unauthenticated")]
  /\ UNCHANGED <<issuer, cacheVars>>

LeadForce(c) ==
  /\ Miss(c) /\ forceClaimedGen # generation
  /\ forceWait' = c
  /\ forceClaimedGen' = generation
  /\ call' = [call EXCEPT ![c].at = "fetching", ![c].role = "force",
                          ![c].claimedGen = generation,
                          ![c].claimedFetchedAt = fetchedAt, ![c].since = Now]
  /\ UNCHANGED <<issuer, keys, fetchedAt, hasCache, generation, ttlWait>>

FollowTtl(c) ==
  /\ At(c, "looking") /\ ~Fresh /\ ttlWait # None
  /\ call' = [call EXCEPT ![c].at = "waiting", ![c].wait = ttlWait]
  /\ UNCHANGED <<issuer, cacheVars>>

LeadTtl(c) ==
  /\ At(c, "looking") /\ ~Fresh /\ ttlWait = None
  /\ ttlWait' = c
  /\ call' = [call EXCEPT ![c].at = "fetching", ![c].role = "ttl",
                          ![c].claimedGen = generation, ![c].since = Now]
  /\ UNCHANGED <<issuer, keys, fetchedAt, hasCache, generation,
                 forceClaimedGen, forceWait>>

\* The channel c waits on is closed: it looks again.
WakeUp(c) ==
  /\ At(c, "waiting") /\ call[call[c].wait].closed
  /\ call' = [call EXCEPT ![c].at = "looking", ![c].wait = None]
  /\ UNCHANGED <<issuer, cacheVars>>

\* The context of a waiting call ends.
Cancelled(c) ==
  /\ At(c, "waiting")
  /\ call' = [call EXCEPT ![c] = Answered(c, "unavailable")]
  /\ UNCHANGED <<issuer, cacheVars>>

\* fetch returns the document the issuer publishes now.
FetchAnswers(c) ==
  /\ At(c, "fetching")
  /\ call' = [call EXCEPT ![c].at = "fetched", ![c].fetched = PublishedAt(Now)]
  /\ UNCHANGED <<issuer, cacheVars>>

\* fetch returns an error: no answer in time, a malformed one, or the context of
\* the call that fetches for all of them has ended.
FetchFails(c) ==
  /\ At(c, "fetching")
  /\ call' = [call EXCEPT ![c].at = "fetched", ![c].failed = TRUE]
  /\ UNCHANGED <<issuer, cacheVars>>

\* Mutant: the keys of the last refresh are served when this one fails.
StaleIfError(c, ks) == Lookup(c, ks)

\* What c answers after its fetch, ks being the keys then cached: an error says
\* nothing about the kid.
FetchResult(c, ks) == IF call[c].failed THEN "unavailable" ELSE Lookup(c, ks)

\* Mutant: a failed fetch returns without closing its channel.
LeaveWaiters(c, result) == [Answered(c, result) EXCEPT !.closed = ~call[c].failed]

\* close(wait), then the return.
CloseAndReturn(c, result) == [Answered(c, result) EXCEPT !.closed = TRUE]

\* Mutant: a failed force-refresh gives its claim back.
FinishForceUnclaims(c) ==
  /\ At(c, "fetched") /\ call[c].role = "force"
  /\ forceWait' = None
  /\ keys' = IF ~call[c].failed /\ generation = call[c].claimedGen
             THEN call[c].fetched ELSE keys
  /\ forceClaimedGen' = IF call[c].failed THEN 0 ELSE forceClaimedGen
  /\ call' = [call EXCEPT ![c] = CloseAndReturn(c, FetchResult(c, keys'))]
  /\ UNCHANGED <<issuer, fetchedAt, hasCache, generation, ttlWait>>

\* The force-refresh ends.  Its keys are used only in the generation it was made
\* for, its age stays that of the generation, and a failure keeps the claim.
\* forceWait is cleared whoever set it.
FinishForce(c) ==
  /\ At(c, "fetched") /\ call[c].role = "force"
  /\ forceWait' = None
  /\ keys' = IF /\ ~call[c].failed
                /\ generation = call[c].claimedGen
                /\ fetchedAt = call[c].claimedFetchedAt
             THEN call[c].fetched ELSE keys
  /\ call' = [call EXCEPT ![c] = CloseAndReturn(c, FetchResult(c, keys'))]
  /\ UNCHANGED <<issuer, fetchedAt, hasCache, generation, forceClaimedGen, ttlWait>>

\* Mutant: the claim is put on the generation after the one just opened.
ClaimTooFar(c, ks) ==
  IF call[c].kid \in ks THEN forceClaimedGen ELSE generation + 2

\* A kid that the keys of a new generation lack uses up its force-refresh.
ClaimOnMiss(c, ks) ==
  IF call[c].kid \in ks THEN forceClaimedGen ELSE generation + 1

\* The TTL refresh ends.  Its keys open a new generation, dated now and not when
\* the issuer was asked.
FinishTtl(c) ==
  /\ At(c, "fetched") /\ call[c].role = "ttl"
  /\ ttlWait' = None
  /\ IF ~call[c].failed /\ generation = call[c].claimedGen
     THEN /\ keys' = call[c].fetched
          /\ fetchedAt' = Now
          /\ hasCache' = TRUE
          /\ generation' = generation + 1
          /\ forceClaimedGen' = ClaimOnMiss(c, keys')
     ELSE UNCHANGED <<keys, fetchedAt, hasCache, generation, forceClaimedGen>>
  /\ call' = [call EXCEPT ![c] = CloseAndReturn(c, FetchResult(c, keys'))]
  /\ UNCHANGED <<issuer, forceWait>>

\* Time passes, and the issuer may rotate its keys.  A fetch that has used up its
\* time ends first.
Tick ==
  /\ Now < MaxClock
  /\ \A c \in Calls : call[c].at \in {"fetching", "fetched"}
                      => Now < call[c].since + FetchTime
  /\ \E ks \in Documents : issuer' = Append(issuer, ks)
  /\ UNCHANGED <<cacheVars, call>>

\* What a call does on its own once it has begun.
Proceed(c) ==
  \/ Hit(c) \/ FollowForce(c) \/ Reject(c) \/ LeadForce(c) \/ FollowTtl(c)
  \/ LeadTtl(c) \/ WakeUp(c) \/ FetchAnswers(c) \/ FetchFails(c)
  \/ FinishForce(c) \/ FinishTtl(c)

Next ==
  \/ \E c \in Calls : \/ \E kid \in Kids : Begin(c, kid)
                      \/ Proceed(c)
                      \/ Cancelled(c)
  \/ Tick

Spec == Init /\ [][Next]_vars

\* The mutex is fair and a fetch ends by the client's timeout at the latest.  No
\* context ever needs to end.
FairSpec == Spec /\ \A c \in Calls : WF_vars(Proceed(c))

-----------------------------------------------------------------------------

TypeOK ==
  /\ keys \subseteq Kids
  /\ fetchedAt \in 0..MaxClock /\ hasCache \in BOOLEAN
  /\ generation \in 0..(Cardinality(Calls) + 1) /\ forceClaimedGen \in 0..generation
  /\ forceWait \in Calls \cup {None} /\ ttlWait \in Calls \cup {None}
  /\ \A c \in Calls : /\ call[c].at \in Places /\ call[c].role \in Roles
                      /\ call[c].result \in Results
                      /\ call[c].kid \in Kids \cup {None}
                      /\ call[c].wait \in Calls \cup {None}
                      /\ call[c].fetched \subseteq Kids

\* The instants whose documents a call may still have relied on at its answer.
Recent(c) == {u \in 0..call[c].answeredAt : call[c].answeredAt - u < TTL + FetchTime}

\* The hard freshness bound: a key that is handed out was published, and a kid
\* that is rejected was not, at some instant less than TTL plus one fetch ago,
\* though refreshes of both kinds overlap, fail, and are applied in any order.
AnswersFresh ==
  \A c \in Calls :
    /\ call[c].result = "key" =>
         \E u \in Recent(c) : call[c].kid \in PublishedAt(u)
    /\ call[c].result = "unauthenticated" =>
         \E u \in Recent(c) : call[c].kid \notin PublishedAt(u)

\* Unknown kids cost the issuer at most one force-refresh per generation, failed
\* ones included, and TTL refreshes are single flight: while one call fetches, the
\* others that find the cache stale wait for it.
FetchesBounded ==
  \A c, d \in Calls :
    \/ /\ call[c].role = "force" /\ call[d].role = "force"
       /\ call[c].claimedGen = call[d].claimedGen
    \/ /\ call[c].role = "ttl" /\ call[d].role = "ttl"
       /\ ~At(c, "done") /\ ~At(d, "done")
    => c = d

\* No wakeup is lost: every call that has begun returns, also when the call it
\* waits for fails, is overtaken by a new generation or has its forceWait cleared
\* by another.
EveryCallReturns == \A c \in Calls : At(c, "looking") ~> At(c, "done")
=============================================================================
