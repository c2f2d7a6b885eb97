--------------------------- MODULE JWKSCacheProofs --------------------------
(***************************************************************************)
(* Theorems about the cache of signing keys of module JWKSCache, for any   *)
(* number of calls, any keys, and any TTL and fetch time.                  *)
(***************************************************************************)
EXTENDS JWKSCache, FiniteSetTheorems, SequenceTheorems, TLAPS

-----------------------------------------------------------------------------
(***************************************************************************)
(* The inductive invariant.                                                *)
(***************************************************************************)

CallRecord == [at : Places, kid : Kids \cup {None}, role : Roles,
               wait : Calls \cup {None}, claimedGen : Nat, claimedFetchedAt : Nat,
               since : Nat, fetched : SUBSET Kids, failed : BOOLEAN,
               closed : BOOLEAN, result : Results, answeredAt : Nat]

IssuerType == issuer \in Seq(Documents) /\ Len(issuer) \in 1..(MaxClock + 1)

CacheType ==
  /\ keys \subseteq Kids /\ hasCache \in BOOLEAN
  /\ fetchedAt \in 0..Now
  /\ generation \in Nat /\ forceClaimedGen \in 0..generation
  /\ forceWait \in Calls \cup {None} /\ ttlWait \in Calls \cup {None}

Types == IssuerType /\ CacheType /\ call \in [Calls -> CallRecord]

InFlight(c) == call[c].at \in {"fetching", "fetched"}

\* A fetch is in time, and what it has brought was published after it began.
FlightInv(c) ==
  InFlight(c) =>
    /\ call[c].role # "none"
    /\ call[c].since <= Now /\ Now <= call[c].since + FetchTime
    /\ At(c, "fetched") /\ ~call[c].failed =>
         \E s \in call[c].since..Now : call[c].fetched = PublishedAt(s)

\* A force-refresh was claimed in a fresh generation: in this one, or before this
\* one was opened.
ForceInv(c) ==
  call[c].role = "force" =>
    /\ call[c].claimedGen <= forceClaimedGen
    /\ InFlight(c) =>
         /\ hasCache
         /\ call[c].claimedGen = generation =>
              /\ call[c].claimedFetchedAt = fetchedAt
              /\ fetchedAt <= call[c].since /\ call[c].since < fetchedAt + TTL
         /\ call[c].claimedGen # generation => call[c].since <= fetchedAt

\* The one TTL refresh was begun in this generation, when it was over.
TtlInv(c) ==
  call[c].role = "ttl" /\ InFlight(c) =>
    /\ ttlWait = c /\ call[c].claimedGen = generation
    /\ hasCache => fetchedAt + TTL <= call[c].since

\* A call has a role once it fetches, and an answer once it is done.
StoryInv(c) ==
  /\ call[c].role # "none" => InFlight(c) \/ At(c, "done")
  /\ call[c].result # "none" => At(c, "done")

\* AnswersFresh for one call; the answer lies in the past.
AnswerInv(c) ==
  /\ call[c].answeredAt <= Now
  /\ call[c].result = "key" =>
       \E u \in Recent(c) : call[c].kid \in PublishedAt(u)
  /\ call[c].result = "unauthenticated" =>
       \E u \in Recent(c) : call[c].kid \notin PublishedAt(u)

CallInv(c) == FlightInv(c) /\ ForceInv(c) /\ TtlInv(c) /\ StoryInv(c) /\ AnswerInv(c)

\* The keys are a document published at most one fetch before the generation, and
\* after every force-refresh began that outlived its own generation.
Dated(s) ==
  /\ keys = PublishedAt(s)
  /\ fetchedAt <= s + FetchTime
  /\ \A c \in Calls : /\ call[c].role = "force" /\ InFlight(c)
                      /\ call[c].claimedGen # generation
                      => call[c].since <= s

KeysDated == hasCache => \E s \in 0..Now : Dated(s)

\* A generation is claimed once.
OneClaim ==
  \A c, d \in Calls : /\ call[c].role = "force" /\ call[d].role = "force"
                      /\ call[c].claimedGen = call[d].claimedGen
                      => c = d

\* Each generation but the first was opened by a TTL refresh of its own.
Openers == {c \in Calls : call[c].role = "ttl" /\ At(c, "done")}
GenerationsCounted == generation <= Cardinality(Openers) + 1

\* AnswersFresh is not inductive: what a call answers depends on the age of keys
\* that other calls have put into the cache while it was away.
CacheInv ==
  /\ Types /\ KeysDated /\ OneClaim /\ GenerationsCounted
  /\ \A c \in Calls : CallInv(c)

-----------------------------------------------------------------------------
(***************************************************************************)
(* What steps have in common.                                              *)
(***************************************************************************)

\* The past stays as it was published.
Grows ==
  /\ Now <= Now'
  /\ \A u \in 0..Now : PublishedAt(u)' = PublishedAt(u)

\* A call's record has all its fields.
LEMMA CallFields ==
  ASSUME Types, NEW c \in Calls
  PROVE  /\ call[c].at \in Places /\ call[c].role \in Roles
         /\ call[c].kid \in Kids \cup {None} /\ call[c].wait \in Calls \cup {None}
         /\ call[c].claimedGen \in Nat /\ call[c].claimedFetchedAt \in Nat
         /\ call[c].since \in Nat /\ call[c].fetched \in SUBSET Kids
         /\ call[c].failed \in BOOLEAN /\ call[c].closed \in BOOLEAN
         /\ call[c].result \in Results /\ call[c].answeredAt \in Nat
BY DEF Types, CallRecord

\* The clock and the numbers of the cache.
LEMMA Numbers ==
  ASSUME Types
  PROVE  /\ Now \in Nat /\ Now <= MaxClock
         /\ fetchedAt \in Nat /\ fetchedAt <= Now
         /\ generation \in Nat /\ forceClaimedGen \in Nat
         /\ forceClaimedGen <= generation
         /\ TTL \in Nat /\ TTL > 0 /\ FetchTime \in Nat /\ MaxClock \in Nat
BY ConstantsAssumption DEF Types, IssuerType, CacheType, Now

\* A call that takes no step keeps its part of the invariant, in a generation that
\* stays or in the next one.
LEMMA CallKept ==
  ASSUME Types, Types', Grows, NEW c \in Calls, CallInv(c), call'[c] = call[c],
         InFlight(c) => Now' <= call[c].since + FetchTime,
         hasCache => hasCache', forceClaimedGen <= forceClaimedGen',
         \/ /\ UNCHANGED <<generation, fetchedAt, hasCache>>
            /\ ttlWait = c => ttlWait' = c
         \/ /\ generation' > generation /\ fetchedAt' = Now
            /\ ttlWait # c
  PROVE  CallInv(c)'
<1> USE DEF CallInv
<1>1. /\ Now \in Nat /\ Now' \in Nat /\ Now <= Now'
      /\ generation \in Nat /\ generation' \in Nat
      /\ forceClaimedGen \in Nat /\ forceClaimedGen' \in Nat
      /\ forceClaimedGen <= generation
      /\ call[c].claimedGen \in Nat /\ call[c].since \in Nat /\ call[c].answeredAt \in Nat
  <2>1. Now \in Nat /\ Now' \in Nat /\ Now <= Now'
    BY Numbers DEF Types, IssuerType, Now, Grows
  <2>2. /\ generation \in Nat /\ generation' \in Nat
        /\ forceClaimedGen \in Nat /\ forceClaimedGen' \in Nat
        /\ forceClaimedGen <= generation
    BY DEF Types, CacheType
  <2> QED BY <2>1, <2>2, CallFields
<1>2. InFlight(c)' <=> InFlight(c)
  BY DEF InFlight
<1>3. FlightInv(c)'
  <2> SUFFICES ASSUME InFlight(c)
               PROVE  /\ call[c].role # "none"
                      /\ call[c].since <= Now' /\ Now' <= call[c].since + FetchTime
                      /\ At(c, "fetched") /\ ~call[c].failed =>
                           \E s \in call[c].since..Now' : call[c].fetched = PublishedAt(s)'
    BY <1>2 DEF FlightInv, At
  <2>1. /\ call[c].role # "none"
        /\ call[c].since <= Now
        /\ At(c, "fetched") /\ ~call[c].failed =>
             \E s \in call[c].since..Now : call[c].fetched = PublishedAt(s)
    BY DEF FlightInv
  <2>2. \A s \in call[c].since..Now : s \in 0..Now /\ s \in call[c].since..Now'
    BY <1>1
  <2> QED BY <1>1, <2>1, <2>2 DEF Grows
<1>4. ForceInv(c)'
  BY <1>1, <1>2 DEF ForceInv, FlightInv
<1>5. TtlInv(c)'
  BY <1>2 DEF TtlInv
<1>6. StoryInv(c)'
  BY <1>2 DEF StoryInv, At
<1>7. AnswerInv(c)'
  <2>1. Recent(c)' = Recent(c) /\ Recent(c) \subseteq 0..Now
    BY <1>1 DEF Recent, AnswerInv
  <2> QED BY <1>1, <2>1 DEF AnswerInv, Grows
<1> QED BY <1>3, <1>4, <1>5, <1>6, <1>7

\* Without a step of the issuer the past does not grow.
LEMMA SameIssuer == ASSUME Types, issuer' = issuer PROVE Grows
BY Numbers DEF Grows, Now, PublishedAt

\* The keys of a fresh cache were published less than a TTL and a fetch ago.
LEMMA FreshKeys ==
  ASSUME Types, KeysDated, Fresh
  PROVE  \E u \in 0..Now : Now - u < TTL + FetchTime /\ keys = PublishedAt(u)
<1>1. PICK s \in 0..Now : Dated(s)
  BY DEF KeysDated, Fresh
<1> QED BY <1>1, Numbers DEF Fresh, Dated

\* Calls that differ in the record of c alone.
LEMMA CallSet ==
  ASSUME call \in [Calls -> CallRecord], NEW c \in Calls, NEW r \in CallRecord,
         call' = [call EXCEPT ![c] = r]
  PROVE  /\ call' \in [Calls -> CallRecord] /\ call'[c] = r
         /\ \A x \in Calls : x # c => call'[x] = call[x]
OBVIOUS

\* A returning call: its record, and when its answer is fresh.
LEMMA Returned ==
  ASSUME Types, NEW c \in Calls, NEW result \in Results, CallInv(c),
         \/ call' = [call EXCEPT ![c] = Answered(c, result)]
         \/ call' = [call EXCEPT ![c] = CloseAndReturn(c, result)]
  PROVE  /\ call' \in [Calls -> CallRecord]
         /\ \A x \in Calls : x # c => call'[x] = call[x]
         /\ call'[c].at = "done" /\ call'[c].kid = call[c].kid
         /\ call'[c].role = call[c].role /\ call'[c].claimedGen = call[c].claimedGen
         /\ call'[c].result = result /\ call'[c].answeredAt = Now
<1>1. /\ Now \in Nat /\ "done" \in Places
      /\ call[c].kid \in Kids \cup {None} /\ call[c].role \in Roles
      /\ call[c].claimedGen \in Nat
  BY CallFields, Numbers DEF Places
<1>2. call \in [Calls -> CallRecord]
  BY DEF Types
<1>3. \A x \in Calls : x # c => call'[x] = call[x]
  BY <1>2
<1>4. call'[c] = Answered(c, result) \/ call'[c] = CloseAndReturn(c, result)
  BY <1>2
<1>5. NoCall \in CallRecord
  BY DEF NoCall, CallRecord, Places, Roles, Results
<1>6. /\ Answered(c, result) \in CallRecord
      /\ Answered(c, result).at = "done" /\ Answered(c, result).kid = call[c].kid
      /\ Answered(c, result).role = call[c].role
      /\ Answered(c, result).claimedGen = call[c].claimedGen
      /\ Answered(c, result).result = result /\ Answered(c, result).answeredAt = Now
  BY <1>1, <1>5 DEF Answered, CallRecord
<1>7. \A a \in CallRecord :
        /\ [a EXCEPT !.closed = TRUE] \in CallRecord
        /\ [a EXCEPT !.closed = TRUE].at = a.at
        /\ [a EXCEPT !.closed = TRUE].kid = a.kid
        /\ [a EXCEPT !.closed = TRUE].role = a.role
        /\ [a EXCEPT !.closed = TRUE].claimedGen = a.claimedGen
        /\ [a EXCEPT !.closed = TRUE].result = a.result
        /\ [a EXCEPT !.closed = TRUE].answeredAt = a.answeredAt
  BY DEF CallRecord
<1>8. call' \in [Calls -> CallRecord]
  <2>2. Answered(c, result) \in CallRecord
    BY <1>6
  <2>c. \A a \in CallRecord : [a EXCEPT !.closed = TRUE] \in CallRecord
    BY <1>7
  <2>1. CloseAndReturn(c, result) \in CallRecord
    BY <2>2, <2>c, Zenon DEF CloseAndReturn
  <2>3. CASE call' = [call EXCEPT ![c] = Answered(c, result)]
    BY <1>2, <2>2, <2>3
  <2>4. CASE call' = [call EXCEPT ![c] = CloseAndReturn(c, result)]
    BY <1>2, <2>1, <2>4
  <2> QED BY <2>3, <2>4
<1>9. /\ call'[c].at = "done" /\ call'[c].kid = call[c].kid
      /\ call'[c].role = call[c].role /\ call'[c].claimedGen = call[c].claimedGen
      /\ call'[c].result = result /\ call'[c].answeredAt = Now
  <2>1. CASE call'[c] = Answered(c, result)
    BY <1>6, <2>1
  <2>2. CASE call'[c] = CloseAndReturn(c, result)
    <3>a. PICK a \in CallRecord : a = Answered(c, result)
      BY <1>6
    <3>1. call'[c] = [a EXCEPT !.closed = TRUE]
      BY <2>2, <3>a DEF CloseAndReturn
    <3>2. /\ call'[c].at = a.at /\ call'[c].kid = a.kid /\ call'[c].role = a.role
          /\ call'[c].claimedGen = a.claimedGen /\ call'[c].result = a.result
          /\ call'[c].answeredAt = a.answeredAt
      BY <1>7, <3>1
    <3> QED BY <1>6, <3>2, <3>a
  <2> QED BY <1>4, <2>1, <2>2
<1> QED BY <1>3, <1>8, <1>9

-----------------------------------------------------------------------------
(***************************************************************************)
(* The steps that leave the cache alone.                                   *)
(***************************************************************************)

\* A step of call c alone keeps the invariant if it keeps c's part of it and takes
\* up no new role.
LEMMA OwnStep ==
  ASSUME CacheInv, NEW c \in Calls, UNCHANGED <<issuer, cacheVars>>,
         call' \in [Calls -> CallRecord],
         \A x \in Calls : x # c => call'[x] = call[x],
         call'[c].role = call[c].role, call'[c].claimedGen = call[c].claimedGen,
         InFlight(c)' => InFlight(c) /\ call'[c].since = call[c].since,
         At(c, "done")' /\ ~At(c, "done") => call[c].role # "ttl",
         At(c, "done") => At(c, "done")',
         CallInv(c)'
  PROVE  CacheInv'
<1> USE DEF CacheInv
<1>1. /\ UNCHANGED <<issuer, keys, fetchedAt, hasCache, generation, forceClaimedGen,
                     forceWait, ttlWait>>
  BY DEF cacheVars
<1>2. Types'
  BY <1>1 DEF Types, IssuerType, CacheType, Now
<1>3. \A x \in Calls : CallInv(x)'
  <2> SUFFICES ASSUME NEW x \in Calls, x # c PROVE CallInv(x)'
    OBVIOUS
  <2>1. InFlight(x) => Now' <= call[x].since + FetchTime
    BY <1>1 DEF CallInv, FlightInv, Now
  <2>2. forceClaimedGen <= forceClaimedGen'
    BY <1>1, Numbers
  <2> QED BY <1>1, <1>2, <2>1, <2>2, CallKept, SameIssuer
<1>4. KeysDated'
  <2> SUFFICES ASSUME hasCache PROVE \E s \in 0..Now : Dated(s)'
    BY <1>1 DEF KeysDated, Now
  <2>1. PICK s \in 0..Now : Dated(s)
    BY DEF KeysDated
  <2>2. \A x \in Calls : InFlight(x)' => InFlight(x) /\ call'[x].since = call[x].since
    BY DEF InFlight
  <2>3. \A x \in Calls : call'[x].role = call[x].role /\ call'[x].claimedGen = call[x].claimedGen
    OBVIOUS
  <2>4. Dated(s)'
    BY <1>1, <2>1, <2>2, <2>3 DEF Dated, PublishedAt
  <2> QED BY <2>4
<1>5. OneClaim'
  BY DEF OneClaim
<1>6. GenerationsCounted'
  <2>1. Openers' = Openers
    BY DEF Openers, At
  <2> QED BY <1>1, <2>1 DEF GenerationsCounted
<1> QED BY <1>2, <1>3, <1>4, <1>5, <1>6

\* The record r of a call becomes m, at another place, without a fetch.
Moved(r, a, m) ==
  /\ m \in CallRecord /\ m.at = a
  /\ m.role = r.role /\ m.claimedGen = r.claimedGen /\ m.since = r.since
  /\ m.result = r.result /\ m.answeredAt = r.answeredAt

\* A call that begins, and one that begins or ends to wait.
LEMMA MovedRecord ==
  ASSUME NEW r \in CallRecord, NEW a \in Places
  PROVE  /\ \A kid \in Kids : Moved(r, a, [r EXCEPT !.at = a, !.kid = kid])
         /\ \A w \in Calls \cup {None} : Moved(r, a, [r EXCEPT !.at = a, !.wait = w])
<1>1. \A kid \in Kids : Moved(r, a, [r EXCEPT !.at = a, !.kid = kid])
  BY DEF CallRecord, Moved
<1>2. \A w \in Calls \cup {None} : Moved(r, a, [r EXCEPT !.at = a, !.wait = w])
  BY DEF CallRecord, Moved
<1> QED BY <1>1, <1>2, Zenon

\* A call that has not fetched begins, waits for another or looks again.
LEMMA MoveStep ==
  ASSUME CacheInv, NEW c \in Calls,
         \/ \E kid \in Kids : Begin(c, kid)
         \/ FollowForce(c) \/ FollowTtl(c) \/ WakeUp(c)
  PROVE  CacheInv'
<1> USE DEF CacheInv
<1>1. /\ UNCHANGED <<issuer, cacheVars>>
      /\ call[c].at \in {"idle", "looking", "waiting"} /\ CallInv(c)
  BY DEF Begin, FollowForce, FollowTtl, WakeUp, Miss, At
<1>2. /\ call[c].role = "none" /\ call[c].result = "none"
  BY <1>1 DEF CallInv, StoryInv, InFlight, At
<1>3. forceWait \in Calls \cup {None} /\ ttlWait \in Calls \cup {None}
  BY DEF Types, CacheType
<1>4. call \in [Calls -> CallRecord] /\ "looking" \in Places /\ "waiting" \in Places
  BY DEF Types, Places
<1>5. \E m, a : call' = [call EXCEPT ![c] = m] /\ Moved(call[c], a, m) /\ a \in {"looking", "waiting"}
  <2>1. CASE \E kid \in Kids : Begin(c, kid)
    <3>1. PICK kid \in Kids : call' = [call EXCEPT ![c].at = "looking", ![c].kid = kid]
      BY <2>1 DEF Begin
    <3>2. call' = [call EXCEPT ![c] = [call[c] EXCEPT !.at = "looking", !.kid = kid]]
      BY <1>4, <3>1
    <3>3. Moved(call[c], "looking", [call[c] EXCEPT !.at = "looking", !.kid = kid])
      BY <1>4, MovedRecord, Zenon
    <3> QED BY <3>2, <3>3, Zenon
  <2>2. CASE FollowForce(c)
    <3>1. call' = [call EXCEPT ![c] = [call[c] EXCEPT !.at = "waiting", !.wait = forceWait]]
      BY <1>4, <2>2 DEF FollowForce
    <3>2. Moved(call[c], "waiting", [call[c] EXCEPT !.at = "waiting", !.wait = forceWait])
      BY <1>3, <1>4, MovedRecord, Zenon
    <3> QED BY <3>1, <3>2, Zenon
  <2>3. CASE FollowTtl(c)
    <3>1. call' = [call EXCEPT ![c] = [call[c] EXCEPT !.at = "waiting", !.wait = ttlWait]]
      BY <1>4, <2>3 DEF FollowTtl
    <3>2. Moved(call[c], "waiting", [call[c] EXCEPT !.at = "waiting", !.wait = ttlWait])
      BY <1>3, <1>4, MovedRecord, Zenon
    <3> QED BY <3>1, <3>2, Zenon
  <2>4. CASE WakeUp(c)
    <3>1. call' = [call EXCEPT ![c] = [call[c] EXCEPT !.at = "looking", !.wait = None]]
      BY <1>4, <2>4 DEF WakeUp
    <3>2. Moved(call[c], "looking", [call[c] EXCEPT !.at = "looking", !.wait = None])
      BY <1>4, MovedRecord, Zenon
    <3> QED BY <3>1, <3>2, Zenon
  <2> QED BY <2>1, <2>2, <2>3, <2>4
<1>6. PICK m, a : call' = [call EXCEPT ![c] = m] /\ Moved(call[c], a, m) /\ a \in {"looking", "waiting"}
  BY <1>5
<1>7. call' \in [Calls -> CallRecord] /\ call'[c] = m
      /\ \A x \in Calls : x # c => call'[x] = call[x]
  BY <1>4, <1>6, CallSet DEF Moved
<1>8. /\ call'[c].at \in {"looking", "waiting"}
      /\ call'[c].role = call[c].role /\ call'[c].claimedGen = call[c].claimedGen
      /\ call'[c].since = call[c].since
      /\ call'[c].result = call[c].result /\ call'[c].answeredAt = call[c].answeredAt
  BY <1>6, <1>7 DEF Moved
<1>9. CallInv(c)'
  <2>1. ~InFlight(c)' /\ ~At(c, "done")'
    BY <1>8 DEF InFlight, At
  <2>2. call'[c].answeredAt <= Now'
    BY <1>1, <1>8 DEF CallInv, AnswerInv, Now
  <2> QED
    BY <1>2, <1>8, <2>1, <2>2
    DEF CallInv, FlightInv, ForceInv, TtlInv, StoryInv, AnswerInv
<1>10. ~InFlight(c)' /\ ~At(c, "done")' /\ ~At(c, "done")
  BY <1>1, <1>8 DEF InFlight, At
<1> QED BY <1>1, <1>7, <1>8, <1>9, <1>10, OwnStep

\* A call that has not fetched is answered from the cache, or its context ends.
LEMMA AnswerStep ==
  ASSUME CacheInv, NEW c \in Calls, Hit(c) \/ Reject(c) \/ Cancelled(c)
  PROVE  CacheInv'
<1> USE DEF CacheInv
<1>1. /\ UNCHANGED <<issuer, cacheVars>>
      /\ call[c].at \in {"looking", "waiting"} /\ CallInv(c)
  BY DEF Hit, Reject, Cancelled, Miss, At
<1>2. call[c].role = "none"
  BY <1>1 DEF CallInv, StoryInv, InFlight, At
<1>3. PICK result \in Results :
        /\ call' = [call EXCEPT ![c] = Answered(c, result)]
        /\ \/ result = "key" /\ Fresh /\ call[c].kid \in keys
           \/ result = "unauthenticated" /\ Fresh /\ call[c].kid \notin keys
           \/ result = "unavailable"
  BY DEF Hit, Reject, Cancelled, Miss, Results
<1>4. /\ call' \in [Calls -> CallRecord]
      /\ \A x \in Calls : x # c => call'[x] = call[x]
      /\ call'[c].at = "done" /\ call'[c].kid = call[c].kid
      /\ call'[c].role = call[c].role /\ call'[c].claimedGen = call[c].claimedGen
      /\ call'[c].result = result /\ call'[c].answeredAt = Now
  BY <1>1, <1>3, Returned
<1>5. UNCHANGED issuer /\ Now' = Now /\ Now \in Nat
  BY <1>1, Numbers DEF Now
<1>6. AnswerInv(c)'
  <2>1. Recent(c)' = {u \in 0..Now : Now - u < TTL + FetchTime}
    BY <1>4 DEF Recent
  <2>2. result # "unavailable" =>
          \E u \in Recent(c)' : keys = PublishedAt(u)'
    BY <1>3, <1>5, <2>1, FreshKeys DEF PublishedAt
  <2> QED BY <1>3, <1>4, <1>5, <2>2 DEF AnswerInv
<1>7. ~InFlight(c)' /\ At(c, "done")'
  BY <1>4 DEF InFlight, At
<1>8. CallInv(c)'
  BY <1>2, <1>4, <1>6, <1>7 DEF CallInv, FlightInv, ForceInv, TtlInv, StoryInv
<1> QED BY <1>1, <1>2, <1>4, <1>7, <1>8, OwnStep

\* A fetch returns: with the document published now, or without.
LEMMA FetchStep ==
  ASSUME CacheInv, NEW c \in Calls, FetchAnswers(c) \/ FetchFails(c)
  PROVE  CacheInv'
<1> USE DEF CacheInv
<1>1. /\ UNCHANGED <<issuer, cacheVars>> /\ At(c, "fetching") /\ CallInv(c)
  BY DEF FetchAnswers, FetchFails
<1>2. /\ call \in [Calls -> CallRecord] /\ "fetched" \in Places
      /\ PublishedAt(Now) \in SUBSET Kids /\ Now \in Nat
  BY ConstantsAssumption DEF Types, IssuerType, Places, PublishedAt, Now
<1>3. /\ call' \in [Calls -> CallRecord]
      /\ \A x \in Calls : x # c => call'[x] = call[x]
      /\ call'[c].at = "fetched" /\ call'[c].kid = call[c].kid
      /\ call'[c].role = call[c].role /\ call'[c].claimedGen = call[c].claimedGen
      /\ call'[c].claimedFetchedAt = call[c].claimedFetchedAt
      /\ call'[c].since = call[c].since
      /\ call'[c].result = call[c].result /\ call'[c].answeredAt = call[c].answeredAt
      /\ call'[c].failed \/ call'[c].fetched = PublishedAt(Now)
  <2>1. /\ call[c] \in CallRecord
        /\ \/ call' = [call EXCEPT ![c] = [call[c] EXCEPT !.at = "fetched", !.fetched = PublishedAt(Now)]]
           \/ call' = [call EXCEPT ![c] = [call[c] EXCEPT !.at = "fetched", !.failed = TRUE]]
    BY <1>2 DEF FetchAnswers, FetchFails
  <2>2. \/ call'[c] = [call[c] EXCEPT !.at = "fetched", !.fetched = PublishedAt(Now)]
        \/ call'[c] = [call[c] EXCEPT !.at = "fetched", !.failed = TRUE]
    BY <1>2, <2>1
  <2>3. /\ [call[c] EXCEPT !.at = "fetched", !.fetched = PublishedAt(Now)] \in CallRecord
        /\ [call[c] EXCEPT !.at = "fetched", !.failed = TRUE] \in CallRecord
    BY <1>2, <2>1 DEF CallRecord
  <2>4. /\ call'[c].at = "fetched" /\ call'[c].kid = call[c].kid
        /\ call'[c].role = call[c].role /\ call'[c].claimedGen = call[c].claimedGen
        /\ call'[c].claimedFetchedAt = call[c].claimedFetchedAt
        /\ call'[c].since = call[c].since
        /\ call'[c].result = call[c].result /\ call'[c].answeredAt = call[c].answeredAt
        /\ call'[c].failed \/ call'[c].fetched = PublishedAt(Now)
    BY <2>1, <2>2 DEF CallRecord
  <2> QED BY <1>2, <2>1, <2>3, <2>4, CallSet
<1>4. /\ UNCHANGED <<issuer, hasCache, generation, fetchedAt, forceClaimedGen, ttlWait>>
      /\ Now' = Now
  BY <1>1 DEF cacheVars, Now
<1>5. InFlight(c) /\ InFlight(c)' /\ ~At(c, "done") /\ ~At(c, "done")'
  BY <1>1, <1>3 DEF InFlight, At
<1>6. FlightInv(c)'
  <2>1. /\ call[c].role # "none"
        /\ call[c].since <= Now /\ Now <= call[c].since + FetchTime
    BY <1>1, <1>5 DEF CallInv, FlightInv
  <2>2. call'[c].failed \/ call'[c].fetched = PublishedAt(Now)'
    BY <1>3, <1>4 DEF PublishedAt
  <2>3. Now \in call[c].since..Now
    BY <1>2, <2>1, CallFields
  <2> QED BY <1>3, <1>4, <2>1, <2>2, <2>3 DEF FlightInv
<1>7. ForceInv(c)' /\ TtlInv(c)'
  BY <1>1, <1>3, <1>4, <1>5 DEF CallInv, ForceInv, TtlInv
<1>8. StoryInv(c)'
  BY <1>1, <1>3, <1>5 DEF CallInv, StoryInv
<1>9. AnswerInv(c)'
  <2>1. call[c].result = "none" /\ call[c].answeredAt <= Now
    BY <1>1, <1>5 DEF CallInv, StoryInv, AnswerInv
  <2> QED BY <1>3, <1>4, <2>1 DEF AnswerInv
<1>10. CallInv(c)'
  BY <1>6, <1>7, <1>8, <1>9 DEF CallInv
<1> QED BY <1>1, <1>3, <1>5, <1>10, OwnStep

-----------------------------------------------------------------------------
(***************************************************************************)
(* The steps that change the cache, and the passing of time.               *)
(***************************************************************************)

\* A call that takes up a force-refresh, and one that takes up the TTL refresh.
Forcing(r, g, f, now) ==
  [r EXCEPT !.at = "fetching", !.role = "force", !.claimedGen = g,
            !.claimedFetchedAt = f, !.since = now]
Refreshing(r, g, now) ==
  [r EXCEPT !.at = "fetching", !.role = "ttl", !.claimedGen = g, !.since = now]

\* They keep the shape of a call.
LEMMA SetForce ==
  ASSUME NEW r \in CallRecord, NEW g \in Nat, NEW f \in Nat, NEW now \in Nat
  PROVE  /\ Forcing(r, g, f, now) \in CallRecord
         /\ Forcing(r, g, f, now).at = "fetching"
         /\ Forcing(r, g, f, now).role = "force"
         /\ Forcing(r, g, f, now).claimedGen = g
         /\ Forcing(r, g, f, now).claimedFetchedAt = f
         /\ Forcing(r, g, f, now).since = now
         /\ Forcing(r, g, f, now).result = r.result
         /\ Forcing(r, g, f, now).answeredAt = r.answeredAt
BY DEF Forcing, CallRecord, Places, Roles

\* Likewise.
LEMMA SetTtl ==
  ASSUME NEW r \in CallRecord, NEW g \in Nat, NEW now \in Nat
  PROVE  /\ Refreshing(r, g, now) \in CallRecord
         /\ Refreshing(r, g, now).at = "fetching"
         /\ Refreshing(r, g, now).role = "ttl"
         /\ Refreshing(r, g, now).claimedGen = g
         /\ Refreshing(r, g, now).since = now
         /\ Refreshing(r, g, now).result = r.result
         /\ Refreshing(r, g, now).answeredAt = r.answeredAt
BY DEF Refreshing, CallRecord, Places, Roles

\* A claim: no other call has one for this generation, and the keys need not be
\* newer than its fetch until another generation is opened.
LEMMA LeadForceStep ==
  ASSUME CacheInv, NEW c \in Calls, LeadForce(c)
  PROVE  CacheInv'
<1> USE DEF CacheInv
<1>1. /\ UNCHANGED <<issuer, keys, fetchedAt, hasCache, generation, ttlWait>>
      /\ At(c, "looking") /\ Fresh /\ forceClaimedGen # generation
      /\ forceWait' = c /\ forceClaimedGen' = generation /\ CallInv(c)
  BY DEF LeadForce, Miss
<1>2. /\ Now \in Nat /\ generation \in Nat /\ fetchedAt \in Nat
  BY Numbers
<1>3. /\ call' \in [Calls -> CallRecord]
      /\ \A x \in Calls : x # c => call'[x] = call[x]
      /\ call'[c].at = "fetching" /\ call'[c].role = "force"
      /\ call'[c].claimedGen = generation /\ call'[c].claimedFetchedAt = fetchedAt
      /\ call'[c].since = Now
      /\ call'[c].result = call[c].result /\ call'[c].answeredAt = call[c].answeredAt
  <2> DEFINE r == Forcing(call[c], generation, fetchedAt, Now)
  <2>1. call' = [call EXCEPT ![c] = r]
    BY DEF LeadForce, Forcing
  <2>2. call \in [Calls -> CallRecord] /\ call[c] \in CallRecord
    BY DEF Types
  <2>3. /\ r \in CallRecord /\ r.at = "fetching" /\ r.role = "force"
        /\ r.claimedGen = generation /\ r.claimedFetchedAt = fetchedAt /\ r.since = Now
        /\ r.result = call[c].result /\ r.answeredAt = call[c].answeredAt
    BY <1>2, <2>2, SetForce
  <2> HIDE DEF r
  <2> QED BY <2>1, <2>2, <2>3
<1>4. Types'
  BY <1>1, <1>2, <1>3 DEF Types, IssuerType, CacheType, Now
<1>5. call[c].role = "none" /\ call[c].result = "none" /\ call[c].answeredAt <= Now
  BY <1>1 DEF CallInv, StoryInv, AnswerInv, InFlight, At
<1>6. CallInv(c)'
  <2>1. Now' = Now /\ InFlight(c)' /\ ~At(c, "fetched")' /\ ~At(c, "done")'
    BY <1>1, <1>3 DEF Now, InFlight, At
  <2>2. hasCache /\ Now < fetchedAt + TTL /\ fetchedAt <= Now
    BY <1>1, <1>2, Numbers DEF Fresh
  <2>3. FlightInv(c)'
    BY <1>2, <1>3, <2>1, Numbers DEF FlightInv
  <2>4. ForceInv(c)'
    BY <1>1, <1>2, <1>3, <2>2 DEF ForceInv
  <2> QED
    BY <1>3, <1>5, <2>1, <2>3, <2>4 DEF CallInv, TtlInv, StoryInv, AnswerInv
<1>7. ASSUME NEW x \in Calls, x # c PROVE CallInv(x)'
  <2>1. InFlight(x) => Now' <= call[x].since + FetchTime
    BY <1>1 DEF CallInv, FlightInv, Now
  <2>2. forceClaimedGen <= forceClaimedGen'
    BY <1>1, Numbers
  <2> QED BY <1>1, <1>3, <1>4, <1>7, <2>1, <2>2, CallKept, SameIssuer
<1>8. KeysDated'
  <2>1. PICK s \in 0..Now : Dated(s)
    BY <1>1 DEF KeysDated, Fresh
  <2>2. Dated(s)'
    <3>1. ASSUME NEW x \in Calls, call'[x].role = "force", InFlight(x)',
                 call'[x].claimedGen # generation
          PROVE  call'[x].since <= s
      BY <1>3, <2>1, <3>1 DEF Dated, InFlight
    <3> QED BY <1>1, <2>1, <3>1 DEF Dated, PublishedAt
  <2> QED BY <1>1, <2>2 DEF KeysDated, Now
<1>9. OneClaim'
  <2>1. ASSUME NEW x \in Calls, call[x].role = "force" PROVE call[x].claimedGen # generation
    BY <1>1, <1>2, <2>1, Numbers, CallFields DEF CallInv, ForceInv
  <2> QED BY <1>3, <2>1 DEF OneClaim
<1>10. GenerationsCounted'
  <2>1. Openers' = Openers
    BY <1>3, <1>5 DEF Openers, At
  <2> QED BY <1>1, <2>1 DEF GenerationsCounted
<1> QED BY <1>4, <1>6, <1>7, <1>8, <1>9, <1>10

\* The one TTL refresh begins when there is none and the generation is over.
LEMMA LeadTtlStep ==
  ASSUME CacheInv, NEW c \in Calls, LeadTtl(c)
  PROVE  CacheInv'
<1> USE DEF CacheInv
<1>1. /\ UNCHANGED <<issuer, keys, fetchedAt, hasCache, generation, forceClaimedGen,
                     forceWait>>
      /\ At(c, "looking") /\ ~Fresh /\ ttlWait = None /\ ttlWait' = c /\ CallInv(c)
  BY DEF LeadTtl
<1>2. /\ Now \in Nat /\ generation \in Nat /\ fetchedAt \in Nat
  BY Numbers
<1>3. /\ call' \in [Calls -> CallRecord]
      /\ \A x \in Calls : x # c => call'[x] = call[x]
      /\ call'[c].at = "fetching" /\ call'[c].role = "ttl"
      /\ call'[c].claimedGen = generation /\ call'[c].since = Now
      /\ call'[c].result = call[c].result /\ call'[c].answeredAt = call[c].answeredAt
  <2>1. call' = [call EXCEPT ![c] = Refreshing(call[c], generation, Now)]
    BY DEF LeadTtl, Refreshing
  <2>2. call \in [Calls -> CallRecord] /\ call[c] \in CallRecord
    BY DEF Types
  <2> QED BY <1>2, <2>1, <2>2, SetTtl
<1>4. Types'
  BY <1>1, <1>2, <1>3 DEF Types, IssuerType, CacheType, Now
<1>5. call[c].role = "none" /\ call[c].result = "none" /\ call[c].answeredAt <= Now
  BY <1>1 DEF CallInv, StoryInv, AnswerInv, InFlight, At
<1>6. CallInv(c)'
  <2>1. Now' = Now /\ InFlight(c)' /\ ~At(c, "fetched")' /\ ~At(c, "done")'
    BY <1>1, <1>3 DEF Now, InFlight, At
  <2>2. hasCache => fetchedAt + TTL <= Now
    BY <1>1, <1>2, Numbers DEF Fresh
  <2>3. FlightInv(c)'
    BY <1>2, <1>3, <2>1, Numbers DEF FlightInv
  <2>4. TtlInv(c)'
    BY <1>1, <1>3, <2>2 DEF TtlInv
  <2> QED
    BY <1>3, <1>5, <2>1, <2>3, <2>4 DEF CallInv, ForceInv, StoryInv, AnswerInv
<1>7. ASSUME NEW x \in Calls, x # c PROVE CallInv(x)'
  <2>1. InFlight(x) => Now' <= call[x].since + FetchTime
    BY <1>1 DEF CallInv, FlightInv, Now
  <2>2. forceClaimedGen <= forceClaimedGen' /\ ttlWait # x
    BY <1>1, Numbers, ConstantsAssumption
  <2> QED BY <1>1, <1>3, <1>4, <1>7, <2>1, <2>2, CallKept, SameIssuer
<1>8. KeysDated'
  <2> SUFFICES ASSUME hasCache PROVE \E s \in 0..Now : Dated(s)'
    BY <1>1 DEF KeysDated, Now
  <2>1. PICK s \in 0..Now : Dated(s)
    BY DEF KeysDated
  <2>2. Dated(s)'
    <3>1. ASSUME NEW x \in Calls, call'[x].role = "force", InFlight(x)',
                 call'[x].claimedGen # generation
          PROVE  call'[x].since <= s
      BY <1>3, <2>1, <3>1 DEF Dated, InFlight
    <3> QED BY <1>1, <2>1, <3>1 DEF Dated, PublishedAt
  <2> QED BY <2>2
<1>9. OneClaim'
  BY <1>3 DEF OneClaim
<1>10. GenerationsCounted'
  <2>1. Openers' = Openers
    BY <1>3, <1>5 DEF Openers, At
  <2> QED BY <1>1, <2>1 DEF GenerationsCounted
<1> QED BY <1>4, <1>6, <1>7, <1>8, <1>9, <1>10

\* The issuer publishes; a fetch that has used up its time has ended.
LEMMA TickStep ==
  ASSUME CacheInv, Tick
  PROVE  CacheInv'
<1> USE DEF CacheInv
<1>1. PICK ks \in Documents : issuer' = Append(issuer, ks)
  BY DEF Tick
<1>2. UNCHANGED <<keys, fetchedAt, hasCache, generation, forceClaimedGen,
                  forceWait, ttlWait, call>>
  BY DEF Tick, cacheVars
<1>3. /\ issuer' \in Seq(Documents) /\ Len(issuer') = Len(issuer) + 1
      /\ \A i \in 1..Len(issuer) : issuer'[i] = issuer[i]
  BY <1>1 DEF Types, IssuerType
<1>4. /\ Now \in Nat /\ Now' = Now + 1 /\ Now < MaxClock /\ MaxClock \in Nat
      /\ Len(issuer) = Now + 1
  BY <1>3, Numbers DEF Tick, Now, Types, IssuerType
<1>5. Grows
  BY <1>3, <1>4 DEF Grows, PublishedAt
<1>6. Types'
  <2>1. IssuerType'
    BY <1>3, <1>4 DEF IssuerType, Types
  <2>2. CacheType'
    BY <1>2, <1>4 DEF CacheType, Types
  <2> QED BY <1>2, <2>1, <2>2 DEF Types, CallRecord
<1>7. ASSUME NEW x \in Calls PROVE CallInv(x)'
  <2>1. InFlight(x) => Now' <= call[x].since + FetchTime
    BY <1>4, CallFields, Numbers DEF Tick, InFlight
  <2>2. forceClaimedGen <= forceClaimedGen'
    BY <1>2, Numbers
  <2> QED BY <1>2, <1>5, <1>6, <2>1, <2>2, CallKept
<1>8. KeysDated'
  <2> SUFFICES ASSUME hasCache PROVE \E s \in 0..Now' : Dated(s)'
    BY <1>2 DEF KeysDated
  <2>1. PICK s \in 0..Now : Dated(s)
    BY DEF KeysDated
  <2>2. PublishedAt(s)' = PublishedAt(s)
    BY <1>5 DEF Grows
  <2>3. Dated(s)'
    BY <1>2, <2>1, <2>2 DEF Dated, InFlight
  <2> QED BY <1>4, <2>3
<1>9. OneClaim'
  BY <1>2 DEF OneClaim
<1>10. GenerationsCounted'
  BY <1>2 DEF GenerationsCounted, Openers, At
<1> QED BY <1>6, <1>7, <1>8, <1>9, <1>10

-----------------------------------------------------------------------------
(***************************************************************************)
(* The ends of a fetch.                                                    *)
(***************************************************************************)

\* What a call answers after its fetch is as old as the keys then cached.
LEMMA AnsweredFresh ==
  ASSUME Types, NEW c \in Calls, call'[c].at = "done", call'[c].kid = call[c].kid,
         call'[c].answeredAt = Now, call'[c].result = FetchResult(c, keys'),
         UNCHANGED issuer,
         ~call[c].failed =>
           \E u \in 0..Now : Now - u < TTL + FetchTime /\ keys' = PublishedAt(u)
  PROVE  AnswerInv(c)'
<1>1. Now' = Now /\ Now \in Nat
  BY Numbers DEF Now
<1>2. Recent(c)' = {u \in 0..Now : Now - u < TTL + FetchTime}
  BY DEF Recent
<1>3. CASE call[c].failed
  BY <1>1, <1>3 DEF AnswerInv, FetchResult
<1>4. CASE ~call[c].failed
  <2>1. PICK u \in 0..Now : Now - u < TTL + FetchTime /\ keys' = PublishedAt(u)
    BY <1>4
  <2>2. u \in Recent(c)' /\ PublishedAt(u)' = keys'
    BY <1>2, <2>1 DEF PublishedAt
  <2>3. call'[c].result = Lookup(c, keys')
    BY <1>4 DEF FetchResult
  <2> QED BY <1>1, <2>2, <2>3 DEF AnswerInv, Lookup
<1> QED BY <1>3, <1>4

\* A force-refresh ends.  In its own generation its document replaces the keys; in
\* a later one the keys are newer than it.
LEMMA FinishForceStep ==
  ASSUME CacheInv, NEW c \in Calls, FinishForce(c)
  PROVE  CacheInv'
<1> USE DEF CacheInv
<1>1. /\ UNCHANGED <<issuer, fetchedAt, hasCache, generation, forceClaimedGen, ttlWait>>
      /\ At(c, "fetched") /\ call[c].role = "force" /\ forceWait' = None /\ CallInv(c)
  BY DEF FinishForce
<1>2. /\ Now' = Now /\ Now \in Nat /\ generation \in Nat /\ fetchedAt \in Nat
      /\ call[c].since \in Nat /\ TTL \in Nat /\ TTL > 0 /\ FetchTime \in Nat
  BY <1>1, Numbers, CallFields DEF Now
<1>3. /\ InFlight(c) /\ hasCache
      /\ call[c].since <= Now /\ Now <= call[c].since + FetchTime
      /\ call[c].claimedGen <= forceClaimedGen
      /\ call[c].claimedGen = generation =>
           call[c].claimedFetchedAt = fetchedAt /\ fetchedAt <= call[c].since
      /\ ~call[c].failed =>
           \E s \in call[c].since..Now : call[c].fetched = PublishedAt(s)
  BY <1>1 DEF InFlight, At, CallInv, FlightInv, ForceInv
<1>4. \/ /\ ~call[c].failed /\ call[c].claimedGen = generation
         /\ keys' = call[c].fetched
      \/ keys' = keys /\ (call[c].failed \/ call[c].claimedGen # generation)
  BY <1>3 DEF FinishForce
<1>5. /\ call' \in [Calls -> CallRecord]
      /\ \A x \in Calls : x # c => call'[x] = call[x]
      /\ call'[c].at = "done" /\ call'[c].kid = call[c].kid
      /\ call'[c].role = call[c].role /\ call'[c].claimedGen = call[c].claimedGen
      /\ call'[c].result = FetchResult(c, keys') /\ call'[c].answeredAt = Now
  <2>1. FetchResult(c, keys') \in Results
    BY DEF FetchResult, Lookup, Results
  <2>2. call' = [call EXCEPT ![c] = CloseAndReturn(c, FetchResult(c, keys'))]
    BY DEF FinishForce
  <2> QED BY <1>1, <2>1, <2>2, Returned
<1>6. Types'
  <2>1. keys' \subseteq Kids
    BY <1>4, CallFields DEF Types, CacheType
  <2> QED BY <1>1, <1>5, <2>1 DEF Types, IssuerType, CacheType, Now
<1>7. ~InFlight(c)' /\ At(c, "done")' /\ ~At(c, "done")
  BY <1>1, <1>5 DEF InFlight, At
<1>8. PICK s \in 0..Now :
        /\ fetchedAt <= s + FetchTime
        /\ keys' = PublishedAt(s)
        /\ \A x \in Calls : x # c /\ call[x].role = "force" /\ InFlight(x)
                            /\ call[x].claimedGen # generation
                            => call[x].since <= s
        /\ call[c].failed \/ call[c].since <= s
  <2>1. CASE /\ ~call[c].failed /\ call[c].claimedGen = generation
             /\ keys' = call[c].fetched
    <3>1. PICK s \in call[c].since..Now : call[c].fetched = PublishedAt(s)
      BY <1>3, <2>1
    <3>2. s \in 0..Now /\ fetchedAt <= s /\ call[c].since <= s
      BY <1>2, <1>3, <2>1, <3>1
    <3>3. ASSUME NEW x \in Calls, call[x].role = "force", InFlight(x),
                 call[x].claimedGen # generation
          PROVE  call[x].since <= s
      <4>1. call[x].since <= fetchedAt /\ call[x].since \in Nat
        BY <3>3, CallFields DEF CallInv, ForceInv
      <4> QED BY <1>2, <3>2, <4>1
    <3> QED BY <1>2, <2>1, <3>1, <3>2, <3>3
  <2>2. CASE keys' = keys /\ (call[c].failed \/ call[c].claimedGen # generation)
    <3>1. PICK s \in 0..Now : Dated(s)
      BY <1>3 DEF KeysDated
    <3> QED BY <1>1, <1>3, <2>2, <3>1 DEF Dated
  <2> QED BY <1>4, <2>1, <2>2
<1>9. CallInv(c)'
  <2>1. AnswerInv(c)'
    <3>1. ~call[c].failed => Now - s < TTL + FetchTime
      BY <1>2, <1>3, <1>8
    <3> QED BY <1>1, <1>5, <1>8, <3>1, AnsweredFresh
  <2>2. ForceInv(c)'
    BY <1>1, <1>3, <1>5, <1>7 DEF ForceInv
  <2> QED BY <1>1, <1>5, <1>7, <2>1, <2>2 DEF CallInv, FlightInv, TtlInv, StoryInv
<1>10. ASSUME NEW x \in Calls, x # c PROVE CallInv(x)'
  <2>1. InFlight(x) => Now' <= call[x].since + FetchTime
    BY <1>2 DEF CallInv, FlightInv
  <2>2. forceClaimedGen <= forceClaimedGen'
    BY <1>1, Numbers
  <2> QED BY <1>1, <1>5, <1>6, <1>10, <2>1, <2>2, CallKept, SameIssuer
<1>11. KeysDated'
  <2>1. Dated(s)'
    <3>1. ASSUME NEW x \in Calls, call'[x].role = "force", InFlight(x)',
                 call'[x].claimedGen # generation
          PROVE  call'[x].since <= s
      BY <1>5, <1>7, <1>8, <3>1 DEF InFlight
    <3> QED BY <1>1, <1>8, <3>1 DEF Dated, PublishedAt
  <2> QED BY <1>2, <1>8, <2>1 DEF KeysDated
<1>12. OneClaim'
  BY <1>5 DEF OneClaim
<1>13. GenerationsCounted'
  <2>1. Openers' = Openers
    BY <1>1, <1>5 DEF Openers, At
  <2> QED BY <1>1, <2>1 DEF GenerationsCounted
<1> QED BY <1>6, <1>9, <1>10, <1>11, <1>12, <1>13

\* A TTL refresh ends.  Nobody else opened a generation meanwhile, so its document
\* opens one; it was asked for after every force-refresh that is still in flight.
LEMMA FinishTtlStep ==
  ASSUME CacheInv, NEW c \in Calls, FinishTtl(c)
  PROVE  CacheInv'
<1> USE DEF CacheInv
<1>1. /\ UNCHANGED <<issuer, forceWait>>
      /\ At(c, "fetched") /\ call[c].role = "ttl" /\ ttlWait' = None /\ CallInv(c)
  BY DEF FinishTtl
<1>2. /\ Now' = Now /\ Now \in Nat /\ generation \in Nat /\ fetchedAt \in Nat
      /\ fetchedAt <= Now /\ forceClaimedGen \in Nat /\ forceClaimedGen <= generation
      /\ call[c].since \in Nat /\ TTL \in Nat /\ TTL > 0 /\ FetchTime \in Nat
  BY <1>1, Numbers, CallFields DEF Now
<1>3. /\ InFlight(c) /\ ttlWait = c /\ call[c].claimedGen = generation
      /\ call[c].since <= Now /\ Now <= call[c].since + FetchTime
      /\ hasCache => fetchedAt + TTL <= call[c].since
      /\ ~call[c].failed =>
           \E s \in call[c].since..Now : call[c].fetched = PublishedAt(s)
  BY <1>1 DEF InFlight, At, CallInv, FlightInv, TtlInv
<1>4. \/ /\ ~call[c].failed
         /\ keys' = call[c].fetched /\ fetchedAt' = Now /\ hasCache' = TRUE
         /\ generation' = generation + 1
         /\ forceClaimedGen' \in {forceClaimedGen, generation + 1}
      \/ /\ call[c].failed
         /\ UNCHANGED <<keys, fetchedAt, hasCache, generation, forceClaimedGen>>
  BY <1>3 DEF FinishTtl, ClaimOnMiss
<1>5. /\ call' \in [Calls -> CallRecord]
      /\ \A x \in Calls : x # c => call'[x] = call[x]
      /\ call'[c].at = "done" /\ call'[c].kid = call[c].kid
      /\ call'[c].role = call[c].role /\ call'[c].claimedGen = call[c].claimedGen
      /\ call'[c].result = FetchResult(c, keys') /\ call'[c].answeredAt = Now
  <2>1. FetchResult(c, keys') \in Results
    BY DEF FetchResult, Lookup, Results
  <2>2. call' = [call EXCEPT ![c] = CloseAndReturn(c, FetchResult(c, keys'))]
    BY DEF FinishTtl
  <2> QED BY <1>1, <2>1, <2>2, Returned
<1>6. Types'
  <2>1. CacheType'
    <3>1. keys' \subseteq Kids /\ hasCache' \in BOOLEAN
      BY <1>4, CallFields DEF Types, CacheType
    <3>2. fetchedAt' \in 0..Now'
      BY <1>2, <1>4
    <3>3. generation' \in Nat /\ forceClaimedGen' \in 0..generation'
      BY <1>2, <1>4
    <3> QED BY <1>1, <3>1, <3>2, <3>3 DEF Types, CacheType
  <2> QED BY <1>1, <1>5, <2>1 DEF Types, IssuerType
<1>7. ~InFlight(c)' /\ At(c, "done")' /\ ~At(c, "done")
  BY <1>1, <1>5 DEF InFlight, At
<1>8. ~call[c].failed =>
        \E s \in 0..Now : call[c].since <= s /\ keys' = PublishedAt(s)
  BY <1>2, <1>3, <1>4
<1>9. CallInv(c)'
  <2>1. AnswerInv(c)'
    <3>1. ~call[c].failed =>
            \E s \in 0..Now : Now - s < TTL + FetchTime /\ keys' = PublishedAt(s)
      BY <1>2, <1>3, <1>8
    <3> QED BY <1>1, <1>5, <3>1, AnsweredFresh
  <2> QED
    BY <1>1, <1>5, <1>7, <2>1 DEF CallInv, FlightInv, ForceInv, TtlInv, StoryInv
<1>10. ASSUME NEW x \in Calls, x # c PROVE CallInv(x)'
  <2>1. InFlight(x) => Now' <= call[x].since + FetchTime
    BY <1>2 DEF CallInv, FlightInv
  <2>2. /\ forceClaimedGen <= forceClaimedGen' /\ (hasCache => hasCache') /\ ttlWait # x
        /\ \/ UNCHANGED <<generation, fetchedAt, hasCache>>
           \/ generation' > generation /\ fetchedAt' = Now
    BY <1>2, <1>3, <1>4, <1>10
  <2> QED BY <1>1, <1>5, <1>6, <1>10, <2>1, <2>2, CallKept, SameIssuer
<1>11. KeysDated'
  <2>1. CASE ~call[c].failed
    <3>1. PICK s \in 0..Now : call[c].since <= s /\ keys' = PublishedAt(s)
      BY <1>8, <2>1
    <3>2. ASSUME NEW x \in Calls, call'[x].role = "force", InFlight(x)'
          PROVE  call'[x].since <= s
      <4>1. x # c /\ call'[x] = call[x] /\ InFlight(x) /\ call[x].role = "force"
        BY <1>1, <1>5, <3>2 DEF InFlight
      <4>2. CallInv(x) /\ call[x].since \in Nat
        BY CallFields
      <4>3. hasCache /\ (\/ call[x].since < fetchedAt + TTL
                         \/ call[x].since <= fetchedAt)
        BY <4>1, <4>2 DEF CallInv, ForceInv
      <4> QED BY <1>2, <1>3, <3>1, <4>1, <4>2, <4>3
    <3>3. fetchedAt' <= s + FetchTime
      BY <1>2, <1>3, <1>4, <2>1, <3>1
    <3>4. Dated(s)'
      BY <1>1, <3>1, <3>2, <3>3 DEF Dated, PublishedAt
    <3> QED BY <1>2, <3>4 DEF KeysDated
  <2>2. CASE call[c].failed
    <3> SUFFICES ASSUME hasCache PROVE \E s \in 0..Now : Dated(s)'
      BY <1>2, <1>4, <2>2 DEF KeysDated
    <3>1. PICK s \in 0..Now : Dated(s)
      BY DEF KeysDated
    <3>2. ASSUME NEW x \in Calls, call'[x].role = "force", InFlight(x)',
                 call'[x].claimedGen # generation
          PROVE  call'[x].since <= s
      BY <1>5, <1>7, <3>1, <3>2 DEF Dated, InFlight
    <3>3. Dated(s)'
      BY <1>1, <1>4, <2>2, <3>1, <3>2 DEF Dated, PublishedAt
    <3> QED BY <3>3
  <2> QED BY <2>1, <2>2
<1>12. OneClaim'
  BY <1>1, <1>5 DEF OneClaim
<1>13. GenerationsCounted'
  <2>1. Openers' = Openers \cup {c} /\ c \notin Openers
    BY <1>1, <1>5, <1>7 DEF Openers, At
  <2>2. IsFiniteSet(Openers)
    BY ConstantsAssumption, FS_Subset DEF Openers
  <2>3. Cardinality(Openers') = Cardinality(Openers) + 1
    BY <2>1, <2>2, FS_AddElement
  <2>4. Cardinality(Openers) \in Nat
    BY <2>2, FS_CardinalityType
  <2> DEFINE n == Cardinality(Openers)
             m == Cardinality(Openers')
  <2>5. generation <= n + 1 /\ m = n + 1 /\ n \in Nat
    BY <2>3, <2>4 DEF GenerationsCounted
  <2> HIDE DEF n, m
  <2>6. generation' <= m + 1
    BY <1>2, <1>4, <2>5
  <2> QED BY <2>6 DEF GenerationsCounted, m
<1> QED BY <1>6, <1>9, <1>10, <1>11, <1>12, <1>13

-----------------------------------------------------------------------------
(***************************************************************************)
(* The invariant holds throughout.                                         *)
(***************************************************************************)

\* An empty cache, or the one generation that another call has opened.
LEMMA CacheInit == Init => CacheInv
<1> SUFFICES ASSUME Init PROVE CacheInv
  OBVIOUS
<1>1. /\ issuer \in Seq(Documents) /\ Len(issuer) = 1 /\ issuer[1] \in Documents
      /\ Now = 0 /\ MaxClock \in Nat
  <2>1. issuer \in [1..1 -> Documents] /\ 1 \in Nat
    BY DEF Init
  <2>2. issuer \in Seq(Documents)
    BY <2>1, SeqDef
  <2>3. Len(issuer) = 1
    BY <2>1, <2>2, LenProperties
  <2> QED BY <2>1, <2>2, <2>3, ConstantsAssumption DEF Now
<1>2. /\ keys \subseteq Kids /\ hasCache \in BOOLEAN /\ generation \in {0, 1}
      /\ fetchedAt = 0 /\ forceClaimedGen = 0 /\ forceWait = None /\ ttlWait = None
      /\ hasCache => keys = issuer[1]
  BY <1>1, ConstantsAssumption DEF Init
<1>3. NoCall \in CallRecord /\ call = [c \in Calls |-> NoCall]
  BY DEF Init, NoCall, CallRecord, Places, Roles, Results
<1>4. \A c \in Calls : /\ call[c].at = "idle" /\ call[c].role = "none"
                       /\ call[c].result = "none" /\ call[c].answeredAt = 0
  BY <1>3 DEF NoCall
<1>5. Types
  BY <1>1, <1>2, <1>3 DEF Types, IssuerType, CacheType
<1>6. KeysDated
  <2>1. hasCache => Dated(0)
    BY <1>1, <1>2, <1>4, ConstantsAssumption DEF Dated, PublishedAt
  <2> QED BY <1>1, <2>1 DEF KeysDated
<1>7. OneClaim
  BY <1>4 DEF OneClaim
<1>8. GenerationsCounted
  <2>1. Openers = {}
    BY <1>4 DEF Openers
  <2> QED BY <1>2, <2>1, FS_EmptySet DEF GenerationsCounted
<1>9. \A c \in Calls : CallInv(c)
  BY <1>1, <1>4 DEF CallInv, FlightInv, ForceInv, TtlInv, StoryInv, AnswerInv, InFlight, At
<1> QED BY <1>5, <1>6, <1>7, <1>8, <1>9 DEF CacheInv

\* Every step keeps it.
LEMMA CacheStep == CacheInv /\ [Next]_vars => CacheInv'
<1> SUFFICES ASSUME CacheInv, [Next]_vars PROVE CacheInv'
  OBVIOUS
<1>1. CASE \E c \in Calls : \/ \E kid \in Kids : Begin(c, kid)
                            \/ FollowForce(c) \/ FollowTtl(c) \/ WakeUp(c)
  BY <1>1, MoveStep
<1>2. CASE \E c \in Calls : Hit(c) \/ Reject(c) \/ Cancelled(c)
  BY <1>2, AnswerStep
<1>3. CASE \E c \in Calls : FetchAnswers(c) \/ FetchFails(c)
  BY <1>3, FetchStep
<1>4. CASE \E c \in Calls : LeadForce(c)
  BY <1>4, LeadForceStep
<1>5. CASE \E c \in Calls : LeadTtl(c)
  BY <1>5, LeadTtlStep
<1>6. CASE \E c \in Calls : FinishForce(c)
  BY <1>6, FinishForceStep
<1>7. CASE \E c \in Calls : FinishTtl(c)
  BY <1>7, FinishTtlStep
<1>8. CASE Tick
  BY <1>8, TickStep
<1>9. CASE UNCHANGED vars
  <2> USE <1>9 DEF vars, cacheVars
  <2>1. Types'
    BY DEF CacheInv, Types, IssuerType, CacheType, CallRecord, Now
  <2>2. \A c \in Calls : CallInv(c)'
    BY DEF CacheInv, CallInv, FlightInv, ForceInv, TtlInv, StoryInv, AnswerInv, InFlight,
           At, Recent, PublishedAt, Now
  <2>3. KeysDated' /\ OneClaim' /\ GenerationsCounted'
    BY DEF CacheInv, KeysDated, Dated, OneClaim, GenerationsCounted, Openers, InFlight,
           At, PublishedAt, Now
  <2> QED BY <2>1, <2>2, <2>3 DEF CacheInv
<1> QED
  BY <1>1, <1>2, <1>3, <1>4, <1>5, <1>6, <1>7, <1>8, <1>9 DEF Next, Proceed

\* The invariant of the specification.
LEMMA CacheInvariant == Spec => []CacheInv
BY CacheInit, CacheStep, PTL DEF Spec

-----------------------------------------------------------------------------
(***************************************************************************)
(* The theorems.                                                           *)
(***************************************************************************)

\* The cache and the calls keep their shape, and however many calls there are, each
\* opens at most one generation.
THEOREM TypeCorrect == Spec => []TypeOK
<1>1. ASSUME CacheInv PROVE TypeOK
  <2>1. Types /\ GenerationsCounted
    BY <1>1 DEF CacheInv
  <2>2. keys \subseteq Kids /\ hasCache \in BOOLEAN /\ fetchedAt \in 0..MaxClock
    BY <2>1, Numbers DEF Types, CacheType
  <2>3. generation \in 0..(Cardinality(Calls) + 1)
    <3>1. Cardinality(Openers) <= Cardinality(Calls)
      BY ConstantsAssumption, FS_Subset DEF Openers
    <3>2. Cardinality(Openers) \in Nat /\ Cardinality(Calls) \in Nat
      BY ConstantsAssumption, FS_Subset, FS_CardinalityType DEF Openers
    <3> DEFINE n == Cardinality(Openers)
               m == Cardinality(Calls)
    <3>3. n <= m /\ n \in Nat /\ m \in Nat /\ generation <= n + 1 /\ generation \in Nat
      BY <2>1, <3>1, <3>2, Numbers DEF GenerationsCounted
    <3> HIDE DEF n, m
    <3>4. generation \in 0..(m + 1)
      BY <3>3
    <3> QED BY <3>4 DEF m
  <2>4. /\ forceClaimedGen \in 0..generation
        /\ forceWait \in Calls \cup {None} /\ ttlWait \in Calls \cup {None}
    BY <2>1 DEF Types, CacheType
  <2>5. \A c \in Calls : /\ call[c].at \in Places /\ call[c].role \in Roles
                         /\ call[c].result \in Results
                         /\ call[c].kid \in Kids \cup {None}
                         /\ call[c].wait \in Calls \cup {None}
                         /\ call[c].fetched \subseteq Kids
    BY <2>1, CallFields
  <2> QED BY <2>2, <2>3, <2>4, <2>5 DEF TypeOK
<1> QED BY <1>1, CacheInvariant, PTL

\* PublicKey never hands out a key, nor rejects a kid, on the word of documents that
\* are all older than the TTL and one fetch, whatever refreshes overlap, fail or
\* clear each other's forceWait.
THEOREM AnswersAlwaysFresh == Spec => []AnswersFresh
<1>1. CacheInv => AnswersFresh
  BY DEF CacheInv, CallInv, AnswerInv, AnswersFresh
<1> QED BY <1>1, CacheInvariant, PTL

\* However many unknown kids arrive, the issuer sees one force-refresh in each
\* generation and one TTL refresh at a time.
THEOREM FetchesAlwaysBounded == Spec => []FetchesBounded
<1>1. ASSUME CacheInv PROVE FetchesBounded
  <2>1. ASSUME NEW c \in Calls, call[c].role = "ttl", ~At(c, "done") PROVE ttlWait = c
    BY <1>1, <2>1 DEF CacheInv, CallInv, StoryInv, TtlInv
  <2> QED BY <1>1, <2>1 DEF CacheInv, OneClaim, FetchesBounded
<1> QED BY <1>1, CacheInvariant, PTL
=============================================================================
