------------------------------- MODULE Event --------------------------------
(***************************************************************************)
(* The content-free audit event: how the handler builds one (server.go),   *)
(* what Validate demands of it, its canonical form, its hash, and what     *)
(* storing it in PostgreSQL and reading it back make of it.                *)
(*                                                                         *)
(* Codes and categories are numbers, so that they have an order; 0 is one  *)
(* the code pattern rejects.  An optional value is a sequence of length 0  *)
(* or 1.  Fields that every event copies from the configuration, and that  *)
(* no operation tells apart, are left out.                                 *)
(***************************************************************************)
EXTENDS Integers, Sequences, SequencesExt, Sorting

CONSTANTS
  MaxCodes,    \* maxEventCodes: how many codes a field may hold
  CategoryOf,  \* the category of each detector rule
  PII, Health, Secret  \* the three kinds of categories

\* The categories are names in the code, and few.
ASSUME CategoriesAssumption ==
  /\ MaxCodes \in Nat \ {0}
  /\ \A kind \in {PII, Health, Secret} :
       kind \subseteq Nat \ {0} /\ IsFiniteSet(kind) /\ Cardinality(kind) <= MaxCodes

-----------------------------------------------------------------------------
(***************************************************************************)
(* Digests, instants and code sets.                                        *)
(***************************************************************************)

\* A digest is <<what it is the hash of>>: distinct inputs, distinct digests.
ZeroDigest == <<>>

\* An instant: the nanoseconds beyond the microsecond, and the Go Location.
UTC(at) == [at EXCEPT !.zone = "utc"]
Truncate(at) == [at EXCEPT !.rest = 0]

\* A copy of the codes, which Validate has found to differ, in ascending order.
sortedCopy(codes) == Ascending(Range(codes))
sortedKeys(set) == Ascending(set)

validCode(code) == code > 0

validCodeSet(codes) ==
  /\ Len(codes) <= MaxCodes
  /\ \A i \in 1..Len(codes) : validCode(codes[i])
  /\ \A i, j \in 1..Len(codes) : codes[i] = codes[j] => i = j

validCountMap(counts) ==
  /\ Cardinality(DOMAIN counts) <= MaxCodes
  /\ \A c \in DOMAIN counts : validCode(c) /\ counts[c] >= 0

validOptionalNonNegative(value) == value = <<>> \/ value[1] >= 0
validOptionalCode(value) == value = <<>> \/ validCode(value[1])
NonZero(digest) == digest # ZeroDigest

-----------------------------------------------------------------------------
(***************************************************************************)
(* Detection: a hit is a rule with the number of its matches.              *)
(***************************************************************************)

\* aggregator.result: the categories hit, each once, and the matches of each
\* category of personal data over all its rules.
result(hits) ==
  LET hit == {CategoryOf[r] : r \in {r \in DOMAIN hits : hits[r] > 0}}
      matches(c) == SumFunctionOnSet(hits, {r \in DOMAIN hits : CategoryOf[r] = c})
  IN [pii    |-> sortedKeys(hit \cap PII),
      counts |-> [c \in hit \cap PII |-> matches(c)],
      health |-> sortedKeys(hit \cap Health),
      secret |-> sortedKeys(hit \cap Secret)]

-----------------------------------------------------------------------------
(***************************************************************************)
(* Building an event.                                                      *)
(***************************************************************************)

\* The handler's now: server.deps.Now().UTC().Truncate(time.Microsecond).
OccurredAt(clock) == Truncate(UTC(clock))

\* buildEvent: the issuer's hash is evidence of an OIDC caller only.
IssuerEvidence(principal) ==
  IF principal.method = "oidc" THEN <<principal.issuer>> ELSE <<>>

\* buildEvent, which refuses an OIDC principal without an issuer.
Buildable(principal) == principal.method = "oidc" => NonZero(principal.issuer)

\* An event of a state (type, decision and status), with the reasons of the
\* policy's decision, costs and an error code; Append links it later.
buildEvent(id, principal, state, reasons, hits, costs, error, clock) ==
  [id       |-> id,
   state    |-> state,
   method   |-> principal.method,
   issuer   |-> IssuerEvidence(principal),
   reasons  |-> reasons,
   findings |-> result(hits),
   costs    |-> costs,
   error    |-> error,
   at       |-> OccurredAt(clock),
   previous |-> ZeroDigest]

\* appendDenied, for a refusal by policy, by the budget or of an unknown model.
DeniedEvent(id, principal, reason, hits, clock) ==
  buildEvent(id, principal, <<"run_denied", "deny", "denied">>, <<reason>>, hits,
             [reserved |-> <<>>, actual |-> <<>>], <<>>, clock)

StartedEvent(id, principal, reason, hits, reserve, clock) ==
  buildEvent(id, principal, <<"run_started", "allow", "started">>, <<reason>>, hits,
             [reserved |-> <<reserve>>, actual |-> <<>>], <<>>, clock)

CompletedEvent(id, principal, reason, hits, reserve, charge, clock) ==
  buildEvent(id, principal, <<"run_completed", "allow", "completed">>, <<reason>>, hits,
             [reserved |-> <<reserve>>, actual |-> <<charge>>], <<>>, clock)

\* appendFailed, with the code of what went wrong.
FailedEvent(id, principal, reason, hits, reserve, charge, code, clock) ==
  buildEvent(id, principal, <<"run_failed", "allow", "failed">>, <<reason>>, hits,
             [reserved |-> <<reserve>>, actual |-> <<charge>>], <<code>>, clock)

-----------------------------------------------------------------------------
(***************************************************************************)
(* Validity, canonical form and hash.                                      *)
(***************************************************************************)

validEventState(state) ==
  state \in {<<"run_started", "allow", "started">>, <<"run_completed", "allow", "completed">>,
             <<"run_failed", "allow", "failed">>, <<"run_denied", "deny", "denied">>}

validAuthEvidence(method, issuer) ==
  \/ method = "oidc" /\ issuer # <<>> /\ NonZero(issuer[1])
  \/ method \in {"api_key", "workload"} /\ issuer = <<>>

Validate(e) ==
  /\ e.at.rest = 0
  /\ validEventState(e.state)
  /\ validAuthEvidence(e.method, e.issuer)
  /\ validOptionalNonNegative(e.costs.reserved)
  /\ validOptionalNonNegative(e.costs.actual)
  /\ validOptionalCode(e.error)
  /\ validCodeSet(e.reasons)
  /\ validCodeSet(e.findings.pii)
  /\ validCodeSet(e.findings.health)
  /\ validCodeSet(e.findings.secret)
  /\ validCountMap(e.findings.counts)

\* Mutant: the instant is written in the zone it is in.
CanonicalInZone(e) ==
  [e EXCEPT !.reasons = sortedCopy(@),
            !.findings.pii = sortedCopy(@),
            !.findings.health = sortedCopy(@),
            !.findings.secret = sortedCopy(@)]

\* The form that is hashed and exported: codes sorted, the instant in UTC.
Canonical(e) ==
  [e EXCEPT !.reasons = sortedCopy(@),
            !.findings.pii = sortedCopy(@),
            !.findings.health = sortedCopy(@),
            !.findings.secret = sortedCopy(@),
            !.at = UTC(@)]

EventHash(e) == <<Canonical(e)>>

\* EventHash returns an error, or another digest than the one recorded.
HashFails(e, digest) == ~Validate(e) \/ EventHash(e) # digest

-----------------------------------------------------------------------------
(***************************************************************************)
(* The way through PostgreSQL and back.                                    *)
(***************************************************************************)

\* timestamptz keeps an instant to the microsecond and no zone.
appendArguments(e) == [e EXCEPT !.at = [rest |-> 0, zone |-> "db"]]

\* scanRecord: the driver returns the instant in the process's zone.
scanRecord(row) == [row EXCEPT !.event.at.zone = "local"]

\* eventFromCanonicalJSON accepts an event whose canonical form is these bytes.
FromCanonicalJSON(wire) ==
  /\ wire.at.zone = "utc"
  /\ Validate(wire)
  /\ Canonical(wire) = wire
=============================================================================
