------------------------------ MODULE Admission -----------------------------
(***************************************************************************)
(* From a caller's token to a priced run: OIDC authentication, the policy  *)
(* decision and its record, the listing of models, the estimate and the    *)
(* charge.  One request at a time: what goes on beside it is the passing   *)
(* of time on two clocks, the disabling of principals and restarts of the  *)
(* gateway with another policy document.  How the calls of a request fail  *)
(* and interleave is the subject of module Gateway.                        *)
(***************************************************************************)
EXTENDS Policy, OIDC, Price

CONSTANTS
  Principals,   \* ids of principals, also the subjects of their tokens
  Routes,       \* the models the server has a route for
  Requested,    \* the models callers ask for
  Deployments,  \* settings by name: documents, tokens, skews of the clocks, a bound
                \* on the issuer's (horizon), prices, bodies and usages
  IssuerKey,    \* the key the issuer signs with
  Life,         \* the time between a token's iat and its exp
  MaxDecisions  \* bound on the decisions on record

\* Principals have well-formed ids, and the issuer's key is not what the key
\* provider says when it has none.  A principal's groups are few enough for the
\* policy (maxOIDCGroups and maxSelectorsPerRule in the code).
ASSUME NamesAssumption ==
  /\ Principals \subseteq Nat \ {0}
  /\ IssuerKey \notin {"unknown", "unavailable"}
  /\ Leeway \in Nat /\ Life \in Int
  /\ MaxGroups \in Nat /\ MaxSelectors \in Nat /\ MaxGroups <= MaxSelectors

\* What a deployment may hold: documents and tokens as they are decoded, clocks
\* and the machine's integers.
ASSUME DeploymentsAssumption ==
  \A name \in DOMAIN Deployments : LET d == Deployments[name] IN
    /\ d.documents \subseteq DecodedDocument
    /\ \A t \in d.tokens : /\ {"iat", "nbf", "exp"} \subseteq DOMAIN t
                           /\ t.sub \in Nat /\ t.kid \in Nat /\ t.groups.values \in Seq(Nat)
    /\ d.skews \subseteq Int /\ d.horizon \in Int
    /\ d.prices \subseteq [input : Machine, output : Machine, maxOutput : Machine]
    /\ \A bytes \in d.bodies : bytes \in Nat /\ InputTokens(bytes) \in Machine
    /\ d.usages \subseteq [prompt : Machine, completion : Machine, total : Machine]

VARIABLES
  deployment,   \* the name of one of Deployments
  skew,         \* the gateway's clock minus the issuer's
  clock,        \* the issuer's clock
  active,       \* principals that are not disabled
  document,     \* the policy document of the running gateway, or Down
  bearer,       \* the token a caller holds, if any
  req,          \* the request in progress
  log           \* the decisions on record, each with what it was made from

vars == <<deployment, skew, clock, active, document, bearer, req, log>>
outside == <<deployment, skew, clock, active, document, bearer>>

Down == [version |-> 0, rules |-> <<>>]  \* no document that a gateway runs with
NoToken == <<>>
UnknownModel == 0  \* what is recorded for a model without a route
NoPrice == [input |-> 0, output |-> 0, maxOutput |-> 0]

\* A request that is not there yet.  Its past is kept for the properties: the token
\* it came with, who was active and what time it was when it arrived, what time it
\* was and what the key provider said when the token was parsed.
Idle == [pc |-> "idle", past |-> <<>>, principal |-> <<>>, answer |-> "none",
         model |-> 0, price |-> NoPrice, tokens |-> 0, reserve |-> 0, charge |-> <<>>,
         listed |-> <<>>]
Past == [token |-> bearer, active |-> active, arrived |-> clock, parsed |-> clock, key |-> "none"]

engine == NewEngine(document)
setting == Deployments[deployment]

Init ==
  /\ deployment \in DOMAIN Deployments
  /\ skew \in setting.skews
  /\ clock = 0
  /\ active = Principals
  /\ document = Down
  /\ bearer = NoToken
  /\ req = Idle
  /\ log = <<>>

-----------------------------------------------------------------------------
(***************************************************************************)
(* Surroundings.                                                           *)
(***************************************************************************)

Tick ==
  /\ clock < setting.horizon
  /\ clock' = clock + 1
  /\ UNCHANGED <<deployment, skew, active, document, bearer, req, log>>

Disable(p) ==
  /\ p \in active
  /\ active' = active \ {p}
  /\ UNCHANGED <<deployment, skew, clock, document, bearer, req, log>>

\* The gateway starts with a document that NewEngine accepts.
Start(d) ==
  /\ document = Down /\ DocumentValid(d)
  /\ document' = d
  /\ UNCHANGED <<deployment, skew, clock, active, bearer, req, log>>

\* It stops or dies, and the request with it.
Stop ==
  /\ document # Down
  /\ document' = Down
  /\ req' = Idle
  /\ UNCHANGED <<deployment, skew, clock, active, bearer, log>>

\* A token is issued, dated by the issuer's clock.
Issue(t) ==
  /\ bearer = NoToken
  /\ bearer' = <<[t EXCEPT !.iat = <<clock>>, !.nbf = <<clock>>, !.exp = <<clock + Life>>]>>
  /\ UNCHANGED <<deployment, skew, clock, active, document, req, log>>

-----------------------------------------------------------------------------
(***************************************************************************)
(* AuthenticateOIDC.                                                       *)
(***************************************************************************)

At(pc) == req.pc = pc

\* The request ends with an answer.
Answer(answer) == req' = [Idle EXCEPT !.pc = "ended", !.answer = answer, !.past = req.past]

Arrive ==
  /\ At("idle") /\ document # Down /\ bearer # NoToken
  /\ req' = [req EXCEPT !.pc = "arrived", !.past = Past]
  /\ UNCHANGED <<outside, log>>

Now == clock + skew

\* The token is parsed with the key provider's answer, then the groups.
ParseToken(answer) ==
  LET token == req.past.token[1]
      verdict == ParseWithClaims(token, answer, Now)
      extracted == extractOIDCGroups(token.groups)
      groups == IF extracted = <<>> THEN <<>> ELSE normalizeOIDCGroups(extracted[1])
      past == [req.past EXCEPT !.parsed = clock, !.key = answer]
  IN
  /\ At("arrived")
  /\ IF verdict = "valid" /\ groups # <<>>
     THEN req' = [req EXCEPT !.pc = "parsed", !.past = past,
                             !.principal = [id |-> token.sub, method |-> "oidc",
                                            groups |-> groups[1]]]
     ELSE req' = [req EXCEPT !.pc = "ended", !.past = past,
                             !.answer = IF verdict = "unavailable" THEN verdict
                                        ELSE "unauthenticated"]
  /\ UNCHANGED <<outside, log>>

\* Mutant: the row is found, active or not.
FoundAnyhow(p) == p \in Principals

\* LookupOIDCPrincipal finds an active principal.
FoundActive(p) == p \in active

LookupOIDCPrincipal ==
  /\ At("parsed")
  /\ \/ IF FoundActive(req.principal.id) /\ PrincipalValid(req.principal)
        THEN req' = [req EXCEPT !.pc = "found"]
        ELSE Answer("unauthenticated")
     \/ Answer("unavailable")
  /\ UNCHANGED <<outside, log>>

\* OIDCAuthenticationSuccess is logged, or the caller is turned away.
LogSuccess ==
  /\ At("found")
  /\ \/ req' = [req EXCEPT !.pc = "authenticated"]
     \/ Answer("unavailable")
  /\ UNCHANGED <<outside, log>>

\* An API key instead of a token: module ApiKeys has how it is looked at.
AuthenticateAPIKey(p) ==
  /\ At("idle") /\ document # Down /\ bearer = NoToken /\ p \in active
  /\ req' = [req EXCEPT !.pc = "authenticated", !.past = Past,
                        !.principal = [id |-> p, method |-> "api_key", groups |-> <<>>]]
  /\ UNCHANGED <<outside, log>>

-----------------------------------------------------------------------------
(***************************************************************************)
(* Decisions and their records.                                            *)
(***************************************************************************)

Evaluated(endpoint, model) ==
  Evaluate(engine, [principal |-> req.principal.id, groups |-> req.principal.groups,
                    endpoint |-> endpoint, model |-> model])

\* The groups the issuer has put in the token.
Claimed == IF req.past.token = NoToken THEN {} ELSE Range(req.past.token[1].groups.values)

\* An event's evidence of a decision, and what the decision was made from.
Entry(decision, model, recorded) ==
  [evidence |-> [principal |-> req.principal.id, method |-> req.principal.method,
                 model |-> recorded, digest |-> engine.digest],
   decision |-> decision,
   from |-> [document |-> document, groups |-> Claimed, model |-> model]]

\* The listing holds the routed models whose listing is allowed.
handleModels ==
  /\ At("authenticated")
  /\ req' = [req EXCEPT !.pc = "ended", !.answer = "listed",
                        !.listed = <<{m \in Routes : Evaluated(ModelsList, m).effect = "allow"}>>]
  /\ UNCHANGED <<outside, log>>

\* A model without a route is denied, for the reason a denied one would have.
Unrouted(decision) ==
  IF decision.effect = "allow" THEN Decision("deny", "no_matching_allow") ELSE decision

\* handleChatCompletions up to the decision; a denial is recorded and answered.
DecideChat(model) ==
  LET routed == model \in Routes
      decision == IF routed THEN Evaluated(Chat, model) ELSE Unrouted(Evaluated(Chat, model))
  IN
  /\ At("authenticated") /\ Len(log) < MaxDecisions
  /\ IF decision.effect = "allow"
     THEN req' = [req EXCEPT !.pc = "allowed", !.model = model] /\ UNCHANGED log
     ELSE /\ log' = Append(log, Entry(decision, model, IF routed THEN model ELSE UnknownModel))
          /\ Answer("policy_denied")
  /\ UNCHANGED outside

\* The body, its HMAC, the detectors or the append fail: nothing is recorded.
ChatFails ==
  /\ At("authenticated")
  /\ Answer("failed")
  /\ UNCHANGED <<outside, log>>

\* The estimate of an allowed request, and the ledger's answer to it.
ReserveEstimate(price, bytes) ==
  LET estimate == EstimateMaxCostMicros(price, InputTokens(bytes)) IN
  /\ At("allowed")
  /\ IF estimate = <<>> THEN Answer("unavailable") /\ UNCHANGED log
     ELSE \/ /\ log' = Append(log, Entry(Decision("allow", "policy_allowed"), req.model, req.model))
             /\ req' = [req EXCEPT !.pc = "started", !.price = price,
                                   !.tokens = InputTokens(bytes), !.reserve = estimate[1]]
          \/ /\ log' = Append(log, Entry(Decision("deny", "budget_denied"), req.model, req.model))
             /\ Answer("budget_denied")
          \/ Answer("unavailable") /\ UNCHANGED log
  /\ UNCHANGED outside

\* The backend's answer is settled; without valid usage, to zero.
SettleUsage(usage) ==
  /\ At("started")
  /\ req' = [req EXCEPT !.pc = "ended",
                        !.charge = <<usage, IF validateUsage(usage)
                                            THEN Charge(req.price, usage, req.reserve) ELSE 0>>,
                        !.answer = IF validateUsage(usage) THEN "completed" ELSE "backend_failed"]
  /\ UNCHANGED <<outside, log>>

\* The caller turns to its next request, with another token or with the same.
Leave ==
  /\ At("ended")
  /\ req' = Idle
  /\ bearer' \in {NoToken, bearer}
  /\ UNCHANGED <<deployment, skew, clock, active, document, log>>

Next ==
  \/ Tick
  \/ \E p \in Principals : Disable(p) \/ AuthenticateAPIKey(p)
  \/ \E d \in setting.documents : Start(d)
  \/ Stop
  \/ \E t \in setting.tokens : Issue(t)
  \/ Arrive
  \/ \E answer \in {IssuerKey, "unknown", "unavailable"} : ParseToken(answer)
  \/ LookupOIDCPrincipal
  \/ LogSuccess
  \/ handleModels
  \/ \E m \in Requested : DecideChat(m)
  \/ ChatFails
  \/ \E price \in setting.prices, bytes \in setting.bodies : ReserveEstimate(price, bytes)
  \/ \E usage \in setting.usages : SettleUsage(usage)
  \/ Leave

Spec == Init /\ [][Next]_vars

-----------------------------------------------------------------------------
(***************************************************************************)
(* What a document means, without order: the reference for decisions.      *)
(***************************************************************************)

Applies(rule, p, groups, endpoint, model) ==
  /\ endpoint \in Range(rule.endpoints) /\ model \in Range(rule.models)
  /\ rule.principals = <<>> \/ p \in Range(rule.principals)
  /\ rule.groups = <<>> \/ groups \cap Range(rule.groups) # {}

Says(effect, d, p, groups, endpoint, model) ==
  \E rule \in Range(d.rules) : rule.effect = effect /\ Applies(rule, p, groups, endpoint, model)

Permits(d, p, groups, endpoint, model) ==
  Says("allow", d, p, groups, endpoint, model) /\ ~Says("deny", d, p, groups, endpoint, model)

Statements(rules) ==
  {[id |-> rule.id, effect |-> rule.effect, principals |-> Range(rule.principals),
    groups |-> Range(rule.groups), endpoints |-> Range(rule.endpoints),
    models |-> Range(rule.models)] : rule \in Range(rules)}

Meaning(d) == [version |-> d.version, statements |-> Statements(d.rules)]

\* An entry's decision is the one of its document, for its groups and its model.
AsDemanded(e) ==
  LET p == e.evidence.principal
      permits == Permits(e.from.document, p, e.from.groups, Chat, e.from.model)
      denies == Says("deny", e.from.document, p, e.from.groups, Chat, e.from.model)
  IN /\ e.decision.effect = "allow" => permits /\ e.from.model \in Routes
     /\ e.decision.reason = "explicit_deny" <=> denies
     /\ e.decision.reason = "no_matching_allow" => ~(permits /\ e.from.model \in Routes)

\* AC-AUTHZ-001 to 003, AC-MODEL-001: the decision on record is the one the
\* operator's document demands for the groups the issuer put in the token: deny has
\* precedence, nothing is allowed by default, an unrouted model never is.  A
\* listing shows exactly the routed models whose listing it permits.  No order of
\* rules, selectors or groups, no repetition and no limit on the way changes that.
PolicyDecides ==
  /\ \A i \in 1..Len(log) : AsDemanded(log[i])
  /\ req.answer = "listed" =>
       req.listed = <<{m \in Routes : Permits(document, req.principal.id, Claimed, ModelsList, m)}>>

\* The digest in an event names the policy itself: another document has the same
\* digest exactly when it has the same version and makes the same statements, in
\* whatever order.  An operator who changes one or the other, and restarts the
\* gateway, leaves events that tell the two apart.
DigestIsOfMeaning ==
  document # Down => \A i \in 1..Len(log) :
    log[i].evidence.digest = engine.digest <=> Meaning(log[i].from.document) = Meaning(document)

\* AC-AUTH-003: who was disabled before a request arrived does not pass, whatever
\* token is still valid.
DisabledStaysOut ==
  req.pc \in {"authenticated", "allowed", "started"} => req.principal.id \in req.past.active

Passed == req.pc \in {"parsed", "found", "authenticated", "allowed", "started"}

\* A token as the issuer makes them for this gateway.
Genuine(t) == /\ t.alg \in {"RS256", "ES256"} /\ t.kid > 0 /\ t.key = IssuerKey
              /\ t.iss = Issuer /\ t.aud = Audience /\ t.sub \in active
              /\ t.groups.kind \in {"absent", "string", "list"}
              /\ Len(t.groups.values) <= MaxGroups /\ 0 \notin Range(t.groups.values)

\* Where the clocks differ by no more than the leeway, a token is of no use once
\* twice the leeway has gone by since it expired, and one that has not expired is
\* not refused, not even when it was issued just now by a clock that is ahead.
TokensWorkWhileFresh ==
  skew \in -Leeway..Leeway /\ req.past # <<>> /\ req.past.token # NoToken =>
    LET token == req.past.token[1] IN
    /\ Passed => req.past.arrived < token.exp[1] + 2 * Leeway
    /\ At("ended") /\ req.answer = "unauthenticated" /\ req.past.key = IssuerKey
         => ~(Genuine(token) /\ req.past.parsed < token.exp[1])

CeilDiv(n) == (n + Million - 1) \div Million
ExactCost(price, input, output) == CeilDiv(price.input * input) + CeilDiv(price.output * output)

\* The cost, and what it is rounded up from, are within the machine's integers.
Computable(price, input, output) ==
  /\ price.input * input + Million - 1 <= MaxInt
  /\ output > 0 => price.output * output + Million - 1 <= MaxInt
  /\ ExactCost(price, input, output) <= MaxInt

\* The lesser of what usage costs and what is held, and all that is held where the
\* cost cannot be computed.  A prompt of no tokens counts as one.
Due(price, usage, held) ==
  LET prompt == IF usage.prompt = 0 THEN 1 ELSE usage.prompt
      exact == ExactCost(price, prompt, usage.completion)
  IN IF Computable(price, prompt, usage.completion) /\ exact < held THEN exact ELSE held

\* What is reserved is the cost of the estimate, computed without a bound on
\* integers: no product or sum has wrapped.  And a run with valid usage is charged
\* what is due, to the last unit: its cost, or all that it reserved where that is
\* less or the cost is beyond the machine's integers.
PricesExact ==
  /\ At("started") => req.reserve = ExactCost(req.price, req.tokens, req.price.maxOutput)
  /\ req.charge # <<>> /\ req.answer = "completed" =>
       req.charge[2] = Due(req.price, req.charge[1], req.reserve)

\* AC-EVID-002: "Re-evaluate a recorded decision from policy digest and content-free
\* decision context. Same allow/deny outcome and reason codes are obtained."
DecisionsReproducible ==
  \A i, j \in 1..Len(log) :
    /\ log[i].evidence = log[j].evidence
    /\ "budget_denied" \notin {log[i].decision.reason, log[j].decision.reason}
    => log[i].decision = log[j].decision
=============================================================================
