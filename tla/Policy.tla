------------------------------- MODULE Policy -------------------------------
(***************************************************************************)
(* The policy engine: how a document is validated and put in order, its    *)
(* digest, and how a request is decided.  Names (versions, and those of    *)
(* rules, principals, groups, endpoints and models) are numbers, so that   *)
(* they have an order; 0 is one that its pattern rejects.  Selectors are   *)
(* sequences, as in the document; one that is missing is empty.            *)
(***************************************************************************)
EXTENDS Integers, Sequences, SequencesExt, Sorting

CONSTANTS
  MaxRules,     \* maxRules
  MaxSelectors  \* maxSelectorsPerRule, also the limit on a request's groups

Chat == 1        \* endpoint "chat.completions"
ModelsList == 2  \* endpoint "models.list"

\* A rule and a document as they are decoded from JSON, valid or not.
DecodedRule ==
  [id : Nat, effect : STRING, principals : Seq(Nat), groups : Seq(Nat),
   endpoints : Seq(Nat), models : Seq(Nat)]
DecodedDocument == [version : Nat, rules : Seq(DecodedRule)]

\* The pattern of a name.
Matches(name) == name > 0

-----------------------------------------------------------------------------
(***************************************************************************)
(* NewEngine.                                                              *)
(***************************************************************************)

SelectorValid(values) ==
  /\ Len(values) <= MaxSelectors
  /\ \A i \in 1..Len(values) : Matches(values[i])
  /\ IsInjective(values)

\* The values of a selector differ once it is valid.
normalizeSelector(values) == Ascending(Range(values))

RuleValid(rule) ==
  /\ Matches(rule.id) /\ rule.effect \in {"allow", "deny"}
  /\ SelectorValid(rule.principals) /\ SelectorValid(rule.groups)
  /\ rule.principals # <<>> \/ rule.groups # <<>>
  /\ SelectorValid(rule.endpoints) /\ rule.endpoints # <<>>
  /\ SelectorValid(rule.models) /\ rule.models # <<>>

normalizeRule(rule) ==
  [rule EXCEPT !.principals = normalizeSelector(@), !.groups = normalizeSelector(@),
               !.endpoints = normalizeSelector(@), !.models = normalizeSelector(@)]

RulesValid(rules) ==
  /\ rules # <<>> /\ Len(rules) <= MaxRules
  /\ \A i \in 1..Len(rules) : RuleValid(rules[i])
  /\ IsInjective([i \in 1..Len(rules) |-> rules[i].id])

\* The document is refused, or becomes its version and the rules in order.
DocumentValid(document) == Matches(document.version) /\ RulesValid(document.rules)

\* Mutant: the rules keep the order of the document.
NormalizedInPlace(rules) == [i \in 1..Len(rules) |-> normalizeRule(rules[i])]

\* The rules of a valid document in the order of their ids, which differ.
normalizeRules(rules) ==
  LET ids == Ascending({rule.id : rule \in Range(rules)}) IN
  [i \in 1..Len(rules) |-> normalizeRule(CHOOSE rule \in Range(rules) : rule.id = ids[i])]

normalizeDocument(document) ==
  [version |-> document.version, rules |-> normalizeRules(document.rules)]

\* Mutant: the version is left out.
DigestOfRules(normalized) == <<normalized.rules>>

\* SHA-256 of the encoded document, its version and its rules: distinct ones have
\* distinct digests.
digestDocument(normalized) == <<normalized>>

NewEngine(document) ==
  LET normalized == normalizeDocument(document) IN
  [version |-> normalized.version, digest |-> digestDocument(normalized),
   rules |-> normalized.rules]

-----------------------------------------------------------------------------
(***************************************************************************)
(* Evaluate.                                                               *)
(***************************************************************************)

\* The groups of a request: few enough, well formed and strictly ascending.
validRequestGroups(groups) ==
  /\ Len(groups) <= MaxSelectors
  /\ \A i \in 1..Len(groups) : Matches(groups[i])
  /\ \A i \in 2..Len(groups) : groups[i-1] < groups[i]

intersects(left, right) == Range(left) \cap Range(right) # {}

\* Endpoint and model match, and the identity selectors that are there.
ruleMatches(rule, request) ==
  /\ Contains(rule.endpoints, request.endpoint) /\ Contains(rule.models, request.model)
  /\ rule.principals # <<>> \/ rule.groups # <<>>
  /\ rule.principals # <<>> => Contains(rule.principals, request.principal)
  /\ rule.groups # <<>> => intersects(rule.groups, request.groups)

Decision(effect, reason) == [effect |-> effect, reason |-> reason]

\* Mutant: the first rule that matches decides.
FirstMatchDecides(engine, request) ==
  LET matching == SelectSeq(engine.rules, LAMBDA rule : ruleMatches(rule, request)) IN
  IF matching = <<>> THEN Decision("deny", "no_matching_allow")
  ELSE IF matching[1].effect = "deny" THEN Decision("deny", "explicit_deny")
  ELSE Decision("allow", "policy_allowed")

\* Deny has precedence, and nothing is allowed unless a rule allows it.
Evaluate(engine, request) ==
  LET effects == {engine.rules[i].effect :
                    i \in {j \in 1..Len(engine.rules) : ruleMatches(engine.rules[j], request)}}
  IN CASE \/ ~Matches(request.principal) \/ ~Matches(request.model)
          \/ ~validRequestGroups(request.groups)
          -> Decision("deny", "no_matching_allow")
       [] OTHER ->
          IF "deny" \in effects THEN Decision("deny", "explicit_deny")
          ELSE IF "allow" \in effects THEN Decision("allow", "policy_allowed")
          ELSE Decision("deny", "no_matching_allow")
=============================================================================
