# TLA+ verification of the compliant inference gateway

The gateway (`src/`) stands between callers and an OpenAI-compatible inference
server. For each request it authenticates the caller, evaluates policy, reserves
budget, records an audit event, calls the backend, settles the reservation and
records how the run ended. All durable state is in PostgreSQL: a spend ledger and
a hash-chained audit log. This directory models the parts where order, concurrency
and failure decide whether the promises of `docs/threat-model.md` (TM-01 ... TM-12)
hold, checks them with TLC and proves what it can with TLAPS. The pure functions that
such a promise rests on (policy, prices, canonical forms, verification) are operators of
their own modules and are run inside those models.

## Inventory

| Part | State | Operations | What is hard | What makes it correct |
|---|---|---|---|---|
| Spend ledger (`internal/budget`, migrations 000002, 000003, 000012) | accounts (limits, committed, reserved, period ends), reservations | create principal, set budget, reserve, settle, expire | concurrent reservations; period ends under open holds; late settlement against the sweep; timestamps read before lock waits; row locks taken in different orders, statements cancelled half way | limits never exceeded (TM-03); reserved columns are the sum of open holds; a reservation closes once; a window forgets no charge; no request is deadlocked |
| Audit chain (`internal/audit`, 000004-000008) | event rows, chain head, its row lock | lock head, insert, commit, verify | commits in doubt, vanished callers that hold the lock | no gap and no fork; receipts mean commits; append only (TM-09) |
| Checkpoints (`signer.go`, 000009, `agentboxctl checkpoint`) | checkpoint rows | read head, sign, store | the head moves between read and store; two operators | checkpoints anchor rows of the chain (TM-10) |
| Request handler (`internal/api/server.go`) | a request's local variables | the lifecycle of a chat completion | every call may fail before or after taking effect; crashes; ignored errors | TM-06, TM-07, TM-08; log, ledger and answer agree; every request is answered |
| Backend client (`internal/backend`) | none | one call with a timeout | answers without usage | outcomes as the handler uses them |
| JWKS cache (`internal/auth/jwks.go`) | keys, generation, two channels | `PublicKey`, two kinds of refresh | refreshes that overlap; waiting on another call's fetch; cancellation | bounded staleness; bounded fetches; no lost wakeup |
| API keys (`internal/auth`, 000010) | key rows | create and publish, disable, look up, mark used | publication before commit; revocation during authentication | a disabled key is not accepted; no key works that was not published |
| OIDC (`internal/auth/oidc.go`) | none | validate a token, normalise its groups, look the principal up, log | clocks that differ; principals disabled after issue; groups that one part accepts and the next refuses | no expired token and no disabled principal passes, fresh tokens do |
| Policy (`internal/policy`) | version, rules, digest | validate and normalise a document, decide | order of rules, selectors and groups | the decision is the document's meaning; a digest names one version and one meaning |
| Pricing (`budget/price.go`, usage in `openai.go`) | none | estimate, charge | int64 bounds, rounding | estimates exact or refused; charged what was used, or all that is held |
| Events (`event.go`, `canonical.go`, `buildEvent`, detector hits) | none | build, validate, canonicalise, hash, store, read back | an event is hashed before it is stored and again after it was read | the same canonical form on both sides |
| Export (`export.go`, `verify.go`, `agentboxctl export`, `verify`) | the file | load checkpoint, read records, write, verify | edits of table, file and checkpoint in combination; two commands on one path; crashes | what verifies is genuine (TM-10); what was reported is there and verifies |
| Config, logging, roles, packaging | constant | | | not modelled |

How they interact: the handler calls the ledger and the audit store through one SQL
statement or one transaction each, and nothing makes two of these calls atomic
together. Calls before the backend call run on the request's context and die with the
client; later ones run on `context.WithoutCancel`. Checkpoints, budgets, key
administration and the sweep of expired reservations are run by operators beside it.
`PROJECT.json` lists every component and every hazard with its line.

## Modules

| Module | Models | State and actions |
|---|---|---|
| `Budget` | the ledger | `account` and `reservation` are the two tables, one action per SQL function, named after it. A function that raises changes nothing and is no step. |
| `BudgetProofs`, `BudgetLocksProofs`, `AuditChainProofs`, `GatewayProofs`, `ApiKeysProofs`, `JWKSCacheProofs`, `AuditExportProofs`, `AdmissionProofs` | | theorems about the modules they are named after, see Proofs |
| `BudgetLocks` | the ledger's functions row lock by row lock | `stmt[s]` is the statement a session runs, `lock` the owner of each row. One action per `FOR UPDATE` of migration 000012, the sweep's cursor with `SKIP LOCKED` and the batches a PL/pgSQL loop fetches in; writes are private until `Commit`; `DeadlockVictim` and `Cancel` roll back. It refines `Budget`. |
| `AuditLog` | what the audit store promises | an append-only log; an error says nothing |
| `AuditChain` | the audit store and checkpoints | `tx` is the server's side of each `Append`, `answer` the caller's: they can lose touch. `LockHead`, `InsertEvent`, `SendCommit` are the statements of `Repository.Append`; `ServerCommit` and `ServerAbort` are PostgreSQL's; `GiveUp` is every early return of `Append`. |
| `Gateway` | the handler, over `Budget` (INSTANCE) and a log with the promise of `AuditLog` | `req[r]` is the handler's program counter and locals, one action per call it makes. A call that fails may leave a *stray*: a statement that takes effect later (`StrayLands`) or never (`StrayDies`). |
| `JWKSCache` | the key cache | one action per critical section of `PublicKey`; a channel is named after the call that made it; `issuer` is what was published at each instant |
| `ApiKeys` | API keys, from creation to use | `row` is table `api_keys`, `create[k]` an `agentboxctl api-key create` with its open transaction, `call[c]` an `AuthenticateAPIKey`: one action per statement it sends, `StartMark` and `mark_api_key_used` being the two ends of the statement that may wait for the row's lock. `revealed` are the bearers that may have left the tool, `published` those whose publication succeeded. |
| `Event` | audit events | operators: the four events the handler builds, `Validate`, `Canonical`, `EventHash`, what a row of PostgreSQL keeps (`appendArguments`, `scanRecord`) and what a reader of JSON accepts |
| `AuditExport` | from events to a verdict, over `Event` | `rows`, `head`, `checkpoints` are the tables, `tool[x]` an `agentboxctl export`, `file` its output, `copy` what `agentboxctl verify` judges. Appends and checkpoints are atomic (`AuditChain` has their steps); `AlterRows`, `AlterCopy` change data behind the system's back. |
| `Policy`, `OIDC`, `Price`, `Sorting` | pure parts | operators named after the functions; `Sorting` says what `sort.Strings` returns |
| `Admission` | OIDC authentication, decision, listing, estimate and charge, over the three | one request at a time, one action per step that can be overtaken by time, a disabling or a restart with another document |
| `MC*` | | the instances TLC checks; definitions named "Mutant" in the modules are faults that the properties must notice |

Abstractions. *Time*: the ledger's calendar is a constant, constrained only by
`CalendarAssumption` (a period ends after its instants, later instants never get earlier
ends, a day ends within its month). A statement's timestamp may lag behind the clock by
`MaxLag`, because `statement_timestamp()` is read before the wait for row locks. *Row locks*:
`Budget` and `Gateway` take a ledger function to be atomic; that this is right is what
`BudgetLocks` shows. A session there is one statement and its own transaction, as in
`internal/budget`. *Hashes and signatures* are symbolic: a hash is what it is the hash of, a
signature the key and payload it was made from. *Names*, versions of documents
included, are numbers, so that those the code sorts have an order, 0 being one its pattern rejects; an optional value is a sequence of length 0 or 1. *Integers*
in `Price` are from `-MaxInt - 1` to `MaxInt` and wrap. The gateway's clock and the database's are unrelated in `ApiKeys`; a statement
that waits for a row's lock has read its time and the principal before and sees the row as
the lock leaves it (READ COMMITTED). A stray append keeps the chain head locked, as an open transaction does.
*Policy* and *pricing* are free choices of the environment in `Gateway`, computed in
`Admission`; a model without a route is denied like a policy denial, as in the code. An
alteration in `AuditExport` is one of a list (modify, delete, insert, swap, rehash, rechain,
exchange the checkpoint); whoever makes it has not the signing key. *Crashes* are per request, which
includes the death of the process. Principals are disabled by an operator's UPDATE: the
migrations have no function for it.

## Runs

| Run | Instance | Shows |
|---|---|---|
| `ledger` | 1 principal, 2 runs, amounts to 2, limits to 3, clock to 4, lag 1 | all ledger properties but `OpenHoldsSettleable`, which follows from `HoldsAccounted` and is proved. Days of two instants and months of one and two days put a day end inside a month and one on a month end; two runs suffice for one hold to be open while another closes. |
| `ledger_locks` | 2 principals, 4 runs, 2 sessions, hold 1, limits 2, clock to 1, batches of 2 rows | every commit is a step of `Budget` (`ImplementsLedger`), and only sweeps are ever on a cycle of waits (`OnlySweepsDeadlock`). Four runs: two sweeps can deadlock only when two holds are due on each of two accounts. One run has a handler that settles it, asking for more than was held; days of one instant and months of two make accounts roll under a waiting statement. |
| `audit_chain` | 3 events, 2 operators | chain and head (`ChainVerifies`), checkpoints (`CheckpointsAnchored`), the refinement of `AuditLog`, which makes it append-only and receipts durable, and `EveryAppendReturns`. Three appends: one committed, one in doubt, one waiting. |
| `audit_export` | 3 events (a denial, a start, a completion or failure), 2 exports of one path, 1 alteration of the table, 2 in all | TM-10 and AC-AUDIT-003 to 005: `ValidMeansGenuine`, `ReportedExportsStand`, `NothingRefused`, `EditLocated`. Three events give a record in the middle; two alterations allow one to cover up another (edit and rehash, cut and exchange the checkpoint). |
| `gateway` | 1 principal, 2 runs, amounts to 2, limit 3 | TM-07 (`BackendAuthorised`), TM-08 and that completion events agree with the ledger (`SuccessBacked`), refusals on record, the order of a run's events, no charge for a run that was not served. The limit lets one large and one small hold coexist and refuses two large ones. |
| `gateway_live` | amounts and limit 1 | `EveryRequestAnswered`, `HoldsEventuallyClose` |
| `jwks` | 3 calls on an empty or a filled cache, 2 kids of which one comes and goes, TTL 1, fetch time 1, clock to 2 | `AnswersFresh`, `FetchesBounded`, `EveryCallReturns`. Three calls: a force-refresh that outlives its generation, the TTL refresh that ends it and the force-refresh of the next. A fourth, which would find `forceWait` cleared by the older force-refresh, is out of the run's reach. |
| `api_keys` | 2 principals, 1 key, 2 calls, both clocks to 2, lag 1 | only published keys work, and only for who holds the bearer; revocation and expiry reach calls that have looked the key up already; a use leaves its trace; a disabled row is final. One key suffices, as statements about different keys touch different rows; two calls put one mark behind another's lock. |
| `admission` | three deployments of 2 principals: one with several documents (one of them in two orders and under two versions) and group claims, one with clocks up to 2 apart and tokens made for others, one with prices, bodies and usages around the ends of 7-bit integers (a million being 10) | decisions, listings and digests against an unordered reading of the document (`PolicyDecides`, `DigestIsOfMeaning`); `DisabledStaysOut`, `TokensWorkWhileFresh`; estimate and charge against unbounded arithmetic (`PricesExact`): a charge is the lesser of the exact cost and the hold, and the hold where the cost is not computable in the machine's integers, also where a wider machine would have found it below the hold (rates 7 and 9, no prompt, 7 output tokens: 63 + 9 is beyond 63, so all 11 held are charged and not 8). The leeway is 1, so clocks within and beyond it occur; limits on rules, selectors and groups are small enough to be passed, and a document without a good version is refused. |
| `doc_*` | 1 run, or 2 decisions | three statements of the documents that the code does not keep, see below |

Symmetry over principals, runs, calls, sessions or tools is used only in runs without liveness properties.
Deadlock is not an error: with a bounded number of requests every system here may stop.

### Fairness

- `AuditChain!FairSpec`: the server ends every transaction (a COMMIT is executed;
  migration 000006 sets `statement_timeout` and `idle_in_transaction_session_timeout`), and
  a caller takes its next step when it can. Nobody is obliged to give up.
- `Gateway!RecoverySpec`: every call a handler makes returns (the backend client has a
  timeout, the database its own), strays end, time passes, and the sweep is run again and
  again. The last is an assumption about the deployment: `Service.ExpireReservations` has no
  caller in `cmd/`. Without it holds of crashed requests are never released.
- `JWKSCache!FairSpec`: the mutex is fair and a fetch ends by the HTTP client's timeout.

`BudgetLocks`, `AuditExport` and `Admission` state no liveness: a sweep can be a deadlock's
victim or time out again and again, and an operator's command is simply repeated.

### Where documents and code disagree

1. `UnreliableUsageChargedInFull`: a run with missing or inconsistent usage is settled to
   zero (`server.go:283-289`), not to the reserved amount (`docs/threat-model.md:92`).
2. `FinalEventAgrees`: settlement and final event are separate
   transactions (step 16 of the plan wants one): a failed run's event may state cost zero
   for a run that was charged, and a run may have both `run_completed` and `run_failed`.
3. `DecisionsReproducible`: "Re-evaluate a recorded decision from policy digest and
   content-free decision context" (`docs/compliance-control-map.md:102`): an event records
   neither the caller's groups nor the name of a model without a route, and
   `policy.Decision.Context` is not stored, so that equal evidence goes with different
   decisions.

Two more are visible in `Gateway` without a run, as no action there could do what is said:

4. "Recovery follows configured rule and creates a content-free recovery audit event."
   (`docs/compliance-control-map.md:80`, also `docs/threat-model.md:145`): the sweep writes
   no audit event.
5. "Every authenticated request reaching policy evaluation must produce a content-free
   decision event." (`docs/threat-model.md:18`, TM-06): a request that policy allows is
   answered 503 without an event when the estimate or the reservation fails
   (`server.go:231`, `server.go:257`).

None of these contradicts TM-07 or TM-08, which hold in the `gateway` run. The plan also
asks for a "bounded internal context" after a disconnect; the code's context has no bound.

## Proofs

Every invariant, action property and refinement that a passing run checks is also a theorem,
for every value of the constants. Each proof has the same shape: an inductive invariant, one
lemma per action, and the properties from the invariant. Why the properties are not inductive as they stand, and
what is added to them:

**`BudgetProofs`**: `TypeCorrect`, `LimitAlwaysRespected` (TM-03), `HoldsAlwaysAccounted`,
`HoldsAlwaysSettleable`, `FinalAlwaysFinal`, `WindowSpendAlwaysCovered`,
`DayAlwaysWithinMonth`, for all sets of principals, finite sets of runs, bounds and calendars.
`LedgerInv` is `TypeOK /\ LimitRespected /\ HoldsAccounted /\ HoldsOwned`: a settlement
subtracts a hold from the reserved column, and that the column contains it is
`HoldsAccounted`. `WindowInv` adds that an account's periods are periods of the calendar, the
day's within the month's, and that no settlement lies in a later period than the account's:
a statement with an old time charges the period that the account has reached. The lemmas on
`Total` treat a sum as the cardinality of a set of single micros, so that adding or removing
a hold is a fact about finite sets and no induction over data is needed.

**`BudgetLocksProofs`**: `TypeCorrect`, `LocksImplementLedger` (the refinement of `Budget`),
`LedgerHoldsUnderLocks`, `OnlySweepsEverDeadlock`, for any number of sessions. `LocksInv` says
of each statement which rows it has locked, that what it has read of them still stands, and
that the row versions it has written are the ones that the ledger's function would write now
(`Reserving`, `Settling`, `Sweeping`). It rests on two arguments. `StatementKept`: what a
statement has found out stays true as long as nobody changes the rows it has locked, and
nobody does, because a commit changes locked rows only (`CommitFrame`), but for the new row of
a reservation, whose run is its own. `SweepOne` (in `BudgetProofs`): the rounds of a sweep's
loop, each of which rolls the periods and subtracts one hold from an account, add up to the
one subtraction of `WithoutHolds`. For `OnlySweepsEverDeadlock`: on a cycle every session
waits and is waited for; a reserve or a settle that waits and has a lock waits for an account
and has only the row it locked first; who waits for such a row has no lock at all and is on
no cycle. The definition of `Deadlocked` counted, with three or more sessions, also those
that only wait for a cycle; the proof showed it, the run has two sessions.
`LedgerHoldsUnderLocks` then transfers the theorems of `BudgetProofs`.

**`AuditChainProofs`**: `TypeCorrect`, `ChainAlwaysVerifies`, `CheckpointsAlwaysAnchored`,
`StoreImplementsLog` (the refinement of `AuditLog`), for every set of events and operators and
any hash function, colliding ones included. `ChainInv` adds who holds the lock of the chain
head, that the head its holder has read is the committed one, and that a row in a transaction
is the next one after it.

**`GatewayProofs`**: `TypeCorrect`, `BackendAlwaysAuthorised` (TM-07), `SuccessAlwaysBacked`
(TM-08), `RefusalsAlwaysRecorded`, `StoryAlwaysInOrder`, `AlwaysChargedOnlyIfServed`,
`GatewayKeepsLedger`, for any number of requests. `GatewayInv` relates, for each run, the phase
of its handler to the events that are or may come to be in the log, to its reservation and to
its strays: a stray changes the log or the ledger after the phase has moved on, so each
property needs to know which strays a phase can have left behind. The ledger's part is not
proved again: the handler's calls are steps of `Budget`, whose theorems are used through
`INSTANCE BudgetProofs`.

**`ApiKeysProofs`**: `TypeCorrect`, `KeysAlwaysPublished`, `AcceptanceAlwaysJustified`,
`RevocationAlwaysStopsInFlight`, `DisabledAlwaysFinal`, for any number of keys and calls and
any difference between the clocks. The invariant says of each place of a call what it has
seen, and of a call that waits for the row's lock that it may have asked too late only if
the row or what it has read of the principal says so.

**`JWKSCacheProofs`**: `TypeCorrect`, `AnswersAlwaysFresh`, `FetchesAlwaysBounded`, for any
finite number of calls, any TTL and fetch time. `CacheInv` says that the cached keys were
published when they were fetched, that a generation is claimed by one force-refresh and
counted by those that are done, and of each call what it has fetched and since when. The run
has three calls; the case of `jwks.go:138`, which takes four, is covered by the theorem.

**`AuditExportProofs`**: `VerifiedExportsAreGenuine` (TM-10), `ReportedExportsAlwaysStand`,
`NothingEverRefused`, `EditsAreLocated` (AC-AUDIT-004), for chains of any length, any number
of commands and of alterations, codes and findings of any size. There are two invariants.
`ExportInv` leaves open what the rows, the file and the copy say: only that the head is the
last link of what was appended, that a stored checkpoint names one of its links, and that no
signature of `SigningKey` is anywhere but on a checkpoint that was loaded from the table.
That is enough for an export that verifies: its checkpoint is one that was signed, so its last
hash is a link of the chain, and the records are right from the last one back, as a hash
contains the hash before it (`VerifiedExportsAreGenuine` does not need to know what an
alteration may do, except that it cannot sign).
`StandingInv` adds what unaltered data are: the rows say what was appended until one is
altered, what a command has read verifies, the file belongs to one command that has not failed
and has its content, and a copy that was altered once is one of the alterations of that file. It rests
on lemmas about events: what the handler builds is valid (`NaturalSum`: the counts of the
findings), the canonical form is its own canonical form, and what PostgreSQL keeps of an event
has the same one. `EditsAreLocated` then goes through the four alterations: which record is
the first that is not in its place or not the one that was hashed, and that no earlier
sequence is affected.

**`AdmissionProofs`**: `DecisionsFollowPolicy`, `DigestsNamePolicies`, `DisabledPrincipalsStayOut`
(AC-AUTH-003), `TokensExpire`, `PricesAreExact`, for documents, selectors and group claims of any
size, any difference of the clocks, prices, and integers of any width. `AdmissionInv` says that
the running engine is the normal form of its document, and what a call carries at each of its
steps: an identity that its token gave it at an instant, a decision and a listing
computed from the document that the engine was made of, an estimate from the price it found.
The lemmas under it: a list is sorted by the rank of its elements, so that equal sets
have equal sorted lists; documents have the same normal form exactly when they have the same
version and make the same statements; a product that fits, divided back, gives its factor, and
one that does not fit never does, so that a cost is refused exactly when it, or what a part of it
is rounded up from, is beyond the machine (`CostDefined`), and is exact otherwise (`CostExact`).

Sums, sorted lists and chains are defined here by folds or recursive functions. The library's
induction theorems cannot be used, so these proofs take a least counterexample instead:
`LeastElement` follows from `WFMin` and `NatLessThanWellFounded`, which have no operator
parameter.

Assumptions on constants: those of `Budget` (finitely many runs, bounds are natural numbers, a
period lasts, the calendar's order); NULL and the other markers are no amount, principal, run,
session, event or call; events and calls are finitely many; `MaxLag >= MaxClock` in
`BudgetLocks`, as nothing bounds how long a statement waits; an operator sets limits from
1 to `MaxLimit`. `AuditExport`: the two keys differ; events are of the four kinds the handler
builds, of a principal that has passed `Principal.Validate`, with amounts of the ledger and
codes of the code (`InputsAssumption`); a category has at most `MaxCodes` codes
(`CategoriesAssumption`: the detector's rules are constants of the code, fewer than the 64 that
`event.go` accepts). `Admission`: what the decoder, `regexp` and the configuration guarantee
of documents, names, deployments and numbers. TLC evaluates all of them in the runs.

Only model-checked: liveness (`EveryAppendReturns`, `EveryRequestAnswered`,
`HoldsEventuallyClose`, `EveryCallReturns`), as fairness is out of the prover's reach, and the
counterexamples of the `doc_*` runs.

## Not modelled

The regular expressions of the detectors (what they find is an input of `Event`), the
encoding and parsing of HTTP, JSON and JWT, HMACs and key files: data, not control; each is
ideal or a success or failure. Configuration, logging, roles and grants, packaging: constants
or output. `cmd/gateway` is a stub. Retention of plaintext (TM-04, TM-05, TM-12) is about
data, not about control.

## Plan

In this order; all but the last are done.

1. `Budget` and its proofs: everything else spends through it.
2. `AuditLog`, `AuditChain`.
3. `Gateway`, which composes the two.
4. `JWKSCache`.
5. `ApiKeys`: creation with publication before commit, disabling against authentication.
6. `BudgetLocks`: the ledger's row locks, lock order and the deadlock of two sweeps.
7. `Event` and `AuditExport`; `Policy`, `OIDC` and `Price`, composed by `Admission`.
8. Proofs about `Budget`, `BudgetLocks`, `AuditChain`, `Gateway`, `ApiKeys`, `JWKSCache`.
9. Proofs about `Admission` and `AuditExport`.
10. What is left: `internal/config` (its validation is a pure function of constants) and the
    detectors' overlapping matches, as operators checked over bounded inputs.
