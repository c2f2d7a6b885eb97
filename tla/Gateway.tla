------------------------------ MODULE Gateway -------------------------------
(***************************************************************************)
(* POST /v1/chat/completions (internal/api/server.go): requests in flight  *)
(* at the same time, each walking through policy, budget reservation,      *)
(* start audit, backend, settlement and completion audit against one spend *)
(* ledger (module Budget) and one audit log (what AuditLog promises).      *)
(*                                                                         *)
(* A call to the database that returns without an error has taken effect.  *)
(* One that returns an error (the client has left and cancelled the        *)
(* request's context, a timeout, a lost connection) leaves its statement   *)
(* behind as a stray: it may still take effect, now or later, or never.    *)
(***************************************************************************)
EXTENDS Integers, Sequences, FiniteSets

CONSTANTS
  Principals, Runs, Null, MaxMicros, MaxLimit, TTL, MaxClock, MaxLag, PeriodEnd,
  Limit        \* what admin_set_budget has given every principal, per window

VARIABLES
  status, account, reservation, clock, \* the ledger, see Budget
  log,         \* committed audit events in chain order
  strays,      \* statements whose caller got an error, not yet ended
  req,         \* each request: its phase and the handler's local variables
  called       \* runs whose backend call was made

ledgerVars == <<status, account, reservation, clock>>
vars == <<status, account, reservation, clock, log, strays, req, called>>

Ledger == INSTANCE Budget

ASSUME GatewayAssumption ==
  /\ Ledger!ConstantsAssumption /\ Ledger!CalendarAssumption
  /\ Null \notin Nat
  /\ Limit \in 1..MaxLimit

-----------------------------------------------------------------------------

Phases == {"new", "denying", "reserving", "starting", "abandoning", "calling",
           "called", "releasing", "settling", "completing", "failing", "done",
           "crashed"}
Codes == {0, 200, 400, 402, 403, 502, 503}
Outcomes == {"none", "ok", "usage_invalid", "failed"}

EventTypes == {"run_denied", "run_started", "run_completed", "run_failed"}
Event(r, type, actual) == [run |-> r, type |-> type, actual |-> actual]

\* A statement left behind by the run whose call it was.
Stray(r, op, arg) == [run |-> r, op |-> op, arg |-> arg]

NoRequest == [phase |-> "new", who |-> Null, max |-> 0, outcome |-> "none",
              actual |-> 0, code |-> 0]

\* Requests meet a database in which principals and budgets are set up.
Init ==
  /\ status = [p \in Principals |-> "active"]
  /\ account = [p \in Principals |->
       [Ledger!NoAccount EXCEPT
          !.limit = [w \in Ledger!Windows |-> Limit],
          !.periodEnd = [w \in Ledger!Windows |-> PeriodEnd[w][0]]]]
  /\ reservation = [r \in Runs |-> Ledger!NoReservation]
  /\ clock = 0
  /\ log = <<>>
  /\ strays = {}
  /\ req = [r \in Runs |-> NoRequest]
  /\ called = {}

At(r, phase) == req[r].phase = phase

\* The handler of r goes on to a phase.
Goto(r, phase) == req' = [req EXCEPT ![r].phase = phase]

\* The handler of r writes its response and returns.
Respond(r, code) == req' = [req EXCEPT ![r].phase = "done", ![r].code = code]

-----------------------------------------------------------------------------
(***************************************************************************)
(* Calls to the database.                                                  *)
(***************************************************************************)

\* A stray COMMIT of an append still holds the chain head's lock.
ChainFree == \A s \in strays : s.op # "append"

\* Repository.Append returns a receipt.
AppendOk(event) ==
  /\ ChainFree
  /\ log' = Append(log, event)
  /\ UNCHANGED <<ledgerVars, strays>>

\* Append returns an error: its COMMIT is in doubt, or was never sent.
AppendError(event) ==
  /\ \/ ChainFree /\ strays' = strays \cup {Stray(event.run, "append", event)}
     \/ UNCHANGED strays
  /\ UNCHANGED <<ledgerVars, log>>

\* Budget.Reserve makes the hold.
ReserveOk(p, r, m) ==
  /\ \E now \in Ledger!StatementTimes : Ledger!reserve_budget(p, r, m, now)
  /\ UNCHANGED <<log, strays>>

\* Reserve returns ErrBudgetDenied: the exception has rolled its statement back.
ReserveDenied(p, m) ==
  /\ \E now \in Ledger!StatementTimes : ~Ledger!Reservable(p, m, now)
  /\ UNCHANGED <<ledgerVars, log, strays>>

\* Reserve returns another error: whether there is a hold is in doubt.
ReserveError(r, m) ==
  /\ strays' = strays \cup {Stray(r, "reserve", m)}
  /\ UNCHANGED <<ledgerVars, log>>

\* Budget.Settle returns the amount it has charged.
SettleOk(r, actual) ==
  /\ \E now \in Ledger!StatementTimes : Ledger!settle_budget(r, actual, now)
  /\ UNCHANGED <<log, strays>>

\* Settle returns an error: the reservation is no longer open, or in doubt.
SettleError(r, actual) ==
  /\ strays' = strays \cup {Stray(r, "settle", actual)}
  /\ UNCHANGED <<ledgerVars, log>>

\* A stray statement takes effect on the database.
StrayLands(s) ==
  /\ \/ /\ s.op = "append"
        /\ log' = Append(log, s.arg)
        /\ UNCHANGED ledgerVars
     \/ /\ s.op = "settle"
        /\ \E now \in Ledger!StatementTimes : Ledger!settle_budget(s.run, s.arg, now)
        /\ UNCHANGED log
     \/ /\ s.op = "reserve"
        /\ \E now \in Ledger!StatementTimes :
             Ledger!reserve_budget(req[s.run].who, s.run, s.arg, now)
        /\ UNCHANGED log
  /\ strays' = strays \ {s}
  /\ UNCHANGED <<req, called>>

\* A stray statement fails or is rolled back.
StrayDies(s) ==
  /\ strays' = strays \ {s}
  /\ UNCHANGED <<ledgerVars, log, req, called>>

-----------------------------------------------------------------------------
(***************************************************************************)
(* The handler.                                                            *)
(***************************************************************************)

\* The request ends before policy is evaluated: method, authentication, body,
\* parsing, content HMAC or detection (400 stands for the 4xx answers).
RejectEarly(r) ==
  /\ At(r, "new")
  /\ \E code \in {400, 503} : Respond(r, code)
  /\ UNCHANGED <<ledgerVars, log, strays, called>>

\* Policy denies, or the model has no route, which is answered like a denial.
PolicyDenies(r, p) ==
  /\ At(r, "new")
  /\ req' = [req EXCEPT ![r].phase = "denying", ![r].who = p, ![r].code = 403]
  /\ UNCHANGED <<ledgerVars, log, strays, called>>

\* Policy allows and EstimateMaxCostMicros yields m.
PolicyAllows(r, p, m) ==
  /\ At(r, "new")
  /\ req' = [req EXCEPT ![r].phase = "reserving", ![r].who = p, ![r].max = m]
  /\ UNCHANGED <<ledgerVars, log, strays, called>>

\* EstimateMaxCostMicros overflows.
EstimateFails(r, p) ==
  /\ At(r, "new")
  /\ req' = [req EXCEPT ![r].phase = "done", ![r].who = p, ![r].code = 503]
  /\ UNCHANGED <<ledgerVars, log, strays, called>>

\* Mutant: the refusal is sent whether or not its event is stored.
DenyUnrecorded(r) ==
  /\ At(r, "denying")
  /\ \/ AppendOk(Event(r, "run_denied", 0)) /\ Respond(r, req[r].code)
     \/ AppendError(Event(r, "run_denied", 0)) /\ Respond(r, req[r].code)
  /\ UNCHANGED called

\* appendDenied, then 403 or 402; without the event the answer is 503.
Deny(r) ==
  /\ At(r, "denying")
  /\ \/ AppendOk(Event(r, "run_denied", 0)) /\ Respond(r, req[r].code)
     \/ AppendError(Event(r, "run_denied", 0)) /\ Respond(r, 503)
  /\ UNCHANGED called

\* The reservation; a denial is recorded like that of the policy, any other error
\* ends the request with nothing on record.
Reserve(r) ==
  LET p == req[r].who  m == req[r].max IN
  /\ At(r, "reserving")
  /\ \/ ReserveOk(p, r, m) /\ Goto(r, "starting")
     \/ /\ ReserveDenied(p, m)
        /\ req' = [req EXCEPT ![r].phase = "denying", ![r].code = 402]
     \/ ReserveError(r, m) /\ Respond(r, 503)
  /\ UNCHANGED called

\* Mutant: the backend may be called although the append failed.
StartAnyway(r) ==
  /\ At(r, "starting")
  /\ \/ AppendOk(Event(r, "run_started", 0)) /\ Goto(r, "calling")
     \/ AppendError(Event(r, "run_started", 0)) /\ Goto(r, "calling")
  /\ UNCHANGED called

\* The run_started event; only its receipt authorises the backend call.
Start(r) ==
  /\ At(r, "starting")
  /\ \/ AppendOk(Event(r, "run_started", 0)) /\ Goto(r, "calling")
     \/ AppendError(Event(r, "run_started", 0)) /\ Goto(r, "abandoning")
  /\ UNCHANGED called

\* Without the start event the hold is settled to zero, on the request's own
\* context and ignoring an error, and the answer is 503.
Abandon(r) ==
  /\ At(r, "abandoning")
  /\ SettleOk(r, 0) \/ SettleError(r, 0)
  /\ Respond(r, 503)
  /\ UNCHANGED called

CallBackend(r) ==
  /\ At(r, "calling")
  /\ called' = called \cup {r}
  /\ Goto(r, "called")
  /\ UNCHANGED <<ledgerVars, log, strays>>

\* Mutant: the reported cost is taken as it is.
BackendAnswersUncapped(r, cost) ==
  /\ At(r, "called")
  /\ req' = [req EXCEPT ![r].phase = "settling", ![r].outcome = "ok",
                        ![r].actual = cost]
  /\ UNCHANGED <<ledgerVars, log, strays, called>>

\* The usage the backend reports prices the run at cost, at most what was held.
BackendAnswers(r, cost) ==
  /\ At(r, "called")
  /\ req' = [req EXCEPT ![r].phase = "settling", ![r].outcome = "ok",
                        ![r].actual = IF cost > req[r].max THEN req[r].max ELSE cost]
  /\ UNCHANGED <<ledgerVars, log, strays, called>>

\* The run ends in a failure after the backend call.
RunFails(r, outcome, code) ==
  /\ At(r, "called")
  /\ req' = [req EXCEPT ![r].phase = "releasing", ![r].outcome = outcome,
                        ![r].code = code]
  /\ UNCHANGED <<ledgerVars, log, strays, called>>

\* The backend fails or times out, or its answer is too large or malformed (502);
\* or the answer's digest cannot be made (503).
BackendFails(r, code) == code \in {502, 503} /\ RunFails(r, "failed", code)

\* The backend answers without usage, or with token counts that do not add up.
UsageInvalid(r) == RunFails(r, "usage_invalid", 502)

\* Mutant: the hold of a failed run is charged in full.
ReleaseCharges(r) ==
  /\ At(r, "releasing")
  /\ SettleOk(r, req[r].max) \/ SettleError(r, req[r].max)
  /\ Goto(r, "failing")
  /\ UNCHANGED called

\* Mutant: the release is repeated until it succeeds.
ReleaseUntilDone(r) ==
  /\ At(r, "releasing")
  /\ SettleOk(r, 0)
  /\ Goto(r, "failing")
  /\ UNCHANGED called

\* After a failure the hold is settled to zero, an error ignored.
Release(r) ==
  /\ At(r, "releasing")
  /\ SettleOk(r, 0) \/ SettleError(r, 0)
  /\ Goto(r, "failing")
  /\ UNCHANGED called

\* Mutant: a failed settlement is ignored here too.
SettleIgnored(r) ==
  /\ At(r, "settling")
  /\ SettleOk(r, req[r].actual) \/ SettleError(r, req[r].actual)
  /\ Goto(r, "completing")
  /\ UNCHANGED called

\* The settlement of an answered run; when it fails, so does the run, and its
\* event will say that nothing was charged.
Settle(r) ==
  /\ At(r, "settling")
  /\ \/ /\ SettleOk(r, req[r].actual)
        /\ Goto(r, "completing")
     \/ /\ SettleError(r, req[r].actual)
        /\ req' = [req EXCEPT ![r].phase = "failing", ![r].actual = 0, ![r].code = 503]
  /\ UNCHANGED called

\* The run_completed event, then 200 with the content.
Complete(r) ==
  /\ At(r, "completing")
  /\ \/ /\ AppendOk(Event(r, "run_completed", req[r].actual))
        /\ Respond(r, 200)
     \/ /\ AppendError(Event(r, "run_completed", req[r].actual))
        /\ req' = [req EXCEPT ![r].phase = "failing", ![r].code = 503]
  /\ UNCHANGED called

\* appendFailed, an error ignored, then the failure's answer.
Fail(r) ==
  /\ At(r, "failing")
  /\ \/ AppendOk(Event(r, "run_failed", req[r].actual))
     \/ AppendError(Event(r, "run_failed", req[r].actual))
  /\ Respond(r, req[r].code)
  /\ UNCHANGED called

\* The process dies: nothing of a request survives but what the database has.
Crash(r) ==
  /\ req[r].phase \notin {"new", "done", "crashed"}
  /\ Goto(r, "crashed")
  /\ UNCHANGED <<ledgerVars, log, strays, called>>

-----------------------------------------------------------------------------

\* Budget.ExpireReservations, called by an operator or a scheduler: the gateway
\* itself never does.
Sweep ==
  /\ \E now \in Ledger!StatementTimes : \E S \in SUBSET Ledger!Expirable(now) :
       Ledger!expire_budget_reservations(S, now)
  /\ UNCHANGED <<log, strays, req, called>>

Disable(p) ==
  /\ Ledger!DisablePrincipal(p)
  /\ UNCHANGED <<log, strays, req, called>>

Tick ==
  /\ Ledger!Tick
  /\ UNCHANGED <<log, strays, req, called>>

Arrive(r) ==
  \/ RejectEarly(r)
  \/ \E p \in Principals : \/ PolicyDenies(r, p)
                           \/ EstimateFails(r, p)
                           \/ \E m \in 1..MaxMicros : PolicyAllows(r, p, m)

\* What the handler does on its own once a request has arrived.
Handle(r) ==
  \/ Deny(r) \/ Reserve(r) \/ Start(r) \/ Abandon(r) \/ CallBackend(r)
  \/ \E cost \in 0..(MaxMicros + 1) : BackendAnswers(r, cost)
  \/ UsageInvalid(r) \/ \E code \in {502, 503} : BackendFails(r, code)
  \/ Release(r) \/ Settle(r) \/ Complete(r) \/ Fail(r)

Next ==
  \/ \E r \in Runs : Arrive(r) \/ Handle(r) \/ Crash(r)
  \/ \E s \in strays : StrayLands(s) \/ StrayDies(s)
  \/ \E p \in Principals : Disable(p)
  \/ Sweep
  \/ Tick

Spec == Init /\ [][Next]_vars

\* Every call a handler makes returns in the end, with or without an error: the
\* backend client has its timeout and the database its statement_timeout, which
\* also ends the strays.  Nothing obliges the process to crash.  Time passes,
\* and somebody runs the sweep again and again: a duty of the deployment.
RecoverySpec ==
  /\ Spec
  /\ \A r \in Runs : WF_vars(Handle(r))
  /\ WF_vars(\E s \in strays : StrayLands(s) \/ StrayDies(s))
  /\ WF_vars(Tick) /\ WF_vars(Sweep)

-----------------------------------------------------------------------------

EventsOf(r, type) == {i \in 1..Len(log) : log[i].run = r /\ log[i].type = type}

TypeOK ==
  /\ Ledger!TypeOK
  /\ \A i \in 1..Len(log) : /\ log[i].run \in Runs
                            /\ log[i].type \in EventTypes
                            /\ log[i].actual \in 0..MaxMicros
  /\ \A s \in strays : s.run \in Runs /\ s.op \in {"append", "settle", "reserve"}
  /\ \A r \in Runs : /\ req[r].phase \in Phases /\ req[r].code \in Codes
                     /\ req[r].who \in Principals \cup {Null}
                     /\ req[r].outcome \in Outcomes
                     /\ req[r].max \in 0..MaxMicros /\ req[r].actual \in 0..MaxMicros
  /\ called \subseteq Runs

\* TM-07: whatever fails, the backend is called for a run only once its start
\* event and its reservation are committed.
BackendAuthorised ==
  \A r \in called : /\ EventsOf(r, "run_started") # {}
                    /\ reservation[r].state # "none"

\* TM-08: content is returned only for a run whose completion event is committed,
\* and a completion event, seen by a caller or not, is only ever about a run that
\* is settled and states the amount that was charged.
SuccessBacked ==
  \A r \in Runs :
    /\ req[r].code = 200 => EventsOf(r, "run_completed") # {}
    /\ \A i \in EventsOf(r, "run_completed") :
         reservation[r].state = "settled" /\ log[i].actual = reservation[r].actual

\* A refusal the caller sees (402, 403) is on record, and the run it refused
\* holds no budget and never reached the backend.
RefusalsRecorded ==
  \A r \in Runs : At(r, "done") /\ req[r].code \in {402, 403} =>
    /\ EventsOf(r, "run_denied") # {}
    /\ reservation[r].state = "none" /\ r \notin called

\* The log tells each run's story in order and once: completion and failure come
\* after the start, a denied run has no other event, no event type repeats.
StoryInOrder ==
  \A r \in Runs :
    /\ \A i \in EventsOf(r, "run_completed") \cup EventsOf(r, "run_failed") :
         \E j \in EventsOf(r, "run_started") : j < i
    /\ \A type \in EventTypes : Cardinality(EventsOf(r, type)) <= 1
    /\ EventsOf(r, "run_denied") # {} => \A type \in EventTypes \ {"run_denied"} :
                                           EventsOf(r, type) = {}

\* Only a run the backend answered is ever charged: stray settlements, sweeps
\* and abandoned starts never turn a hold into spend.
ChargedOnlyIfServed ==
  \A r \in Runs : reservation[r].actual > 0 => r \in called /\ req[r].outcome = "ok"

\* No request is left hanging: whatever the ledger, the log and the strays of
\* others do to its hold and to the chain's lock, a handler that has begun answers
\* or dies with its process.
EveryRequestAnswered ==
  \A r \in Runs : ~At(r, "new") ~> (At(r, "done") \/ At(r, "crashed"))

\* No hold outlives its reservation for good: not that of a crashed handler, of a
\* settlement that failed, of a principal disabled meanwhile, nor one made by a
\* statement whose caller had gone.
HoldsEventuallyClose ==
  \A r \in Runs : (reservation[r].state = "reserved" /\ reservation[r].expiresAt <= MaxClock)
                   ~> reservation[r].state # "reserved"

-----------------------------------------------------------------------------
(***************************************************************************)
(* What the documents say of the gateway and the code does not do.         *)
(***************************************************************************)

\* docs/threat-model.md:92: a run the backend answered without reliable usage
\* is charged all that was held for it.
UnreliableUsageChargedInFull ==
  \A r \in Runs : req[r].outcome = "usage_invalid" /\ reservation[r].state = "settled"
                   => reservation[r].actual = reservation[r].max

\* The plan's step 16: settlement and final event, run_completed or run_failed, are
\* one atomic act.  So a run has one of them, and the cost it states is the cost
\* the ledger charged.
FinalEventAgrees ==
  \A r \in Runs :
    LET final == EventsOf(r, "run_completed") \cup EventsOf(r, "run_failed") IN
    /\ Cardinality(final) <= 1
    /\ reservation[r].state = "settled" =>
         \A i \in final : log[i].actual = reservation[r].actual
=============================================================================
