---------------------------- MODULE GatewayProofs ---------------------------
(***************************************************************************)
(* Theorems about the chat completion handler of module Gateway, for any   *)
(* number of requests in flight, every calendar and every bound.           *)
(***************************************************************************)
EXTENDS Gateway, FiniteSetTheorems, TLAPS

\* The theorems about the ledger alone.
LP == INSTANCE BudgetProofs

-----------------------------------------------------------------------------
(***************************************************************************)
(* The inductive invariant.                                                *)
(***************************************************************************)

EventRecord == [run : Runs, type : EventTypes, actual : 0..MaxMicros]

StrayRecord == [run : Runs, op : {"append"}, arg : EventRecord]
                 \cup [run : Runs, op : {"settle"}, arg : 0..MaxMicros]
                 \cup [run : Runs, op : {"reserve"}, arg : 1..MaxMicros]

RequestRecord == [phase : Phases, who : Principals \cup {Null}, max : 0..MaxMicros,
                  outcome : Outcomes, actual : 0..MaxMicros, code : Codes]

\* The type invariant in full.
Types ==
  /\ Ledger!TypeOK
  /\ log \in Seq(EventRecord)
  /\ strays \in SUBSET StrayRecord
  /\ req \in [Runs -> RequestRecord]
  /\ called \in SUBSET Runs

\* The events of the log, and those of run r that are or may come to be in it.
Recorded == {log[i] : i \in 1..Len(log)}
Logged(r, type) == \E e \in Recorded : e.run = r /\ e.type = type
Pending(r, type) ==
  \E s \in strays : s.op = "append" /\ s.run = r /\ s.arg.type = type
Noted(r, type) == Logged(r, type) \/ Pending(r, type)

\* Phases before the start event, with a reservation, with the start event on
\* record, and after the backend call.
Unstarted == {"new", "denying", "reserving", "starting"}
Held == {"starting", "abandoning", "calling", "called", "releasing", "settling",
         "completing", "failing"}
Started == {"calling", "called", "releasing", "settling", "completing", "failing"}
Served == {"called", "releasing", "settling", "completing", "failing"}

\* What may be on record about a run, and what will be added to it.
Story(r) ==
  /\ req[r].phase \in Unstarted => \A type \in EventTypes : ~Noted(r, type)
  /\ req[r].phase \in Started => Logged(r, "run_started")
  /\ req[r].phase \in {"abandoning"} \cup (Started \ {"failing"}) =>
       \A type \in EventTypes \ {"run_started"} : ~Noted(r, type)
  /\ req[r].phase = "failing" => ~Noted(r, "run_denied") /\ ~Noted(r, "run_failed")
  /\ Noted(r, "run_denied") =>
       \A type \in EventTypes \ {"run_denied"} : ~Noted(r, type)
  /\ Noted(r, "run_completed") \/ Noted(r, "run_failed") => Logged(r, "run_started")
  /\ \A type \in EventTypes : Pending(r, type) => ~Logged(r, type)

\* How a run's reservation goes with its phase.
Hold(r) ==
  /\ req[r].phase \notin {"new", "done", "crashed"} => req[r].who \in Principals
  /\ req[r].phase = "reserving" => req[r].max \in 1..MaxMicros
  /\ req[r].phase \in {"new", "denying", "reserving"} => reservation[r].state = "none"
  /\ req[r].phase \in Held => reservation[r].state # "none"
  /\ reservation[r].state # "none" => reservation[r].max = req[r].max
  /\ req[r].phase \in Served => r \in called
  /\ r \in called => Logged(r, "run_started") /\ reservation[r].state # "none"

\* What the backend's answer has to do with the charge.
Charged(r) ==
  /\ req[r].outcome # "none" =>
       req[r].phase \in {"releasing", "settling", "completing", "failing", "done", "crashed"}
  /\ req[r].phase = "settling" => req[r].outcome = "ok" /\ req[r].actual <= req[r].max
  /\ reservation[r].actual > 0 => r \in called /\ req[r].outcome = "ok"
  /\ req[r].phase = "completing" =>
       reservation[r].state = "settled" /\ reservation[r].actual = req[r].actual
  /\ \A e \in Recorded : e.run = r /\ e.type = "run_completed" =>
       reservation[r].state = "settled" /\ reservation[r].actual = e.actual

\* What the handler answers.
Answer(r) ==
  /\ req[r].phase = "denying" => req[r].code \in {402, 403}
  /\ req[r].phase \in {"releasing", "failing"} => req[r].code \in {502, 503}
  /\ req[r].code = 200 => Logged(r, "run_completed")
  /\ req[r].phase = "done" /\ req[r].code \in {402, 403} =>
       Logged(r, "run_denied") /\ reservation[r].state = "none"

\* A statement left behind does only what its run may still suffer.
StrayOf(r) ==
  \A s \in strays : s.run = r =>
    /\ s.op = "append" =>
         /\ s.arg.run = r
         /\ s.arg.type = "run_completed" =>
              reservation[r].state = "settled" /\ reservation[r].actual = s.arg.actual
    /\ s.op = "settle" /\ s.arg > 0 => r \in called /\ req[r].outcome = "ok"
    /\ s.op = "reserve" => /\ req[r].phase = "done" /\ req[r].code = 503
                           /\ req[r].who \in Principals /\ req[r].max = s.arg

RunInv(r) == Story(r) /\ Hold(r) /\ Charged(r) /\ Answer(r) /\ StrayOf(r)

\* An event is in the log once, and an outcome comes after its start.
LogInOrder ==
  /\ \A i, j \in 1..Len(log) : log[i].run = log[j].run /\ log[i].type = log[j].type
                               => i = j
  /\ \A i \in 1..Len(log) : log[i].type \in {"run_completed", "run_failed"} =>
       \E j \in 1..Len(log) : /\ j < i
                              /\ log[j].run = log[i].run
                              /\ log[j].type = "run_started"

\* At most one COMMIT of an append is in doubt: it holds the chain's lock.
OneAppend == \A s, t \in strays : s.op = "append" /\ t.op = "append" => s = t

\* None of the properties is inductive alone: each relates the log or the ledger
\* to a phase, and strays change both after the phase has moved on.
GatewayInv == Types /\ LogInOrder /\ OneAppend /\ \A r \in Runs : RunInv(r)

-----------------------------------------------------------------------------
(***************************************************************************)
(* The ledger, as it is used here and in BudgetProofs.                     *)
(***************************************************************************)

\* Both instances of the ledger's module have the same finite sets and totals.
LEMMA SameSums ==
  /\ \A S : LP!IsFiniteSet(S) <=> Ledger!IsFiniteSet(S)
  /\ \A S, amt : LP!Total(S, amt) = Ledger!Total(S, amt)
  /\ LP!MaxOf = Ledger!MaxOf
<1>1. \A S : LP!IsFiniteSet(S) <=> Ledger!IsFiniteSet(S)
  BY DEF LP!IsFiniteSet, Ledger!IsFiniteSet
<1>2. \A S : LP!Cardinality(S) = Ledger!Cardinality(S)
  BY DEF LP!Cardinality, Ledger!Cardinality
<1>3. \A S, amt : LP!Micros(S, amt) = Ledger!Micros(S, amt)
  BY DEF LP!Micros, Ledger!Micros
<1> QED BY <1>1, <1>2, <1>3 DEF LP!Total, Ledger!Total, LP!MaxOf, Ledger!MaxOf

\* The assumptions of the ledger's theorems hold here.
LEMMA LedgerAssumptions == LP!ConstantsAssumption /\ LP!CalendarAssumption
<1>1. LP!Windows = Ledger!Windows /\ LP!Times = Ledger!Times
  BY DEF LP!Windows, Ledger!Windows, LP!Times, Ledger!Times
<1>2. LP!ConstantsAssumption
  BY SameSums, GatewayAssumption DEF Ledger!ConstantsAssumption, LP!ConstantsAssumption
<1>3. LP!CalendarAssumption
  BY <1>1, GatewayAssumption DEF Ledger!CalendarAssumption, LP!CalendarAssumption
<1> QED BY <1>2, <1>3

\* Both have the same rows and statements.
LEMMA SameLedger ==
  /\ LP!TypeOK <=> Ledger!TypeOK
  /\ LP!StatementTimes = Ledger!StatementTimes
  /\ \A now : LP!Expirable(now) = Ledger!Expirable(now)
  /\ \A p, r, m, now : LP!reserve_budget(p, r, m, now) <=> Ledger!reserve_budget(p, r, m, now)
  /\ \A r, a, now : LP!settle_budget(r, a, now) <=> Ledger!settle_budget(r, a, now)
  /\ \A S, now : LP!expire_budget_reservations(S, now)
                   <=> Ledger!expire_budget_reservations(S, now)
  /\ \A p : LP!DisablePrincipal(p) <=> Ledger!DisablePrincipal(p)
  /\ LP!Tick <=> Ledger!Tick
<1>1. LP!Windows = Ledger!Windows /\ LP!Times = Ledger!Times
  BY DEF LP!Windows, Ledger!Windows, LP!Times, Ledger!Times
<1>2. LP!TypeOK <=> Ledger!TypeOK
  <2>1. LP!AccountRow = Ledger!AccountRow
    BY <1>1 DEF LP!AccountRow, Ledger!AccountRow
  <2>2. LP!ReservationRow = Ledger!ReservationRow
    BY <1>1 DEF LP!ReservationRow, Ledger!ReservationRow,
                LP!ReservationState, Ledger!ReservationState
  <2> QED BY <1>1, <2>1, <2>2 DEF LP!TypeOK, Ledger!TypeOK
<1>3. LP!StatementTimes = Ledger!StatementTimes
  BY <1>1 DEF LP!StatementTimes, Ledger!StatementTimes
<1>4. \A now : LP!Expirable(now) = Ledger!Expirable(now)
  BY DEF LP!Expirable, Ledger!Expirable
<1>5. \A a, now : LP!budget_roll_periods(a, now) = Ledger!budget_roll_periods(a, now)
  BY <1>1 DEF LP!budget_roll_periods, Ledger!budget_roll_periods
<1>6. \A p, r, m, now : LP!reserve_budget(p, r, m, now) <=> Ledger!reserve_budget(p, r, m, now)
  BY <1>1, <1>5 DEF LP!reserve_budget, Ledger!reserve_budget, LP!Reservable,
     Ledger!Reservable, LP!HasAccount, Ledger!HasAccount
<1>7. \A r, a, now : LP!settle_budget(r, a, now) <=> Ledger!settle_budget(r, a, now)
  <2>1. \A r : LP!Settleable(r) <=> Ledger!Settleable(r)
    BY <1>1 DEF LP!Settleable, Ledger!Settleable, LP!HasAccount, Ledger!HasAccount
  <2>2. \A r, a : LP!Charge(r, a) = Ledger!Charge(r, a)
    BY DEF LP!Charge, Ledger!Charge
  <2> SUFFICES ASSUME NEW r, NEW x, NEW now
               PROVE  LP!settle_budget(r, x, now) <=> Ledger!settle_budget(r, x, now)
    OBVIOUS
  <2>3. /\ LP!Settleable(r) <=> Ledger!Settleable(r)
        /\ LP!Charge(r, x) = Ledger!Charge(r, x)
        /\ LP!budget_roll_periods(account[reservation[r].owner], now)
             = Ledger!budget_roll_periods(account[reservation[r].owner], now)
    BY <1>5, <2>1, <2>2
  <2> QED BY <1>1, <2>3 DEF LP!settle_budget, Ledger!settle_budget
<1>8. \A S, now : LP!expire_budget_reservations(S, now)
                    <=> Ledger!expire_budget_reservations(S, now)
  <2>1. \A p : LP!OpenHolds(p) = Ledger!OpenHolds(p)
    BY DEF LP!OpenHolds, Ledger!OpenHolds
  <2>2. \A p, S, now : LP!WithoutHolds(p, S, now) = Ledger!WithoutHolds(p, S, now)
    BY <1>1, <1>5, SameSums DEF LP!WithoutHolds, Ledger!WithoutHolds
  <2> QED BY <1>4, <2>1, <2>2 DEF LP!expire_budget_reservations,
             Ledger!expire_budget_reservations
<1>9. /\ \A p : LP!DisablePrincipal(p) <=> Ledger!DisablePrincipal(p)
      /\ LP!Tick <=> Ledger!Tick
  BY DEF LP!DisablePrincipal, Ledger!DisablePrincipal, LP!Tick, Ledger!Tick
<1> QED BY <1>2, <1>3, <1>4, <1>6, <1>7, <1>8, <1>9

\* The same of the next state.
LEMMA SameTypeNext == LP!TypeOK' <=> Ledger!TypeOK'
BY SameLedger, PTL

\* Every statement keeps the ledger's rows well formed, by the ledger's theorem.
LEMMA StatementKeepsTypes ==
  ASSUME Ledger!TypeOK,
         \/ \E p \in Principals, r \in Runs, m \in 1..MaxMicros,
               now \in Ledger!StatementTimes : Ledger!reserve_budget(p, r, m, now)
         \/ \E r \in Runs, a \in 0..MaxMicros, now \in Ledger!StatementTimes :
               Ledger!settle_budget(r, a, now)
         \/ \E now \in Ledger!StatementTimes : \E S \in SUBSET Ledger!Expirable(now) :
               Ledger!expire_budget_reservations(S, now)
         \/ \E p \in Principals : Ledger!DisablePrincipal(p)
         \/ Ledger!Tick
         \/ UNCHANGED ledgerVars
  PROVE  Ledger!TypeOK'
<1>1. LP!TypeOK /\ [LP!Next]_(LP!vars) => LP!TypeOK'
  BY LedgerAssumptions, LP!TypeStep
<1>2. [LP!Next]_(LP!vars)
  <2>1. UNCHANGED ledgerVars => UNCHANGED LP!vars
    BY DEF ledgerVars, LP!vars
  <2> QED BY SameLedger, <2>1 DEF LP!Next
<1> QED BY <1>1, <1>2, SameLedger, SameTypeNext

\* A reservation touches one row, which was free.
LEMMA ReserveEffect ==
  ASSUME Ledger!TypeOK, NEW p, NEW r \in Runs, NEW m, NEW now,
         Ledger!reserve_budget(p, r, m, now)
  PROVE  /\ reservation[r].state = "none"
         /\ reservation'[r].state = "reserved"
         /\ reservation'[r].max = m /\ reservation'[r].actual = 0
         /\ \A x \in Runs : x # r => reservation'[x] = reservation[x]
BY DEF Ledger!reserve_budget, Ledger!TypeOK

\* A settlement touches one row, which was open, and charges what is asked for
\* up to what was held.
LEMMA SettleEffect ==
  ASSUME Ledger!TypeOK, NEW r \in Runs, NEW a \in 0..MaxMicros, NEW now,
         Ledger!settle_budget(r, a, now)
  PROVE  /\ reservation[r].state = "reserved"
         /\ reservation'[r].state = "settled"
         /\ reservation'[r].max = reservation[r].max
         /\ reservation'[r].actual = IF a > reservation[r].max THEN reservation[r].max
                                     ELSE a
         /\ \A x \in Runs : x # r => reservation'[x] = reservation[x]
<1>1. a # Null
  BY GatewayAssumption DEF Ledger!ConstantsAssumption
<1> QED BY <1>1 DEF Ledger!settle_budget, Ledger!Settleable, Ledger!Charge,
           Ledger!TypeOK, Ledger!ReservationRow

\* A sweep touches open rows only and charges nothing.
LEMMA ExpireEffect ==
  ASSUME Ledger!TypeOK, NEW now, NEW S \in SUBSET Ledger!Expirable(now),
         Ledger!expire_budget_reservations(S, now), NEW x \in Runs
  PROVE  \/ reservation'[x] = reservation[x]
         \/ /\ reservation[x].state = "reserved" /\ reservation'[x].state = "expired"
            /\ reservation'[x].max = reservation[x].max
            /\ reservation'[x].actual = reservation[x].actual
BY DEF Ledger!expire_budget_reservations, Ledger!Expirable, Ledger!TypeOK,
       Ledger!ReservationRow

-----------------------------------------------------------------------------
(***************************************************************************)
(* Every step keeps the invariant.                                         *)
(***************************************************************************)

\* A step that does not concern run x keeps what is said of it.
LEMMA OtherRun ==
  ASSUME NEW x \in Runs, RunInv(x),
         req'[x] = req[x], reservation'[x] = reservation[x],
         x \in called' <=> x \in called,
         \A e : e.run = x => (e \in Recorded' <=> e \in Recorded),
         \A s : s.run = x => (s \in strays' <=> s \in strays)
  PROVE  RunInv(x)'
<1>1. \A type : Logged(x, type)' <=> Logged(x, type)
  BY DEF Logged
<1>2. \A type : Pending(x, type)' <=> Pending(x, type)
  BY DEF Pending
<1>3. \A type : Noted(x, type)' <=> Noted(x, type)
  BY <1>1, <1>2 DEF Noted
<1>4. Story(x)'
  BY <1>1, <1>2, <1>3 DEF RunInv, Story
<1>5. Hold(x)'
  BY <1>1 DEF RunInv, Hold
<1>6. Charged(x)'
  BY DEF RunInv, Charged
<1>7. Answer(x)'
  BY <1>1 DEF RunInv, Answer
<1>8. StrayOf(x)'
  BY DEF RunInv, StrayOf
<1> QED BY <1>4, <1>5, <1>6, <1>7, <1>8 DEF RunInv

\* The log with one more event.
LEMMA LogAppend ==
  ASSUME log \in Seq(EventRecord), NEW e \in EventRecord, log' = Append(log, e)
  PROVE  /\ log' \in Seq(EventRecord)
         /\ Recorded' = Recorded \cup {e}
         /\ /\ LogInOrder
            /\ ~Logged(e.run, e.type)
            /\ e.type \in {"run_completed", "run_failed"} => Logged(e.run, "run_started")
            => LogInOrder'
<1> DEFINE n == Len(log)
<1>1. /\ log' \in Seq(EventRecord) /\ n \in Nat /\ Len(log') = n + 1
      /\ \A i \in 1..n : log'[i] = log[i]
      /\ log'[n + 1] = e
  OBVIOUS
<1>2. 1..(n + 1) = (1..n) \cup {n + 1} /\ \A i \in 1..n : i < n + 1
  BY <1>1
<1>3. Recorded = {log[i] : i \in 1..n} /\ Recorded' = {log'[i] : i \in 1..(n + 1)}
  BY <1>1 DEF Recorded
<1> HIDE DEF n
<1>4. Recorded' = Recorded \cup {e}
  BY <1>1, <1>2, <1>3
<1>5. ASSUME LogInOrder, ~Logged(e.run, e.type),
             e.type \in {"run_completed", "run_failed"} => Logged(e.run, "run_started")
      PROVE  LogInOrder'
  <2>1. \A i \in 1..n : ~(log[i].run = e.run /\ log[i].type = e.type)
    BY <1>3, <1>5 DEF Logged
  <2>2. ASSUME NEW i \in 1..(n + 1), NEW j \in 1..(n + 1),
               log'[i].run = log'[j].run, log'[i].type = log'[j].type
        PROVE  i = j
    BY <1>1, <1>2, <1>5, <2>1, <2>2 DEF LogInOrder, n
  <2>3. ASSUME NEW i \in 1..(n + 1), log'[i].type \in {"run_completed", "run_failed"}
        PROVE  \E j \in 1..(n + 1) : /\ j < i
                                     /\ log'[j].run = log'[i].run
                                     /\ log'[j].type = "run_started"
    <3>1. CASE i \in 1..n
      <4>1. PICK j \in 1..n : /\ j < i /\ log[j].run = log[i].run
                              /\ log[j].type = "run_started"
        BY <1>1, <1>5, <2>3, <3>1 DEF LogInOrder, n
      <4> QED BY <1>1, <1>2, <3>1, <4>1
    <3>2. CASE i = n + 1
      <4>1. PICK j \in 1..n : log[j].run = e.run /\ log[j].type = "run_started"
        BY <1>1, <1>3, <1>5, <2>3, <3>2 DEF Logged
      <4> QED BY <1>1, <1>2, <3>2, <4>1
    <3> QED BY <1>2, <3>1, <3>2
  <2> QED BY <1>1, <2>2, <2>3 DEF LogInOrder
<1> QED BY <1>1, <1>4, <1>5

\* A step that concerns run r alone keeps the invariant if it keeps r's part.
LEMMA RunStep ==
  ASSUME GatewayInv, NEW r \in Runs, Types', LogInOrder', OneAppend', RunInv(r)',
         \A x \in Runs : x # r => req'[x] = req[x] /\ reservation'[x] = reservation[x],
         \A x \in Runs : x # r => (x \in called' <=> x \in called),
         \A e : e.run # r => (e \in Recorded' <=> e \in Recorded),
         \A s : s.run # r => (s \in strays' <=> s \in strays)
  PROVE  GatewayInv'
<1>1. ASSUME NEW x \in Runs, x # r PROVE RunInv(x)'
  BY <1>1, OtherRun DEF GatewayInv
<1> QED BY <1>1 DEF GatewayInv

\* Without a change of the log or the strays the same is on record.
LEMMA SameRecord ==
  ASSUME UNCHANGED <<log, strays>>
  PROVE  /\ Recorded' = Recorded
         /\ \A r, type : /\ Logged(r, type)' <=> Logged(r, type)
                         /\ Pending(r, type)' <=> Pending(r, type)
                         /\ Noted(r, type)' <=> Noted(r, type)
         /\ LogInOrder => LogInOrder'
         /\ OneAppend => OneAppend'
<1>1. Recorded' = Recorded
  BY DEF Recorded
<1>2. \A r, type : /\ Logged(r, type)' <=> Logged(r, type)
                   /\ Pending(r, type)' <=> Pending(r, type)
  BY <1>1 DEF Logged, Pending
<1> QED BY <1>1, <1>2 DEF Noted, LogInOrder, OneAppend

\* The request of r becomes the given one and the others stay as they are.
Becomes(r, f, p, m, o, a, c) ==
  /\ req' \in [Runs -> RequestRecord]
  /\ \A x \in Runs : x # r => req'[x] = req[x]
  /\ req'[r].phase = f /\ req'[r].who = p /\ req'[r].max = m
  /\ req'[r].outcome = o /\ req'[r].actual = a /\ req'[r].code = c

\* The phases, codes and outcomes that steps of the handler lead to.
LEMMA Names ==
  /\ "denying" \in Phases /\ "reserving" \in Phases /\ "starting" \in Phases
  /\ "abandoning" \in Phases /\ "calling" \in Phases /\ "called" \in Phases
  /\ "releasing" \in Phases /\ "settling" \in Phases
  /\ "completing" \in Phases /\ "failing" \in Phases /\ "done" \in Phases
  /\ "crashed" \in Phases
  /\ 0 \in Codes /\ 200 \in Codes /\ 400 \in Codes /\ 402 \in Codes
  /\ 403 \in Codes /\ 502 \in Codes /\ 503 \in Codes
  /\ "ok" \in Outcomes /\ "usage_invalid" \in Outcomes
  /\ "failed" \in Outcomes
BY DEF Phases, Codes, Outcomes

\* The handler goes on to another phase.
LEMMA GotoBecomes ==
  ASSUME Types, NEW r \in Runs, NEW f \in Phases, Goto(r, f)
  PROVE  Becomes(r, f, req[r].who, req[r].max, req[r].outcome, req[r].actual, req[r].code)
BY DEF Types, Goto, Becomes, RequestRecord

\* The handler answers.
LEMMA RespondBecomes ==
  ASSUME Types, NEW r \in Runs, NEW c \in Codes, Respond(r, c)
  PROVE  Becomes(r, "done", req[r].who, req[r].max, req[r].outcome, req[r].actual, c)
<1>1. "done" \in Phases
  BY Names
<1> QED BY <1>1 DEF Types, Respond, Becomes, RequestRecord

\* What the handler's assignments make of its request: phase, code.
LEMMA SetCode ==
  ASSUME Types, NEW r \in Runs, NEW f \in Phases,
         NEW c \in Codes,
         req' = [req EXCEPT ![r].phase = f, ![r].code = c]
  PROVE  Becomes(r, f, req[r].who, req[r].max, req[r].outcome, req[r].actual, c)
BY DEF Types, Becomes, RequestRecord

\* What the handler's assignments make of its request: phase, principal, code.
LEMMA SetWhoCode ==
  ASSUME Types, NEW r \in Runs, NEW f \in Phases,
         NEW p \in Principals, NEW c \in Codes,
         req' = [req EXCEPT ![r].phase = f, ![r].who = p, ![r].code = c]
  PROVE  Becomes(r, f, p, req[r].max, req[r].outcome, req[r].actual, c)
BY DEF Types, Becomes, RequestRecord

\* What the handler's assignments make of its request: phase, principal, maximum.
LEMMA SetWhoMax ==
  ASSUME Types, NEW r \in Runs, NEW f \in Phases,
         NEW p \in Principals, NEW m \in 0..MaxMicros,
         req' = [req EXCEPT ![r].phase = f, ![r].who = p, ![r].max = m]
  PROVE  Becomes(r, f, p, m, req[r].outcome, req[r].actual, req[r].code)
BY DEF Types, Becomes, RequestRecord

\* What the handler's assignments make of its request: phase, cost, code.
LEMMA SetActualCode ==
  ASSUME Types, NEW r \in Runs, NEW f \in Phases,
         NEW a \in 0..MaxMicros, NEW c \in Codes,
         req' = [req EXCEPT ![r].phase = f, ![r].actual = a, ![r].code = c]
  PROVE  Becomes(r, f, req[r].who, req[r].max, req[r].outcome, a, c)
BY DEF Types, Becomes, RequestRecord

\* A step of the handler of r between two calls to the database changes only its
\* request, and called.
LEMMA LocalStep ==
  ASSUME GatewayInv, NEW r \in Runs, req' \in [Runs -> RequestRecord],
         \A x \in Runs : x # r => req'[x] = req[x],
         called' \in {called, called \cup {r}},
         UNCHANGED <<ledgerVars, log, strays>>, RunInv(r)'
  PROVE  GatewayInv'
<1> USE DEF GatewayInv
<1>1. UNCHANGED <<status, account, reservation, clock, log, strays>>
  BY DEF ledgerVars
<1>2. Ledger!TypeOK'
  BY StatementKeepsTypes DEF Types
<1>3. Types'
  BY <1>1, <1>2 DEF Types
<1>4. \A x \in Runs : x # r => (x \in called' <=> x \in called)
  OBVIOUS
<1> QED BY <1>1, <1>3, <1>4, SameRecord, RunStep

\* A request arrives: it is rejected, denied by the policy, or allowed.
LEMMA ArriveStep ==
  ASSUME GatewayInv, NEW r \in Runs, Arrive(r)
  PROVE  GatewayInv'
<1> USE DEF GatewayInv
<1> DEFINE q == req[r]
<1>1. q \in RequestRecord /\ q.phase = "new" /\ UNCHANGED <<ledgerVars, log, strays, called>>
  BY DEF Types, Arrive, RejectEarly, PolicyDenies, EstimateFails, PolicyAllows, At
<1>2. \/ \E code \in {400, 503}, p \in Principals \cup {Null} :
           Becomes(r, "done", p, q.max, q.outcome, q.actual, code)
      \/ \E p \in Principals :
           Becomes(r, "denying", p, q.max, q.outcome, q.actual, 403)
      \/ \E p \in Principals, m \in 1..MaxMicros :
           Becomes(r, "reserving", p, m, q.outcome, q.actual, q.code)
  <2>1. CASE RejectEarly(r)
    <3>1. q.who \in Principals \cup {Null}
      BY <1>1 DEF RequestRecord
    <3>2. PICK code \in {400, 503} : Respond(r, code)
      BY <2>1 DEF RejectEarly
    <3>3. code \in Codes
      BY Names
    <3>4. Becomes(r, "done", q.who, q.max, q.outcome, q.actual, code)
      BY <3>2, <3>3, RespondBecomes
    <3> QED BY <3>1, <3>4
  <2>2. ASSUME NEW p \in Principals, PolicyDenies(r, p)
        PROVE  Becomes(r, "denying", p, q.max, q.outcome, q.actual, 403)
    BY <2>2, Names, SetWhoCode, ZenonT(60) DEF PolicyDenies
  <2>3. ASSUME NEW p \in Principals, EstimateFails(r, p)
        PROVE  Becomes(r, "done", p, q.max, q.outcome, q.actual, 503)
    <3>1. "done" \in Phases /\ 503 \in Codes
      BY Names
    <3> QED BY <2>3, <3>1, SetWhoCode, ZenonT(60) DEF EstimateFails
  <2>4. ASSUME NEW p \in Principals, NEW m \in 1..MaxMicros, PolicyAllows(r, p, m)
        PROVE  Becomes(r, "reserving", p, m, q.outcome, q.actual, q.code)
    <3>1. m \in 0..MaxMicros
      BY GatewayAssumption DEF Ledger!ConstantsAssumption
    <3> QED BY <2>4, <3>1, Names, SetWhoMax DEF PolicyAllows
  <2> QED BY <2>1, <2>2, <2>3, <2>4 DEF Arrive
<1>3. UNCHANGED <<reservation, log, strays, called>>
  BY <1>1 DEF ledgerVars
<1>4. RunInv(r)
  OBVIOUS
<1>5. Story(r)'
  BY <1>1, <1>2, <1>3, <1>4, SameRecord
  DEF Becomes, RunInv, Story, Unstarted, Started, EventTypes
<1>6. Hold(r)'
  BY <1>1, <1>2, <1>3, <1>4, SameRecord DEF Becomes, RunInv, Hold, Held, Served
<1>7. Charged(r)'
  BY <1>1, <1>2, <1>3, <1>4, SameRecord DEF Becomes, RunInv, Charged
<1>8. Answer(r)'
  BY <1>1, <1>2, <1>3, <1>4, SameRecord DEF Becomes, RunInv, Answer
<1>9. StrayOf(r)'
  BY <1>1, <1>2, <1>3, <1>4 DEF Becomes, RunInv, StrayOf
<1> QED BY <1>1, <1>2, <1>5, <1>6, <1>7, <1>8, <1>9, LocalStep DEF Becomes, RunInv

\* The backend is called, with the start event on record and the hold made.
LEMMA CallStep ==
  ASSUME GatewayInv, NEW r \in Runs, CallBackend(r)
  PROVE  GatewayInv'
<1> USE DEF GatewayInv
<1> DEFINE q == req[r]
<1>1. /\ q.phase = "calling" /\ called' = called \cup {r}
      /\ UNCHANGED <<ledgerVars, log, strays>>
  BY DEF CallBackend, At
<1>2. Becomes(r, "called", q.who, q.max, q.outcome, q.actual, q.code)
  BY Names, GotoBecomes DEF CallBackend
<1>3. UNCHANGED <<reservation, log, strays>>
  BY <1>1 DEF ledgerVars
<1>4. RunInv(r)
  OBVIOUS
<1>5. Story(r)'
  BY <1>1, <1>2, <1>3, <1>4, SameRecord
  DEF Becomes, RunInv, Story, Unstarted, Started, EventTypes
<1>6. Hold(r)'
  BY <1>1, <1>2, <1>3, <1>4, SameRecord DEF Becomes, RunInv, Hold, Held, Served, Started, Story
<1>7. Charged(r)'
  BY <1>1, <1>2, <1>3, <1>4, SameRecord DEF Becomes, RunInv, Charged
<1>8. Answer(r)'
  BY <1>1, <1>2, <1>3, <1>4, SameRecord DEF Becomes, RunInv, Answer
<1>9. StrayOf(r)'
  BY <1>1, <1>2, <1>3, <1>4 DEF Becomes, RunInv, StrayOf
<1> QED BY <1>1, <1>2, <1>5, <1>6, <1>7, <1>8, <1>9, LocalStep DEF Becomes, RunInv

\* The backend's answer prices the run at no more than was held.
LEMMA BackendAnswersBecomes ==
  ASSUME Types, NEW r \in Runs, NEW cost \in 0..(MaxMicros + 1), BackendAnswers(r, cost)
  PROVE  \E a \in 0..MaxMicros :
           /\ a <= req[r].max
           /\ Becomes(r, "settling", req[r].who, req[r].max, "ok", a, req[r].code)
<1> DEFINE a == IF cost > req[r].max THEN req[r].max ELSE cost
<1>1. req \in [Runs -> RequestRecord] /\ "settling" \in Phases /\ "ok" \in Outcomes
  BY Names DEF Types
<1>2. req[r].max \in 0..MaxMicros
  BY <1>1 DEF RequestRecord
<1>3. a \in 0..MaxMicros /\ a <= req[r].max
  BY <1>2, GatewayAssumption DEF Ledger!ConstantsAssumption
<1>4. req' = [req EXCEPT ![r].phase = "settling", ![r].outcome = "ok", ![r].actual = a]
  BY DEF BackendAnswers
<1> HIDE DEF a
<1>5. Becomes(r, "settling", req[r].who, req[r].max, "ok", a, req[r].code)
  BY <1>1, <1>3, <1>4 DEF Becomes, RequestRecord
<1> QED BY <1>3, <1>5

\* A failed run is to be released.
LEMMA RunFailsBecomes ==
  ASSUME Types, NEW r \in Runs, NEW o \in Outcomes, NEW c \in Codes, RunFails(r, o, c)
  PROVE  Becomes(r, "releasing", req[r].who, req[r].max, o, req[r].actual, c)
<1>1. "releasing" \in Phases
  BY Names
<1> QED BY <1>1 DEF RunFails, Types, Becomes, RequestRecord

\* The backend's answer decides whether the hold is settled or released.
LEMMA AnsweredStep ==
  ASSUME GatewayInv, NEW r \in Runs,
         \/ \E cost \in 0..(MaxMicros + 1) : BackendAnswers(r, cost)
         \/ UsageInvalid(r)
         \/ \E code \in {502, 503} : BackendFails(r, code)
  PROVE  GatewayInv'
<1> USE DEF GatewayInv
<1> DEFINE q == req[r]
<1>1. /\ q.phase = "called" /\ UNCHANGED <<ledgerVars, log, strays, called>>
      /\ q \in RequestRecord
  BY DEF BackendAnswers, UsageInvalid, BackendFails, RunFails, At, Types
<1>2. \/ \E a \in 0..MaxMicros : /\ a <= q.max
                                 /\ Becomes(r, "settling", q.who, q.max, "ok", a, q.code)
      \/ \E o \in {"usage_invalid", "failed"}, c \in {502, 503} :
           Becomes(r, "releasing", q.who, q.max, o, q.actual, c)
  <2>1. ASSUME NEW cost \in 0..(MaxMicros + 1), BackendAnswers(r, cost)
        PROVE  \E a \in 0..MaxMicros :
                 a <= q.max /\ Becomes(r, "settling", q.who, q.max, "ok", a, q.code)
    BY <2>1, BackendAnswersBecomes
  <2>2. ASSUME NEW o \in {"usage_invalid", "failed"}, NEW c \in {502, 503},
               RunFails(r, o, c)
        PROVE  Becomes(r, "releasing", q.who, q.max, o, q.actual, c)
    <3>1. o \in Outcomes /\ c \in Codes
      BY Names
    <3> QED BY <2>2, <3>1, RunFailsBecomes
  <2> QED BY <2>1, <2>2 DEF UsageInvalid, BackendFails
<1>3. UNCHANGED <<reservation, log, strays, called>>
  BY <1>1 DEF ledgerVars
<1>4. RunInv(r)
  OBVIOUS
<1>5. Story(r)'
  BY <1>1, <1>2, <1>3, <1>4, SameRecord
  DEF Becomes, RunInv, Story, Unstarted, Started, EventTypes
<1>6. Hold(r)'
  BY <1>1, <1>2, <1>3, <1>4, SameRecord DEF Becomes, RunInv, Hold, Held, Served
<1>7. q.outcome = "none"
  BY <1>1, <1>4 DEF RunInv, Charged
<1>8. Charged(r)'
  BY <1>1, <1>2, <1>3, <1>4, <1>7, SameRecord DEF Becomes, RunInv, Charged
<1>9. Answer(r)'
  BY <1>1, <1>2, <1>3, <1>4, SameRecord DEF Becomes, RunInv, Answer
<1>10. StrayOf(r)'
  BY <1>1, <1>2, <1>3, <1>4, <1>7 DEF Becomes, RunInv, StrayOf
<1> QED BY <1>1, <1>2, <1>5, <1>6, <1>8, <1>9, <1>10, LocalStep DEF Becomes, RunInv

\* A crash leaves the request's records as they are.
LEMMA CrashStep ==
  ASSUME GatewayInv, NEW r \in Runs, Crash(r)
  PROVE  GatewayInv'
<1> USE DEF GatewayInv
<1> DEFINE q == req[r]
<1>1. /\ q.phase \notin {"new", "done", "crashed"}
      /\ UNCHANGED <<ledgerVars, log, strays, called>>
  BY DEF Crash
<1>2. Becomes(r, "crashed", q.who, q.max, q.outcome, q.actual, q.code)
  BY Names, GotoBecomes DEF Crash
<1>3. UNCHANGED <<reservation, log, strays, called>>
  BY <1>1 DEF ledgerVars
<1>4. RunInv(r)
  OBVIOUS
<1>5. Story(r)'
  BY <1>1, <1>2, <1>3, <1>4, SameRecord
  DEF Becomes, RunInv, Story, Unstarted, Started, EventTypes
<1>6. Hold(r)'
  BY <1>1, <1>2, <1>3, <1>4, SameRecord DEF Becomes, RunInv, Hold, Held, Served
<1>7. Charged(r)'
  BY <1>1, <1>2, <1>3, <1>4, SameRecord DEF Becomes, RunInv, Charged
<1>8. Answer(r)'
  BY <1>1, <1>2, <1>3, <1>4, SameRecord DEF Becomes, RunInv, Answer
<1>9. StrayOf(r)'
  BY <1>1, <1>2, <1>3, <1>4 DEF Becomes, RunInv, StrayOf
<1> QED BY <1>1, <1>2, <1>5, <1>6, <1>7, <1>8, <1>9, LocalStep DEF Becomes, RunInv

\* An append that returns its receipt adds one event to the log, and no other
\* append is in doubt.
LEMMA AppendOkEffect ==
  ASSUME Types, NEW e \in EventRecord, AppendOk(e)
  PROVE  /\ log' = Append(log, e) /\ UNCHANGED <<ledgerVars, reservation, strays>>
         /\ Recorded' = Recorded \cup {e}
         /\ \A r, type : /\ Logged(r, type)' <=>
                              Logged(r, type) \/ (e.run = r /\ e.type = type)
                         /\ ~Pending(r, type) /\ ~Pending(r, type)'
<1>1. /\ log' = Append(log, e) /\ UNCHANGED <<ledgerVars, reservation, strays>>
      /\ \A s \in strays : s.op # "append"
  BY DEF AppendOk, ledgerVars, ChainFree
<1>2. Recorded' = Recorded \cup {e}
  BY <1>1, LogAppend DEF Types
<1>3. \A r, type : Logged(r, type)' <=> Logged(r, type) \/ (e.run = r /\ e.type = type)
  BY <1>2 DEF Logged
<1>4. \A r, type : ~Pending(r, type) /\ ~Pending(r, type)'
  BY <1>1 DEF Pending
<1> QED BY <1>1, <1>2, <1>3, <1>4

\* An append that returns an error leaves at most its own COMMIT in doubt.
LEMMA AppendErrorEffect ==
  ASSUME Types, OneAppend, NEW e \in EventRecord, AppendError(e)
  PROVE  /\ UNCHANGED <<ledgerVars, reservation, log>>
         /\ strays' \in {strays, strays \cup {Stray(e.run, "append", e)}}
         /\ strays' \in SUBSET StrayRecord /\ OneAppend'
         /\ Recorded' = Recorded
         /\ \A r, type : /\ Logged(r, type)' <=> Logged(r, type)
                         /\ Pending(r, type)' =>
                              Pending(r, type) \/ (e.run = r /\ e.type = type)
<1> DEFINE s == Stray(e.run, "append", e)
<1>1. /\ UNCHANGED <<ledgerVars, reservation, log>>
      /\ \/ strays' = strays \cup {s} /\ \A t \in strays : t.op # "append"
         \/ strays' = strays
  BY DEF AppendError, ledgerVars, ChainFree
<1>2. s \in StrayRecord /\ s.run = e.run /\ s.op = "append" /\ s.arg = e
  BY DEF Stray, StrayRecord, EventRecord
<1> HIDE DEF s
<1>3. strays' \in SUBSET StrayRecord
  BY <1>1, <1>2 DEF Types
<1>4. OneAppend'
  BY <1>1, <1>2 DEF OneAppend
<1>5. Recorded' = Recorded
  BY <1>1 DEF Recorded
<1>6. \A r, type : Logged(r, type)' <=> Logged(r, type)
  BY <1>5 DEF Logged
<1>7. \A r, type : Pending(r, type)' => Pending(r, type) \/ (e.run = r /\ e.type = type)
  BY <1>1, <1>2 DEF Pending
<1> QED BY <1>1, <1>3, <1>4, <1>5, <1>6, <1>7 DEF s

\* An append of run r keeps the invariant if it keeps r's part.
LEMMA AppendStep ==
  ASSUME GatewayInv, NEW r \in Runs, NEW e \in EventRecord, e.run = r,
         \/ /\ AppendOk(e)
            /\ ~Logged(r, e.type)
            /\ e.type \in {"run_completed", "run_failed"} => Logged(r, "run_started")
         \/ AppendError(e),
         req' \in [Runs -> RequestRecord],
         \A x \in Runs : x # r => req'[x] = req[x],
         UNCHANGED called, RunInv(r)'
  PROVE  GatewayInv'
<1> USE DEF GatewayInv
<1>1. CASE AppendOk(e)
  <2>1. /\ ~Logged(r, e.type)
        /\ e.type \in {"run_completed", "run_failed"} => Logged(r, "run_started")
    <3>1. AppendError(e) => log' = log
      BY DEF AppendError
    <3>2. log' = Append(log, e) /\ log \in Seq(EventRecord)
      BY <1>1 DEF AppendOk, Types
    <3>3. log' # log
      BY <3>2
    <3> QED BY <3>1, <3>3
  <2>2. /\ log' = Append(log, e) /\ UNCHANGED <<ledgerVars, reservation, strays>>
        /\ Recorded' = Recorded \cup {e}
    BY <1>1, AppendOkEffect
  <2>3. log' \in Seq(EventRecord) /\ LogInOrder'
    BY <2>1, <2>2, LogAppend DEF Types
  <2>4. Types'
    BY <2>2, <2>3, StatementKeepsTypes DEF Types
  <2>5. OneAppend'
    BY <2>2 DEF OneAppend
  <2>6. \A f : f.run # r => (f \in Recorded' <=> f \in Recorded)
    BY <2>2
  <2> QED BY <2>2, <2>3, <2>4, <2>5, <2>6, RunStep
<1>2. CASE AppendError(e)
  <2>1. /\ UNCHANGED <<ledgerVars, reservation, log>>
        /\ strays' \in {strays, strays \cup {Stray(e.run, "append", e)}}
        /\ strays' \in SUBSET StrayRecord /\ OneAppend'
        /\ Recorded' = Recorded
    BY <1>2, AppendErrorEffect
  <2>2. Types'
    BY <2>1, StatementKeepsTypes DEF Types
  <2>3. LogInOrder'
    BY <2>1 DEF LogInOrder
  <2>4. \A s : s.run # r => (s \in strays' <=> s \in strays)
    BY <2>1 DEF Stray
  <2> QED BY <2>1, <2>2, <2>3, <2>4, RunStep
<1> QED BY <1>1, <1>2

\* The events that the handler appends.
LEMMA EventType ==
  ASSUME NEW r \in Runs, NEW type \in EventTypes, NEW a \in 0..MaxMicros
  PROVE  /\ Event(r, type, a) \in EventRecord
         /\ Event(r, type, a).run = r
         /\ Event(r, type, a).type = type
         /\ Event(r, type, a).actual = a
BY DEF Event, EventRecord

\* appendDenied: the event is on record before the refusal is sent.
LEMMA DenyStep ==
  ASSUME GatewayInv, NEW r \in Runs, Deny(r)
  PROVE  GatewayInv'
<1> USE DEF GatewayInv
<1> DEFINE q == req[r]
           e == Event(r, "run_denied", 0)
<1>1. e \in EventRecord /\ e.run = r /\ e.type = "run_denied"
  BY EventType, GatewayAssumption DEF EventTypes, Ledger!ConstantsAssumption
<1>2. /\ q.phase = "denying" /\ UNCHANGED called
      /\ \/ AppendOk(e) /\ Respond(r, q.code)
         \/ AppendError(e) /\ Respond(r, 503)
  BY DEF Deny, At
<1> HIDE DEF e
<1>3. RunInv(r) /\ q.code \in {402, 403}
  BY <1>2 DEF RunInv, Answer
<1>4. \A type \in EventTypes : ~Logged(r, type) /\ ~Pending(r, type)
  BY <1>2, <1>3 DEF RunInv, Story, Unstarted, Noted
<1>5. "run_denied" \in EventTypes
  BY DEF EventTypes
<1>6. CASE AppendOk(e) /\ Respond(r, q.code)
  <2>1. Becomes(r, "done", q.who, q.max, q.outcome, q.actual, q.code)
    BY <1>3, <1>6, Names, RespondBecomes
  <2>2. /\ UNCHANGED <<reservation, strays>> /\ Recorded' = Recorded \cup {e}
        /\ \A type : /\ Logged(r, type)' <=> Logged(r, type) \/ type = "run_denied"
                     /\ ~Pending(r, type)'
    BY <1>1, <1>6, AppendOkEffect
  <2>3. Story(r)'
    BY <1>2, <1>4, <2>1, <2>2
    DEF Becomes, Story, Unstarted, Started, EventTypes, Noted
  <2>4. Hold(r)'
    BY <1>2, <1>3, <2>1, <2>2 DEF Becomes, RunInv, Hold, Held, Served
  <2>5. Charged(r)'
    BY <1>1, <1>2, <1>3, <2>1, <2>2 DEF Becomes, RunInv, Charged
  <2>6. Answer(r)'
    BY <1>2, <1>3, <2>1, <2>2 DEF Becomes, RunInv, Answer, Hold
  <2>7. StrayOf(r)'
    BY <1>2, <1>3, <2>1, <2>2 DEF Becomes, RunInv, StrayOf
  <2>8. ~Logged(r, e.type)
    BY <1>1, <1>4, <1>5
  <2> QED BY <1>1, <1>2, <1>6, <2>1, <2>3, <2>4, <2>5, <2>6, <2>7, <2>8, AppendStep
      DEF Becomes, RunInv
<1>7. CASE AppendError(e) /\ Respond(r, 503)
  <2>1. Becomes(r, "done", q.who, q.max, q.outcome, q.actual, 503)
    BY <1>7, Names, RespondBecomes
  <2>2. /\ UNCHANGED reservation /\ Recorded' = Recorded
        /\ strays' \in {strays, strays \cup {Stray(r, "append", e)}}
        /\ \A type : /\ Logged(r, type)' <=> Logged(r, type)
                     /\ Pending(r, type)' => Pending(r, type) \/ type = "run_denied"
    BY <1>1, <1>7, AppendErrorEffect
  <2>3. Story(r)'
    BY <1>2, <1>4, <2>1, <2>2
    DEF Becomes, Story, Unstarted, Started, EventTypes, Noted
  <2>4. Hold(r)'
    BY <1>2, <1>3, <2>1, <2>2 DEF Becomes, RunInv, Hold, Held, Served
  <2>5. Charged(r)'
    BY <1>2, <1>3, <2>1, <2>2 DEF Becomes, RunInv, Charged
  <2>6. Answer(r)'
    BY <1>2, <1>3, <2>1, <2>2 DEF Becomes, RunInv, Answer
  <2>7. StrayOf(r)'
    BY <1>1, <1>2, <1>3, <2>1, <2>2 DEF Becomes, RunInv, StrayOf, Stray
  <2> QED BY <1>1, <1>2, <1>7, <2>1, <2>3, <2>4, <2>5, <2>6, <2>7, AppendStep
      DEF Becomes, RunInv
<1> QED BY <1>2, <1>6, <1>7

\* The start event: its receipt leads to the backend, its absence to a release.
LEMMA StartStep ==
  ASSUME GatewayInv, NEW r \in Runs, Start(r)
  PROVE  GatewayInv'
<1> USE DEF GatewayInv
<1> DEFINE q == req[r]
           e == Event(r, "run_started", 0)
<1>1. e \in EventRecord /\ e.run = r /\ e.type = "run_started"
  BY EventType, GatewayAssumption DEF EventTypes, Ledger!ConstantsAssumption
<1>2. /\ q.phase = "starting" /\ UNCHANGED called
      /\ \/ AppendOk(e) /\ Goto(r, "calling")
         \/ AppendError(e) /\ Goto(r, "abandoning")
  BY DEF Start, At
<1> HIDE DEF e
<1>3. RunInv(r)
  OBVIOUS
<1>4. \A type \in EventTypes : ~Logged(r, type) /\ ~Pending(r, type)
  BY <1>2, <1>3 DEF RunInv, Story, Unstarted, Noted
<1>5. "run_started" \in EventTypes /\ "run_completed" \in EventTypes
  BY DEF EventTypes
<1>6. CASE AppendOk(e) /\ Goto(r, "calling")
  <2>1. Becomes(r, "calling", q.who, q.max, q.outcome, q.actual, q.code)
    BY <1>6, Names, GotoBecomes
  <2>2. /\ UNCHANGED <<reservation, strays>> /\ Recorded' = Recorded \cup {e}
        /\ \A type : /\ Logged(r, type)' <=> Logged(r, type) \/ type = "run_started"
                     /\ ~Pending(r, type)'
    BY <1>1, <1>6, AppendOkEffect
  <2>3. Story(r)'
    BY <1>2, <1>4, <2>1, <2>2
    DEF Becomes, Story, Unstarted, Started, EventTypes, Noted
  <2>4. Hold(r)'
    BY <1>2, <1>3, <2>1, <2>2 DEF Becomes, RunInv, Hold, Held, Served
  <2>5. Charged(r)'
    BY <1>1, <1>2, <1>3, <2>1, <2>2 DEF Becomes, RunInv, Charged
  <2>6. Answer(r)'
    BY <1>2, <1>3, <2>1, <2>2 DEF Becomes, RunInv, Answer, Hold
  <2>7. StrayOf(r)'
    BY <1>2, <1>3, <2>1, <2>2 DEF Becomes, RunInv, StrayOf
  <2>8. ~Logged(r, e.type)
    BY <1>1, <1>4, <1>5
  <2> QED BY <1>1, <1>2, <1>6, <2>1, <2>3, <2>4, <2>5, <2>6, <2>7, <2>8, AppendStep
      DEF Becomes, RunInv
<1>7. CASE AppendError(e) /\ Goto(r, "abandoning")
  <2>1. Becomes(r, "abandoning", q.who, q.max, q.outcome, q.actual, q.code)
    BY <1>7, Names, GotoBecomes
  <2>2. /\ UNCHANGED reservation /\ Recorded' = Recorded
        /\ strays' \in {strays, strays \cup {Stray(r, "append", e)}}
        /\ \A type : /\ Logged(r, type)' <=> Logged(r, type)
                     /\ Pending(r, type)' => Pending(r, type) \/ type = "run_started"
    BY <1>1, <1>7, AppendErrorEffect
  <2>3. Story(r)'
    BY <1>2, <1>4, <2>1, <2>2
    DEF Becomes, Story, Unstarted, Started, EventTypes, Noted
  <2>4. Hold(r)'
    BY <1>2, <1>3, <2>1, <2>2 DEF Becomes, RunInv, Hold, Held, Served
  <2>5. Charged(r)'
    BY <1>2, <1>3, <2>1, <2>2 DEF Becomes, RunInv, Charged
  <2>6. Answer(r)'
    BY <1>2, <1>3, <2>1, <2>2 DEF Becomes, RunInv, Answer
  <2>7. StrayOf(r)'
    BY <1>1, <1>2, <1>3, <2>1, <2>2 DEF Becomes, RunInv, StrayOf, Stray
  <2> QED BY <1>1, <1>2, <1>7, <2>1, <2>3, <2>4, <2>5, <2>6, <2>7, AppendStep
      DEF Becomes, RunInv
<1> QED BY <1>2, <1>6, <1>7

\* The completion event is about a settled run and states its charge; without it
\* the run has failed.
LEMMA CompleteStep ==
  ASSUME GatewayInv, NEW r \in Runs, Complete(r)
  PROVE  GatewayInv'
<1> USE DEF GatewayInv
<1> DEFINE q == req[r]
           e == Event(r, "run_completed", q.actual)
<1>1. q.actual \in 0..MaxMicros
  BY DEF Types, RequestRecord
<1>2. /\ e \in EventRecord /\ e.run = r /\ e.type = "run_completed"
      /\ e.actual = q.actual
  BY <1>1, EventType DEF EventTypes
<1>3. /\ q.phase = "completing" /\ UNCHANGED called
      /\ \/ AppendOk(e) /\ Respond(r, 200)
         \/ /\ AppendError(e)
            /\ req' = [req EXCEPT ![r].phase = "failing", ![r].code = 503]
  BY DEF Complete, At
<1> HIDE DEF e
<1>4. RunInv(r)
  OBVIOUS
<1>5. /\ \A type \in EventTypes \ {"run_started"} : ~Logged(r, type) /\ ~Pending(r, type)
      /\ Logged(r, "run_started") /\ ~Pending(r, "run_started")
  BY <1>3, <1>4 DEF RunInv, Story, Started, Noted, EventTypes
<1>6. "run_completed" \in EventTypes \ {"run_started"}
  BY DEF EventTypes
<1>7. CASE AppendOk(e) /\ Respond(r, 200)
  <2>1. Becomes(r, "done", q.who, q.max, q.outcome, q.actual, 200)
    BY <1>7, Names, RespondBecomes
  <2>2. /\ UNCHANGED <<reservation, strays>> /\ Recorded' = Recorded \cup {e}
        /\ \A type : /\ Logged(r, type)' <=> Logged(r, type) \/ type = "run_completed"
                     /\ ~Pending(r, type)'
    BY <1>2, <1>7, AppendOkEffect
  <2>3. Story(r)'
    BY <1>3, <1>5, <2>1, <2>2
    DEF Becomes, Story, Unstarted, Started, EventTypes, Noted
  <2>4. Hold(r)'
    BY <1>3, <1>4, <2>1, <2>2 DEF Becomes, RunInv, Hold, Held, Served
  <2>5. Charged(r)'
    BY <1>2, <1>3, <1>4, <2>1, <2>2 DEF Becomes, RunInv, Charged
  <2>6. Answer(r)'
    BY <1>3, <1>4, <2>1, <2>2 DEF Becomes, RunInv, Answer
  <2>7. StrayOf(r)'
    BY <1>3, <1>4, <2>1, <2>2 DEF Becomes, RunInv, StrayOf
  <2>8. ~Logged(r, e.type)
    BY <1>2, <1>5, <1>6
  <2> QED BY <1>2, <1>3, <1>5, <1>7, <2>1, <2>3, <2>4, <2>5, <2>6, <2>7, <2>8, AppendStep
      DEF Becomes, RunInv
<1>8. CASE AppendError(e) /\ req' = [req EXCEPT ![r].phase = "failing", ![r].code = 503]
  <2>1. Becomes(r, "failing", q.who, q.max, q.outcome, q.actual, 503)
    BY <1>8, Names, SetCode, ZenonT(60)
  <2>2. /\ UNCHANGED reservation /\ Recorded' = Recorded
        /\ strays' \in {strays, strays \cup {Stray(r, "append", e)}}
        /\ \A type : /\ Logged(r, type)' <=> Logged(r, type)
                     /\ Pending(r, type)' => Pending(r, type) \/ type = "run_completed"
    BY <1>2, <1>8, AppendErrorEffect
  <2>3. Story(r)'
    BY <1>3, <1>5, <2>1, <2>2
    DEF Becomes, Story, Unstarted, Started, EventTypes, Noted
  <2>4. Hold(r)'
    BY <1>3, <1>4, <2>1, <2>2 DEF Becomes, RunInv, Hold, Held, Served
  <2>5. Charged(r)'
    BY <1>3, <1>4, <2>1, <2>2 DEF Becomes, RunInv, Charged
  <2>6. Answer(r)'
    BY <1>3, <1>4, <2>1, <2>2 DEF Becomes, RunInv, Answer
  <2>7. StrayOf(r)'
    <3>1. reservation[r].state = "settled" /\ reservation[r].actual = q.actual
      BY <1>3, <1>4 DEF RunInv, Charged
    <3> QED BY <1>2, <1>3, <1>4, <2>1, <2>2, <3>1 DEF Becomes, RunInv, StrayOf, Stray
  <2> QED BY <1>2, <1>3, <1>8, <2>1, <2>3, <2>4, <2>5, <2>6, <2>7, AppendStep
      DEF Becomes, RunInv
<1> QED BY <1>3, <1>7, <1>8

\* appendFailed: whether or not the event is stored, the failure is answered.
LEMMA FailStep ==
  ASSUME GatewayInv, NEW r \in Runs, Fail(r)
  PROVE  GatewayInv'
<1> USE DEF GatewayInv
<1> DEFINE q == req[r]
           e == Event(r, "run_failed", q.actual)
<1>1. q.actual \in 0..MaxMicros
  BY DEF Types, RequestRecord
<1>2. e \in EventRecord /\ e.run = r /\ e.type = "run_failed"
  BY <1>1, EventType DEF EventTypes
<1>3. /\ q.phase = "failing" /\ UNCHANGED called /\ Respond(r, q.code)
      /\ AppendOk(e) \/ AppendError(e)
  BY DEF Fail, At
<1> HIDE DEF e
<1>4. RunInv(r) /\ q.code \in {502, 503}
  BY <1>3 DEF RunInv, Answer
<1>5. /\ \A type \in {"run_denied", "run_failed"} : ~Logged(r, type) /\ ~Pending(r, type)
      /\ Logged(r, "run_started") /\ ~Pending(r, "run_started")
      /\ Pending(r, "run_completed") => ~Logged(r, "run_completed")
  BY <1>3, <1>4 DEF RunInv, Story, Started, Noted, EventTypes
<1>6. Becomes(r, "done", q.who, q.max, q.outcome, q.actual, q.code)
  BY <1>3, <1>4, Names, RespondBecomes
<1>7. CASE AppendOk(e)
  <2>1. /\ UNCHANGED <<reservation, strays>> /\ Recorded' = Recorded \cup {e}
        /\ \A type : /\ Logged(r, type)' <=> Logged(r, type) \/ type = "run_failed"
                     /\ ~Pending(r, type)'
    BY <1>2, <1>7, AppendOkEffect
  <2>2. Story(r)'
    BY <1>3, <1>5, <1>6, <2>1
    DEF Becomes, Story, Unstarted, Started, EventTypes, Noted
  <2>3. Hold(r)'
    BY <1>3, <1>4, <1>6, <2>1 DEF Becomes, RunInv, Hold, Held, Served
  <2>4. Charged(r)'
    BY <1>2, <1>3, <1>4, <1>6, <2>1 DEF Becomes, RunInv, Charged
  <2>5. Answer(r)'
    BY <1>3, <1>4, <1>6, <2>1 DEF Becomes, RunInv, Answer
  <2>6. StrayOf(r)'
    BY <1>3, <1>4, <1>6, <2>1 DEF Becomes, RunInv, StrayOf
  <2>7. ~Logged(r, e.type)
    BY <1>2, <1>5
  <2> QED BY <1>2, <1>3, <1>5, <1>6, <1>7, <2>2, <2>3, <2>4, <2>5, <2>6, <2>7, AppendStep
      DEF Becomes, RunInv
<1>8. CASE AppendError(e)
  <2>1. /\ UNCHANGED reservation /\ Recorded' = Recorded
        /\ strays' \in {strays, strays \cup {Stray(r, "append", e)}}
        /\ \A type : /\ Logged(r, type)' <=> Logged(r, type)
                     /\ Pending(r, type)' => Pending(r, type) \/ type = "run_failed"
    BY <1>2, <1>8, AppendErrorEffect
  <2>2. Story(r)'
    BY <1>3, <1>5, <1>6, <2>1
    DEF Becomes, Story, Unstarted, Started, EventTypes, Noted
  <2>3. Hold(r)'
    BY <1>3, <1>4, <1>6, <2>1 DEF Becomes, RunInv, Hold, Held, Served
  <2>4. Charged(r)'
    BY <1>3, <1>4, <1>6, <2>1 DEF Becomes, RunInv, Charged
  <2>5. Answer(r)'
    BY <1>3, <1>4, <1>6, <2>1 DEF Becomes, RunInv, Answer
  <2>6. StrayOf(r)'
    BY <1>2, <1>3, <1>4, <1>6, <2>1 DEF Becomes, RunInv, StrayOf, Stray
  <2> QED BY <1>2, <1>3, <1>6, <1>8, <2>2, <2>3, <2>4, <2>5, <2>6, AppendStep
      DEF Becomes, RunInv
<1> QED BY <1>3, <1>7, <1>8

\* A call of run r to the ledger keeps the invariant if it keeps r's part.
LEMMA LedgerStep ==
  ASSUME GatewayInv, NEW r \in Runs, Ledger!TypeOK',
         \A x \in Runs : x # r => reservation'[x] = reservation[x],
         UNCHANGED <<log, called>>,
         strays' \in SUBSET StrayRecord, OneAppend',
         \A s : s.run # r => (s \in strays' <=> s \in strays),
         req' \in [Runs -> RequestRecord],
         \A x \in Runs : x # r => req'[x] = req[x],
         RunInv(r)'
  PROVE  GatewayInv'
<1> USE DEF GatewayInv
<1>1. Types'
  BY DEF Types
<1>2. Recorded' = Recorded /\ LogInOrder'
  BY DEF Recorded, LogInOrder
<1> QED BY <1>1, <1>2, RunStep

\* A settlement or reservation in doubt does not touch the log or the appends.
LEMMA LedgerStrayEffect ==
  ASSUME Types, OneAppend, NEW s \in StrayRecord, s.op # "append",
         strays' = strays \cup {s}, UNCHANGED log
  PROVE  /\ strays' \in SUBSET StrayRecord /\ OneAppend'
         /\ Recorded' = Recorded
         /\ \A r, type : /\ Logged(r, type)' <=> Logged(r, type)
                         /\ Pending(r, type)' <=> Pending(r, type)
                         /\ Noted(r, type)' <=> Noted(r, type)
<1>1. strays' \in SUBSET StrayRecord /\ OneAppend'
  BY DEF Types, OneAppend
<1>2. Recorded' = Recorded
  BY DEF Recorded
<1>3. \A r, type : Logged(r, type)' <=> Logged(r, type)
  BY <1>2 DEF Logged
<1>4. \A r, type : Pending(r, type)' <=> Pending(r, type)
  BY DEF Pending
<1> QED BY <1>1, <1>2, <1>3, <1>4 DEF Noted

\* What a settlement that succeeds does.
LEMMA SettleOkEffect ==
  ASSUME Types, OneAppend, NEW r \in Runs, NEW a \in 0..MaxMicros, SettleOk(r, a)
  PROVE  /\ Ledger!TypeOK' /\ UNCHANGED <<log, strays>>
         /\ strays' \in SUBSET StrayRecord /\ OneAppend'
         /\ reservation[r].state = "reserved"
         /\ reservation'[r].state = "settled"
         /\ reservation'[r].max = reservation[r].max
         /\ reservation'[r].actual = IF a > reservation[r].max THEN reservation[r].max
                                     ELSE a
         /\ \A x \in Runs : x # r => reservation'[x] = reservation[x]
<1>1. PICK now \in Ledger!StatementTimes : Ledger!settle_budget(r, a, now)
  BY DEF SettleOk
<1>2. UNCHANGED <<log, strays>>
  BY DEF SettleOk
<1>3. Ledger!TypeOK'
  BY <1>1, StatementKeepsTypes DEF Types
<1>4. strays' \in SUBSET StrayRecord /\ OneAppend'
  BY <1>2, SameRecord DEF Types
<1> QED BY <1>1, <1>2, <1>3, <1>4, SettleEffect DEF Types

\* What a settlement that returns an error does.
LEMMA SettleErrorEffect ==
  ASSUME Types, OneAppend, NEW r \in Runs, NEW a \in 0..MaxMicros, SettleError(r, a)
  PROVE  /\ Ledger!TypeOK' /\ UNCHANGED <<reservation, log>>
         /\ strays' \in SUBSET StrayRecord /\ OneAppend'
         /\ \E s : /\ strays' = strays \cup {s}
                   /\ s.run = r /\ s.op = "settle" /\ s.arg = a
         /\ Recorded' = Recorded
         /\ \A x, type : /\ Logged(x, type)' <=> Logged(x, type)
                         /\ Pending(x, type)' <=> Pending(x, type)
                         /\ Noted(x, type)' <=> Noted(x, type)
<1> DEFINE s == Stray(r, "settle", a)
<1>1. strays' = strays \cup {s} /\ UNCHANGED <<ledgerVars, reservation, log>>
  BY DEF SettleError, ledgerVars
<1>2. s \in StrayRecord /\ s.run = r /\ s.op = "settle" /\ s.arg = a
  BY DEF Stray, StrayRecord
<1> HIDE DEF s
<1>3. Ledger!TypeOK'
  BY <1>1, StatementKeepsTypes DEF Types
<1>4. s.op # "append"
  BY <1>2
<1> QED BY <1>1, <1>2, <1>3, <1>4, LedgerStrayEffect

\* What a reservation that returns another error than a denial does.
LEMMA ReserveErrorEffect ==
  ASSUME Types, OneAppend, NEW r \in Runs, NEW m \in 1..MaxMicros, ReserveError(r, m)
  PROVE  /\ Ledger!TypeOK' /\ UNCHANGED <<reservation, log>>
         /\ strays' \in SUBSET StrayRecord /\ OneAppend'
         /\ \E s : /\ strays' = strays \cup {s}
                   /\ s.run = r /\ s.op = "reserve" /\ s.arg = m
         /\ Recorded' = Recorded
         /\ \A x, type : /\ Logged(x, type)' <=> Logged(x, type)
                         /\ Pending(x, type)' <=> Pending(x, type)
                         /\ Noted(x, type)' <=> Noted(x, type)
<1> DEFINE s == Stray(r, "reserve", m)
<1>1. strays' = strays \cup {s} /\ UNCHANGED <<ledgerVars, reservation, log>>
  BY DEF ReserveError, ledgerVars
<1>2. s \in StrayRecord /\ s.run = r /\ s.op = "reserve" /\ s.arg = m
  BY DEF Stray, StrayRecord
<1> HIDE DEF s
<1>3. Ledger!TypeOK'
  BY <1>1, StatementKeepsTypes DEF Types
<1>4. s.op # "append"
  BY <1>2
<1> QED BY <1>1, <1>2, <1>3, <1>4, LedgerStrayEffect

\* An abandoned start and a failed run give their hold back: a settlement to
\* zero, whether it succeeds, fails or is in doubt.
LEMMA GiveBackStep ==
  ASSUME GatewayInv, NEW r \in Runs, Abandon(r) \/ Release(r)
  PROVE  GatewayInv'
<1> USE DEF GatewayInv
<1> DEFINE q == req[r]
<1>1. /\ UNCHANGED called /\ RunInv(r)
      /\ SettleOk(r, 0) \/ SettleError(r, 0)
      /\ \/ q.phase = "abandoning" /\ Respond(r, 503)
         \/ q.phase = "releasing" /\ Goto(r, "failing")
  BY DEF Abandon, Release, At
<1>2. \/ /\ q.phase = "abandoning"
         /\ Becomes(r, "done", q.who, q.max, q.outcome, q.actual, 503)
      \/ /\ q.phase = "releasing"
         /\ Becomes(r, "failing", q.who, q.max, q.outcome, q.actual, q.code)
  BY <1>1, Names, RespondBecomes, GotoBecomes
<1>3. 0 \in 0..MaxMicros /\ reservation[r].max \in 0..MaxMicros
  BY GatewayAssumption DEF Ledger!ConstantsAssumption, Types, Ledger!TypeOK,
     Ledger!ReservationRow
<1>4. CASE SettleOk(r, 0)
  <2>1. /\ Ledger!TypeOK' /\ UNCHANGED <<log, strays>>
        /\ strays' \in SUBSET StrayRecord /\ OneAppend'
        /\ reservation[r].state = "reserved" /\ reservation'[r].state = "settled"
        /\ reservation'[r].max = reservation[r].max
        /\ reservation'[r].actual = IF 0 > reservation[r].max THEN reservation[r].max
                                    ELSE 0
        /\ \A x \in Runs : x # r => reservation'[x] = reservation[x]
    BY <1>3, <1>4, SettleOkEffect
  <2>2. reservation'[r].actual = 0
    BY <1>3, <2>1
  <2>3. Story(r)'
    BY <1>1, <1>2, <2>1, SameRecord
    DEF Becomes, RunInv, Story, Unstarted, Started, EventTypes
  <2>4. Hold(r)'
    BY <1>1, <1>2, <2>1, SameRecord DEF Becomes, RunInv, Hold, Held, Served
  <2>5. Charged(r)'
    BY <1>1, <1>2, <2>1, <2>2, SameRecord DEF Becomes, RunInv, Charged
  <2>6. Answer(r)'
    BY <1>1, <1>2, <2>1, SameRecord DEF Becomes, RunInv, Answer
  <2>7. StrayOf(r)'
    BY <1>1, <1>2, <2>1 DEF Becomes, RunInv, StrayOf
  <2> QED BY <1>1, <1>2, <2>1, <2>3, <2>4, <2>5, <2>6, <2>7, LedgerStep
      DEF Becomes, RunInv
<1>5. CASE SettleError(r, 0)
  <2>1. /\ Ledger!TypeOK' /\ UNCHANGED <<reservation, log>>
        /\ strays' \in SUBSET StrayRecord /\ OneAppend'
        /\ Recorded' = Recorded
        /\ \A x, type : /\ Logged(x, type)' <=> Logged(x, type)
                        /\ Pending(x, type)' <=> Pending(x, type)
                        /\ Noted(x, type)' <=> Noted(x, type)
    BY <1>3, <1>5, SettleErrorEffect
  <2>2. PICK s : /\ strays' = strays \cup {s}
                 /\ s.run = r /\ s.op = "settle" /\ s.arg = 0
    BY <1>3, <1>5, SettleErrorEffect
  <2>3. Story(r)'
    BY <1>1, <1>2, <2>1
    DEF Becomes, RunInv, Story, Unstarted, Started, EventTypes
  <2>4. Hold(r)'
    BY <1>1, <1>2, <2>1 DEF Becomes, RunInv, Hold, Held, Served
  <2>5. Charged(r)'
    BY <1>1, <1>2, <2>1 DEF Becomes, RunInv, Charged
  <2>6. Answer(r)'
    BY <1>1, <1>2, <2>1 DEF Becomes, RunInv, Answer
  <2>7. StrayOf(r)'
    BY <1>1, <1>2, <2>1, <2>2 DEF Becomes, RunInv, StrayOf
  <2> QED BY <1>1, <1>2, <2>1, <2>2, <2>3, <2>4, <2>5, <2>6, <2>7, LedgerStep
      DEF Becomes, RunInv
<1> QED BY <1>1, <1>4, <1>5

\* The settlement of an answered run: it charges the cost, or the run fails with
\* the settlement in doubt.
LEMMA SettleStep ==
  ASSUME GatewayInv, NEW r \in Runs, Settle(r)
  PROVE  GatewayInv'
<1> USE DEF GatewayInv
<1> DEFINE q == req[r]
<1>1. /\ UNCHANGED called /\ RunInv(r) /\ q.phase = "settling"
      /\ \/ SettleOk(r, q.actual) /\ Goto(r, "completing")
         \/ /\ SettleError(r, q.actual)
            /\ req' = [req EXCEPT ![r].phase = "failing", ![r].actual = 0, ![r].code = 503]
  BY DEF Settle, At
<1>2. q.actual \in 0..MaxMicros /\ q.max \in 0..MaxMicros /\ 0 \in 0..MaxMicros
  BY GatewayAssumption DEF Types, RequestRecord, Ledger!ConstantsAssumption
<1>3. /\ q.outcome = "ok" /\ q.actual <= q.max /\ r \in called
      /\ reservation[r].max = q.max
  BY <1>1 DEF RunInv, Charged, Hold, Served, Held
<1>4. CASE SettleOk(r, q.actual) /\ Goto(r, "completing")
  <2>1. /\ Ledger!TypeOK' /\ UNCHANGED <<log, strays>>
        /\ strays' \in SUBSET StrayRecord /\ OneAppend'
        /\ reservation[r].state = "reserved" /\ reservation'[r].state = "settled"
        /\ reservation'[r].max = reservation[r].max
        /\ reservation'[r].actual = IF q.actual > reservation[r].max
                                    THEN reservation[r].max ELSE q.actual
        /\ \A x \in Runs : x # r => reservation'[x] = reservation[x]
    BY <1>2, <1>4, SettleOkEffect
  <2>2. reservation'[r].actual = q.actual
    BY <1>2, <1>3, <2>1
  <2>3. Becomes(r, "completing", q.who, q.max, q.outcome, q.actual, q.code)
    BY <1>4, Names, GotoBecomes
  <2>4. Story(r)'
    BY <1>1, <2>1, <2>3, SameRecord
    DEF Becomes, RunInv, Story, Unstarted, Started, EventTypes
  <2>5. Hold(r)'
    BY <1>1, <1>3, <2>1, <2>3, SameRecord DEF Becomes, RunInv, Hold, Held, Served
  <2>6. Charged(r)'
    BY <1>1, <1>3, <2>1, <2>2, <2>3, SameRecord DEF Becomes, RunInv, Charged
  <2>7. Answer(r)'
    BY <1>1, <2>1, <2>3, SameRecord DEF Becomes, RunInv, Answer
  <2>8. StrayOf(r)'
    BY <1>1, <2>1, <2>3 DEF Becomes, RunInv, StrayOf
  <2> QED BY <1>1, <2>1, <2>3, <2>4, <2>5, <2>6, <2>7, <2>8, LedgerStep
      DEF Becomes, RunInv
<1>5. CASE /\ SettleError(r, q.actual)
           /\ req' = [req EXCEPT ![r].phase = "failing", ![r].actual = 0, ![r].code = 503]
  <2>1. /\ Ledger!TypeOK' /\ UNCHANGED <<reservation, log>>
        /\ strays' \in SUBSET StrayRecord /\ OneAppend'
        /\ Recorded' = Recorded
        /\ \A x, type : /\ Logged(x, type)' <=> Logged(x, type)
                        /\ Pending(x, type)' <=> Pending(x, type)
                        /\ Noted(x, type)' <=> Noted(x, type)
    BY <1>2, <1>5, SettleErrorEffect
  <2>2. PICK s : /\ strays' = strays \cup {s}
                 /\ s.run = r /\ s.op = "settle" /\ s.arg = q.actual
    BY <1>2, <1>5, SettleErrorEffect
  <2>3. Becomes(r, "failing", q.who, q.max, q.outcome, 0, 503)
    BY <1>2, <1>5, Names, SetActualCode, ZenonT(60)
  <2>4. Story(r)'
    BY <1>1, <2>1, <2>3
    DEF Becomes, RunInv, Story, Unstarted, Started, EventTypes
  <2>5. Hold(r)'
    BY <1>1, <1>3, <2>1, <2>3 DEF Becomes, RunInv, Hold, Held, Served
  <2>6. Charged(r)'
    BY <1>1, <1>3, <2>1, <2>3 DEF Becomes, RunInv, Charged
  <2>7. Answer(r)'
    BY <1>1, <2>1, <2>3 DEF Becomes, RunInv, Answer
  <2>8. StrayOf(r)'
    BY <1>1, <1>3, <2>1, <2>2, <2>3 DEF Becomes, RunInv, StrayOf
  <2> QED BY <1>1, <2>1, <2>2, <2>3, <2>4, <2>5, <2>6, <2>7, <2>8, LedgerStep
      DEF Becomes, RunInv
<1> QED BY <1>1, <1>4, <1>5

\* The reservation: made, denied, or in doubt.
LEMMA ReserveStep ==
  ASSUME GatewayInv, NEW r \in Runs, Reserve(r)
  PROVE  GatewayInv'
<1> USE DEF GatewayInv
<1> DEFINE q == req[r]
<1>1. /\ UNCHANGED called /\ RunInv(r) /\ q.phase = "reserving"
      /\ \/ ReserveOk(q.who, r, q.max) /\ Goto(r, "starting")
         \/ /\ ReserveDenied(q.who, q.max)
            /\ req' = [req EXCEPT ![r].phase = "denying", ![r].code = 402]
         \/ ReserveError(r, q.max) /\ Respond(r, 503)
  BY DEF Reserve, At
<1>2. /\ q.who \in Principals /\ q.max \in 1..MaxMicros /\ r \notin called
      /\ reservation[r].state = "none" /\ q.outcome = "none"
      /\ reservation[r].actual \in Nat
  <2>1. /\ q.who \in Principals /\ q.max \in 1..MaxMicros /\ r \notin called
        /\ reservation[r].state = "none"
    BY <1>1 DEF RunInv, Hold
  <2>2. q.outcome = "none"
    BY <1>1 DEF RunInv, Charged
  <2>3. reservation[r].actual \in Nat
    BY DEF Types, Ledger!TypeOK, Ledger!ReservationRow
  <2> QED BY <2>1, <2>2, <2>3
<1>3. CASE ReserveOk(q.who, r, q.max) /\ Goto(r, "starting")
  <2>1. PICK now \in Ledger!StatementTimes : Ledger!reserve_budget(q.who, r, q.max, now)
    BY <1>3 DEF ReserveOk
  <2>2. UNCHANGED <<log, strays>>
    BY <1>3 DEF ReserveOk
  <2>3. Ledger!TypeOK'
    BY <1>2, <2>1, StatementKeepsTypes DEF Types
  <2>4. /\ reservation'[r].state = "reserved"
        /\ reservation'[r].max = q.max /\ reservation'[r].actual = 0
        /\ \A x \in Runs : x # r => reservation'[x] = reservation[x]
    BY <2>1, ReserveEffect DEF Types
  <2>5. Becomes(r, "starting", q.who, q.max, q.outcome, q.actual, q.code)
    BY <1>3, Names, GotoBecomes
  <2>6. Story(r)'
    BY <1>1, <2>2, <2>5, SameRecord
    DEF Becomes, RunInv, Story, Unstarted, Started, EventTypes
  <2>7. Hold(r)'
    BY <1>1, <1>2, <2>2, <2>4, <2>5, SameRecord DEF Becomes, RunInv, Hold, Held, Served
  <2>8. Charged(r)'
    <3>1. ~Logged(r, "run_completed")
      BY <1>1 DEF RunInv, Story, Unstarted, Noted, EventTypes
    <3> QED BY <1>1, <1>2, <2>2, <2>4, <2>5, <3>1, SameRecord
        DEF Becomes, RunInv, Charged, Logged
  <2>9. Answer(r)'
    BY <1>1, <2>2, <2>5, SameRecord DEF Becomes, RunInv, Answer
  <2>10. StrayOf(r)'
    BY <1>1, <1>2, <2>2, <2>5 DEF Becomes, RunInv, StrayOf
  <2>11. strays' \in SUBSET StrayRecord /\ OneAppend'
    BY <2>2, SameRecord DEF Types
  <2> QED BY <1>1, <2>2, <2>3, <2>4, <2>5, <2>6, <2>7, <2>8, <2>9, <2>10, <2>11, LedgerStep
      DEF Becomes, RunInv
<1>4. CASE /\ ReserveDenied(q.who, q.max)
           /\ req' = [req EXCEPT ![r].phase = "denying", ![r].code = 402]
  <2>1. UNCHANGED <<ledgerVars, log, strays>>
    BY <1>4 DEF ReserveDenied
  <2>2. UNCHANGED <<reservation, log, strays>>
    BY <2>1 DEF ledgerVars
  <2>3. Becomes(r, "denying", q.who, q.max, q.outcome, q.actual, 402)
    BY <1>4, Names, SetCode, ZenonT(60)
  <2>4. Story(r)'
    BY <1>1, <2>2, <2>3, SameRecord
    DEF Becomes, RunInv, Story, Unstarted, Started, EventTypes
  <2>5. Hold(r)'
    BY <1>1, <1>2, <2>2, <2>3, SameRecord DEF Becomes, RunInv, Hold, Held, Served
  <2>6. Charged(r)'
    BY <1>1, <1>2, <2>2, <2>3, SameRecord DEF Becomes, RunInv, Charged
  <2>7. Answer(r)'
    BY <1>1, <2>2, <2>3, SameRecord DEF Becomes, RunInv, Answer
  <2>8. StrayOf(r)'
    BY <1>1, <1>2, <2>2, <2>3 DEF Becomes, RunInv, StrayOf
  <2> QED BY <1>1, <2>1, <2>3, <2>4, <2>5, <2>6, <2>7, <2>8, LocalStep
      DEF Becomes, RunInv
<1>5. CASE ReserveError(r, q.max) /\ Respond(r, 503)
  <2>1. /\ Ledger!TypeOK' /\ UNCHANGED <<reservation, log>>
        /\ strays' \in SUBSET StrayRecord /\ OneAppend'
        /\ Recorded' = Recorded
        /\ \A x, type : /\ Logged(x, type)' <=> Logged(x, type)
                        /\ Pending(x, type)' <=> Pending(x, type)
                        /\ Noted(x, type)' <=> Noted(x, type)
    BY <1>2, <1>5, ReserveErrorEffect
  <2>2. PICK s : /\ strays' = strays \cup {s}
                 /\ s.run = r /\ s.op = "reserve" /\ s.arg = q.max
    BY <1>2, <1>5, ReserveErrorEffect
  <2>3. Becomes(r, "done", q.who, q.max, q.outcome, q.actual, 503)
    BY <1>5, Names, RespondBecomes
  <2>4. Story(r)'
    BY <1>1, <2>1, <2>3
    DEF Becomes, RunInv, Story, Unstarted, Started, EventTypes
  <2>5. Hold(r)'
    BY <1>1, <1>2, <2>1, <2>3 DEF Becomes, RunInv, Hold, Held, Served
  <2>6. Charged(r)'
    BY <1>1, <1>2, <2>1, <2>3 DEF Becomes, RunInv, Charged
  <2>7. Answer(r)'
    BY <1>1, <2>1, <2>3 DEF Becomes, RunInv, Answer
  <2>8. StrayOf(r)'
    BY <1>1, <1>2, <2>1, <2>2, <2>3 DEF Becomes, RunInv, StrayOf
  <2> QED BY <1>1, <2>1, <2>2, <2>3, <2>4, <2>5, <2>6, <2>7, <2>8, LedgerStep
      DEF Becomes, RunInv
<1> QED BY <1>1, <1>3, <1>4, <1>5

\* What a stray statement is about.
LEMMA StrayType ==
  ASSUME NEW s \in StrayRecord
  PROVE  /\ s.run \in Runs
         /\ s.op = "append" => s.arg \in EventRecord
         /\ s.op = "settle" => s.arg \in 0..MaxMicros
         /\ s.op = "reserve" => s.arg \in 1..MaxMicros
         /\ s.op \in {"append", "settle", "reserve"}
BY DEF StrayRecord

\* A stray statement fails.
LEMMA StrayDiesStep ==
  ASSUME GatewayInv, NEW s \in strays, StrayDies(s)
  PROVE  GatewayInv'
<1> USE DEF GatewayInv
<1>1. /\ strays' = strays \ {s}
      /\ UNCHANGED <<ledgerVars, status, account, reservation, clock, log, req, called>>
  BY DEF StrayDies, ledgerVars
<1>2. Types'
  BY <1>1, StatementKeepsTypes DEF Types
<1>3. LogInOrder' /\ OneAppend' /\ Recorded' = Recorded
  BY <1>1 DEF LogInOrder, OneAppend, Recorded
<1>4. ASSUME NEW r \in Runs PROVE RunInv(r)'
  <2>1. RunInv(r)
    OBVIOUS
  <2>2. \A type : /\ Logged(r, type)' <=> Logged(r, type)
                  /\ Pending(r, type)' => Pending(r, type)
    BY <1>1, <1>3 DEF Logged, Pending
  <2>3. Story(r)'
    BY <1>1, <2>1, <2>2 DEF RunInv, Story, Noted
  <2>4. Hold(r)' /\ Charged(r)' /\ Answer(r)'
    BY <1>1, <1>3, <2>1, <2>2 DEF RunInv, Hold, Charged, Answer
  <2>5. StrayOf(r)'
    BY <1>1, <2>1 DEF RunInv, StrayOf
  <2> QED BY <2>3, <2>4, <2>5 DEF RunInv
<1> QED BY <1>2, <1>3, <1>4

\* The COMMIT of an append arrives after its caller has been told of an error.
LEMMA StrayAppendStep ==
  ASSUME GatewayInv, NEW s \in strays, StrayLands(s), s.op = "append"
  PROVE  GatewayInv'
<1> USE DEF GatewayInv
<1> DEFINE r == s.run
           e == s.arg
<1>1. /\ log' = Append(log, e) /\ strays' = strays \ {s}
      /\ UNCHANGED <<ledgerVars, status, account, reservation, clock, req, called>>
  BY DEF StrayLands, ledgerVars
<1>2. r \in Runs /\ e \in EventRecord
  BY StrayType DEF Types
<1>3. RunInv(r)
  BY <1>2
<1>4. e.run = r /\ Pending(r, e.type)
  <2>1. e.run = r
    BY <1>3 DEF RunInv, StrayOf
  <2> QED BY <2>1 DEF Pending
<1>5. e.type \in EventTypes
  BY <1>2 DEF EventRecord
<1>6. ~Logged(r, e.type)
  BY <1>3, <1>4, <1>5 DEF RunInv, Story
<1>7. e.type \in {"run_completed", "run_failed"} => Logged(r, "run_started")
  BY <1>3, <1>4 DEF RunInv, Story, Noted
<1>8. log' \in Seq(EventRecord) /\ Recorded' = Recorded \cup {e} /\ LogInOrder'
  <2>1. log \in Seq(EventRecord) /\ e.run = r
    BY <1>4 DEF Types
  <2> QED BY <1>1, <1>2, <1>6, <1>7, <2>1, LogAppend
<1>9. Types' /\ OneAppend'
  BY <1>1, <1>8, StatementKeepsTypes DEF Types, OneAppend
<1>10. \A type : /\ Logged(r, type)' <=> Logged(r, type) \/ type = e.type
                 /\ ~Pending(r, type)'
                 /\ Noted(r, type)' <=> Noted(r, type)
  <2>1. \A type : Logged(r, type)' <=> Logged(r, type) \/ type = e.type
    BY <1>4, <1>8 DEF Logged
  <2>2. \A type : ~Pending(r, type)' /\ (Pending(r, type) <=> type = e.type)
    BY <1>1 DEF Pending, OneAppend
  <2> QED BY <2>1, <2>2 DEF Noted
<1> HIDE DEF r, e
<1>11. Story(r)'
  BY <1>1, <1>3, <1>10 DEF RunInv, Story
<1>12. Hold(r)'
  BY <1>1, <1>3, <1>10 DEF RunInv, Hold
<1>13. Charged(r)'
  <2>1. e.type = "run_completed" =>
          reservation[r].state = "settled" /\ reservation[r].actual = e.actual
    BY <1>3 DEF RunInv, StrayOf, r, e
  <2> QED BY <1>1, <1>3, <1>8, <2>1 DEF RunInv, Charged
<1>14. Answer(r)'
  BY <1>1, <1>3, <1>10 DEF RunInv, Answer
<1>15. StrayOf(r)'
  BY <1>1, <1>3 DEF RunInv, StrayOf
<1>16. /\ \A f : f.run # r => (f \in Recorded' <=> f \in Recorded)
       /\ \A t : t.run # r => (t \in strays' <=> t \in strays)
  BY <1>1, <1>4, <1>8 DEF r
<1> QED BY <1>1, <1>2, <1>8, <1>9, <1>11, <1>12, <1>13, <1>14, <1>15, <1>16, RunStep
    DEF RunInv

\* A settlement or reservation takes effect after its caller has been told of an
\* error.
LEMMA StrayLedgerStep ==
  ASSUME GatewayInv, NEW s \in strays, StrayLands(s), s.op # "append"
  PROVE  GatewayInv'
<1> USE DEF GatewayInv
<1> DEFINE r == s.run
           q == req[r]
<1>1. /\ strays' = strays \ {s} /\ UNCHANGED <<log, req, called>>
      /\ \/ /\ s.op = "settle"
            /\ \E now \in Ledger!StatementTimes : Ledger!settle_budget(r, s.arg, now)
         \/ /\ s.op = "reserve"
            /\ \E now \in Ledger!StatementTimes :
                 Ledger!reserve_budget(q.who, r, s.arg, now)
  BY DEF StrayLands
<1>2. /\ r \in Runs
      /\ s.op = "settle" => s.arg \in 0..MaxMicros
      /\ s.op = "reserve" => s.arg \in 1..MaxMicros
  BY StrayType DEF Types
<1>3. RunInv(r) /\ Ledger!TypeOK
  BY <1>2 DEF Types
<1>4. /\ s.op = "settle" /\ s.arg > 0 => r \in called /\ q.outcome = "ok"
      /\ s.op = "reserve" => /\ q.phase = "done" /\ q.code = 503
                             /\ q.who \in Principals /\ q.max = s.arg
  BY <1>3 DEF RunInv, StrayOf
<1>5. /\ strays' \in SUBSET StrayRecord /\ OneAppend' /\ Recorded' = Recorded
      /\ \A type : /\ Logged(r, type)' <=> Logged(r, type)
                   /\ Pending(r, type)' <=> Pending(r, type)
                   /\ Noted(r, type)' <=> Noted(r, type)
  <2>1. strays' \in SUBSET StrayRecord /\ OneAppend' /\ Recorded' = Recorded
    BY <1>1 DEF Types, OneAppend, Recorded
  <2>2. \A type : Logged(r, type)' <=> Logged(r, type)
    BY <2>1 DEF Logged
  <2>3. \A type : Pending(r, type)' <=> Pending(r, type)
    BY <1>1 DEF Pending
  <2> QED BY <2>1, <2>2, <2>3 DEF Noted
<1>6. \A t : t.run # r => (t \in strays' <=> t \in strays)
  BY <1>1
<1>7. /\ \A x \in Runs : x # r => req'[x] = req[x]
      /\ req' \in [Runs -> RequestRecord]
  BY <1>1 DEF Types
<1>8. /\ Ledger!TypeOK'
      /\ \A x \in Runs : x # r => reservation'[x] = reservation[x]
      /\ \/ /\ reservation[r].state = "reserved" /\ reservation'[r].state = "settled"
            /\ reservation'[r].max = reservation[r].max
            /\ reservation'[r].actual > 0 => r \in called /\ q.outcome = "ok"
         \/ /\ reservation[r].state = "none" /\ reservation'[r].state = "reserved"
            /\ reservation'[r].max = q.max /\ reservation'[r].actual = 0
            /\ q.phase = "done" /\ q.code = 503
  <2>1. CASE s.op = "settle"
    <3>1. PICK now \in Ledger!StatementTimes : Ledger!settle_budget(r, s.arg, now)
      BY <1>1, <2>1
    <3>2. Ledger!TypeOK'
      BY <1>2, <1>3, <2>1, <3>1, StatementKeepsTypes
    <3>3. /\ reservation[r].state = "reserved" /\ reservation'[r].state = "settled"
          /\ reservation'[r].max = reservation[r].max
          /\ reservation'[r].actual = IF s.arg > reservation[r].max
                                      THEN reservation[r].max ELSE s.arg
          /\ \A x \in Runs : x # r => reservation'[x] = reservation[x]
      BY <1>2, <1>3, <2>1, <3>1, SettleEffect
    <3>4. reservation[r].max \in Nat /\ s.arg \in Nat
      BY <1>2, <1>3, <2>1 DEF Ledger!TypeOK, Ledger!ReservationRow
    <3> QED BY <1>4, <2>1, <3>2, <3>3, <3>4
  <2>2. CASE s.op = "reserve"
    <3>1. PICK now \in Ledger!StatementTimes : Ledger!reserve_budget(q.who, r, s.arg, now)
      BY <1>1, <2>2
    <3>2. Ledger!TypeOK'
      BY <1>2, <1>3, <1>4, <2>2, <3>1, StatementKeepsTypes
    <3> QED BY <1>2, <1>3, <1>4, <2>2, <3>1, <3>2, ReserveEffect
  <2> QED BY <1>1, <2>1, <2>2
<1> HIDE DEF r, q
<1>9. req'[r] = q
  BY <1>1 DEF q
<1>10. Story(r)'
  BY <1>3, <1>5, <1>9 DEF RunInv, Story, q
<1>11. Hold(r)'
  BY <1>1, <1>3, <1>5, <1>8, <1>9 DEF RunInv, Hold, Held, q
<1>12. Charged(r)'
  BY <1>1, <1>3, <1>5, <1>8, <1>9 DEF RunInv, Charged, q
<1>13. Answer(r)'
  BY <1>1, <1>3, <1>5, <1>8, <1>9 DEF RunInv, Answer, q
<1>14. StrayOf(r)'
  BY <1>1, <1>3, <1>8, <1>9 DEF RunInv, StrayOf, q
<1> QED BY <1>1, <1>2, <1>5, <1>6, <1>7, <1>8, <1>10, <1>11, <1>12, <1>13, <1>14, LedgerStep
    DEF RunInv

\* A sweep, a disabled principal and the clock leave every run's part alone: the
\* sweep ends open holds, and no clause is about an open hold that stays open.
LEMMA LedgerAloneStep ==
  ASSUME GatewayInv, Ledger!TypeOK', UNCHANGED <<log, strays, req, called>>,
         \A x \in Runs :
           \/ reservation'[x] = reservation[x]
           \/ /\ reservation[x].state = "reserved" /\ reservation'[x].state = "expired"
              /\ reservation'[x].max = reservation[x].max
              /\ reservation'[x].actual = reservation[x].actual
  PROVE  GatewayInv'
<1> USE DEF GatewayInv
<1>1. Types' /\ LogInOrder' /\ OneAppend'
  BY SameRecord DEF Types
<1>2. ASSUME NEW r \in Runs PROVE RunInv(r)'
  <2>1. RunInv(r)
    OBVIOUS
  <2>2. Story(r)'
    BY <2>1, SameRecord DEF RunInv, Story
  <2>3. Hold(r)'
    BY <2>1, SameRecord DEF RunInv, Hold
  <2>4. Charged(r)'
    BY <2>1, SameRecord DEF RunInv, Charged
  <2>5. Answer(r)'
    BY <2>1, SameRecord DEF RunInv, Answer
  <2>6. StrayOf(r)'
    BY <2>1 DEF RunInv, StrayOf
  <2> QED BY <2>2, <2>3, <2>4, <2>5, <2>6 DEF RunInv
<1> QED BY <1>1, <1>2

\* A sweep ends open holds only.
LEMMA SweepStep ==
  ASSUME GatewayInv, Sweep
  PROVE  GatewayInv'
<1>1. PICK now \in Ledger!StatementTimes : \E S \in SUBSET Ledger!Expirable(now) :
        Ledger!expire_budget_reservations(S, now)
  BY DEF Sweep
<1>2. PICK S \in SUBSET Ledger!Expirable(now) : Ledger!expire_budget_reservations(S, now)
  BY <1>1
<1>3. Ledger!TypeOK /\ UNCHANGED <<log, strays, req, called>>
  BY DEF Sweep, GatewayInv, Types
<1>4. Ledger!TypeOK'
  BY <1>1, <1>3, StatementKeepsTypes
<1>5. \A x \in Runs :
        \/ reservation'[x] = reservation[x]
        \/ /\ reservation[x].state = "reserved" /\ reservation'[x].state = "expired"
           /\ reservation'[x].max = reservation[x].max
           /\ reservation'[x].actual = reservation[x].actual
  BY <1>2, <1>3, ExpireEffect
<1> QED BY <1>3, <1>4, <1>5, LedgerAloneStep

\* Principals that are disabled, time that passes, and stuttering.
LEMMA QuietStep ==
  ASSUME GatewayInv, \/ \E p \in Principals : Disable(p)
                     \/ Tick
                     \/ UNCHANGED vars
  PROVE  GatewayInv'
<1>1. UNCHANGED <<reservation, log, strays, req, called>>
  BY DEF Disable, Tick, vars, Ledger!DisablePrincipal, Ledger!Tick
<1>2. Ledger!TypeOK
  BY DEF GatewayInv, Types
<1>3. Ledger!TypeOK'
  BY <1>2, StatementKeepsTypes DEF Disable, Tick, vars, ledgerVars
<1> QED BY <1>1, <1>3, LedgerAloneStep

-----------------------------------------------------------------------------
(***************************************************************************)
(* The invariant and what follows from it.                                 *)
(***************************************************************************)

\* The rows that requests meet are well formed.
LEMMA LedgerInitTypes == Init => Ledger!TypeOK
<1> SUFFICES ASSUME Init PROVE Ledger!TypeOK
  OBVIOUS
<1> DEFINE row == [Ledger!NoAccount EXCEPT
                     !.limit = [w \in Ledger!Windows |-> Limit],
                     !.periodEnd = [w \in Ledger!Windows |-> PeriodEnd[w][0]]]
<1>1. Limit \in 0..MaxLimit /\ 0 \in Ledger!Times /\ 0 \in 0..MaxMicros
  BY GatewayAssumption DEF Ledger!ConstantsAssumption, Ledger!Times
<1>2. \A w \in Ledger!Windows : PeriodEnd[w][0] \in Nat
  BY <1>1, GatewayAssumption DEF Ledger!CalendarAssumption
<1>3. row \in Ledger!AccountRow
  BY <1>1, <1>2 DEF Ledger!AccountRow, Ledger!NoAccount
<1>4. Ledger!NoReservation \in Ledger!ReservationRow
  BY <1>1 DEF Ledger!NoReservation, Ledger!ReservationRow, Ledger!ReservationState
<1> HIDE DEF row
<1>5. /\ status = [p \in Principals |-> "active"] /\ account = [p \in Principals |-> row]
      /\ reservation = [r \in Runs |-> Ledger!NoReservation] /\ clock = 0
  BY DEF Init, row
<1> QED BY <1>1, <1>3, <1>4, <1>5 DEF Ledger!TypeOK

\* Requests that have not arrived satisfy the invariant.
LEMMA GatewayInit == Init => GatewayInv
<1> SUFFICES ASSUME Init PROVE GatewayInv
  OBVIOUS
<1>1. /\ log = <<>> /\ strays = {} /\ called = {}
      /\ req = [r \in Runs |-> NoRequest]
      /\ reservation = [r \in Runs |-> Ledger!NoReservation]
  BY DEF Init
<1>2. NoRequest \in RequestRecord
  BY GatewayAssumption
  DEF NoRequest, RequestRecord, Phases, Outcomes, Codes, Ledger!ConstantsAssumption
<1>3. Types
  BY <1>1, <1>2, LedgerInitTypes DEF Types
<1>4. Recorded = {} /\ LogInOrder /\ OneAppend
  BY <1>1 DEF Recorded, LogInOrder, OneAppend
<1>5. ASSUME NEW r \in Runs PROVE RunInv(r)
  <2>1. /\ req[r].phase = "new" /\ req[r].outcome = "none" /\ req[r].code = 0
        /\ reservation[r].state = "none" /\ reservation[r].actual = 0
    BY <1>1 DEF NoRequest, Ledger!NoReservation
  <2>2. \A type : ~Logged(r, type) /\ ~Pending(r, type)
    BY <1>1, <1>4 DEF Logged, Pending
  <2>3. Story(r)
    BY <2>1, <2>2 DEF Story, Noted, Started
  <2>4. Hold(r) /\ Charged(r) /\ Answer(r) /\ StrayOf(r)
    BY <1>1, <1>4, <2>1, <2>2 DEF Hold, Held, Served, Charged, Answer, StrayOf
  <2> QED BY <2>3, <2>4 DEF RunInv
<1> QED BY <1>3, <1>4, <1>5 DEF GatewayInv

\* Every step of requests, stray statements and the ledger keeps the invariant.
LEMMA GatewayStep == GatewayInv /\ [Next]_vars => GatewayInv'
<1> SUFFICES ASSUME GatewayInv, [Next]_vars PROVE GatewayInv'
  OBVIOUS
<1>1. ASSUME NEW r \in Runs, Arrive(r) PROVE GatewayInv'
  BY <1>1, ArriveStep
<1>2. ASSUME NEW r \in Runs, Handle(r) PROVE GatewayInv'
  BY <1>2, DenyStep, ReserveStep, StartStep, GiveBackStep, CallStep, AnsweredStep,
     SettleStep, CompleteStep, FailStep DEF Handle
<1>3. ASSUME NEW r \in Runs, Crash(r) PROVE GatewayInv'
  BY <1>3, CrashStep
<1>4. ASSUME NEW s \in strays, StrayLands(s) PROVE GatewayInv'
  BY <1>4, StrayAppendStep, StrayLedgerStep
<1>5. ASSUME NEW s \in strays, StrayDies(s) PROVE GatewayInv'
  BY <1>5, StrayDiesStep
<1>6. CASE Sweep
  BY <1>6, SweepStep
<1>7. CASE (\E p \in Principals : Disable(p)) \/ Tick \/ UNCHANGED vars
  BY <1>7, QuietStep
<1> QED BY <1>1, <1>2, <1>3, <1>4, <1>5, <1>6, <1>7 DEF Next

\* The inductive invariant holds of every behaviour of the gateway.
THEOREM GatewayInvariant == Spec => []GatewayInv
BY GatewayInit, GatewayStep, PTL DEF Spec

\* Every variable keeps its type, through strays and crashes (Gateway!TypeOK).
THEOREM TypeCorrect == Spec => []TypeOK
<1>1. GatewayInv => TypeOK
  <2> SUFFICES ASSUME GatewayInv PROVE TypeOK
    OBVIOUS
  <2>1. Types
    BY DEF GatewayInv
  <2>2. \A i \in 1..Len(log) : log[i] \in EventRecord
    BY <2>1 DEF Types
  <2>3. \A i \in 1..Len(log) : /\ log[i].run \in Runs /\ log[i].type \in EventTypes
                               /\ log[i].actual \in 0..MaxMicros
    BY <2>2 DEF EventRecord
  <2>4. \A s \in strays : s.run \in Runs /\ s.op \in {"append", "settle", "reserve"}
    BY <2>1, StrayType DEF Types
  <2>5. \A r \in Runs : req[r] \in RequestRecord
    BY <2>1 DEF Types
  <2>6. \A r \in Runs : /\ req[r].phase \in Phases /\ req[r].code \in Codes
                        /\ req[r].who \in Principals \cup {Null}
                        /\ req[r].outcome \in Outcomes
                        /\ req[r].max \in 0..MaxMicros /\ req[r].actual \in 0..MaxMicros
    BY <2>5 DEF RequestRecord
  <2> QED BY <2>1, <2>3, <2>4, <2>6 DEF Types, TypeOK
<1> QED BY <1>1, GatewayInvariant, PTL

\* The positions of an event in the log, and whether there is one.
LEMMA EventsLogged ==
  ASSUME NEW r, NEW type
  PROVE  EventsOf(r, type) # {} <=> Logged(r, type)
BY DEF EventsOf, Logged, Recorded

\* TM-07 for any number of requests: whatever calls fail, and whatever their
\* statements do later, the backend is only called with the start event and the
\* reservation committed.
THEOREM BackendAlwaysAuthorised == Spec => []BackendAuthorised
<1>1. GatewayInv => BackendAuthorised
  <2> SUFFICES ASSUME GatewayInv, NEW r \in called
               PROVE  EventsOf(r, "run_started") # {} /\ reservation[r].state # "none"
    BY DEF BackendAuthorised
  <2>1. r \in Runs /\ RunInv(r)
    BY DEF GatewayInv, Types
  <2> QED BY <2>1, EventsLogged DEF RunInv, Hold
<1> QED BY <1>1, GatewayInvariant, PTL

\* TM-08 for any number of requests: content only with the completion event on
\* record, and a completion event only about a settled run and with its charge.
THEOREM SuccessAlwaysBacked == Spec => []SuccessBacked
<1>1. GatewayInv => SuccessBacked
  <2> SUFFICES ASSUME GatewayInv, NEW r \in Runs
               PROVE  /\ req[r].code = 200 => EventsOf(r, "run_completed") # {}
                      /\ \A i \in EventsOf(r, "run_completed") :
                           /\ reservation[r].state = "settled"
                           /\ log[i].actual = reservation[r].actual
    BY DEF SuccessBacked
  <2>1. RunInv(r)
    BY DEF GatewayInv
  <2>2. req[r].code = 200 => EventsOf(r, "run_completed") # {}
    BY <2>1, EventsLogged DEF RunInv, Answer
  <2>3. ASSUME NEW i \in EventsOf(r, "run_completed")
        PROVE  /\ reservation[r].state = "settled"
               /\ log[i].actual = reservation[r].actual
    <3>1. log[i] \in Recorded /\ log[i].run = r /\ log[i].type = "run_completed"
      BY DEF EventsOf, Recorded
    <3> QED BY <2>1, <3>1 DEF RunInv, Charged
  <2> QED BY <2>2, <2>3
<1> QED BY <1>1, GatewayInvariant, PTL

\* A 402 or 403 is on record, and its run holds no budget and has not reached the
\* backend, also when other statements of the run come to light later.
THEOREM RefusalsAlwaysRecorded == Spec => []RefusalsRecorded
<1>1. GatewayInv => RefusalsRecorded
  <2> SUFFICES ASSUME GatewayInv, NEW r \in Runs,
                      req[r].phase = "done", req[r].code \in {402, 403}
               PROVE  /\ EventsOf(r, "run_denied") # {}
                      /\ reservation[r].state = "none" /\ r \notin called
    BY DEF RefusalsRecorded, At
  <2>1. RunInv(r)
    BY DEF GatewayInv
  <2>2. Logged(r, "run_denied") /\ reservation[r].state = "none"
    BY <2>1 DEF RunInv, Answer
  <2>3. r \notin called
    BY <2>1, <2>2 DEF RunInv, Hold
  <2> QED BY <2>2, <2>3, EventsLogged
<1> QED BY <1>1, GatewayInvariant, PTL

\* The log tells every run's story in order and once, whichever appends returned
\* an error and were committed all the same.
THEOREM StoryAlwaysInOrder == Spec => []StoryInOrder
<1>1. GatewayInv => StoryInOrder
  <2> SUFFICES ASSUME GatewayInv, NEW r \in Runs
               PROVE  /\ \A i \in EventsOf(r, "run_completed") \cup EventsOf(r, "run_failed") :
                           \E j \in EventsOf(r, "run_started") : j < i
                      /\ \A type \in EventTypes : Cardinality(EventsOf(r, type)) <= 1
                      /\ EventsOf(r, "run_denied") # {} =>
                           \A type \in EventTypes \ {"run_denied"} : EventsOf(r, type) = {}
    BY DEF StoryInOrder
  <2>1. RunInv(r) /\ LogInOrder
    BY DEF GatewayInv
  <2>2. ASSUME NEW i \in EventsOf(r, "run_completed") \cup EventsOf(r, "run_failed")
        PROVE  \E j \in EventsOf(r, "run_started") : j < i
    BY <2>1 DEF LogInOrder, EventsOf
  <2>3. ASSUME NEW type \in EventTypes
        PROVE  Cardinality(EventsOf(r, type)) <= 1
    <3>1. CASE EventsOf(r, type) = {}
      BY <3>1, FS_EmptySet
    <3>2. CASE EventsOf(r, type) # {}
      <4>1. PICK i : i \in EventsOf(r, type)
        BY <3>2
      <4>2. EventsOf(r, type) = {i}
        BY <2>1, <4>1 DEF LogInOrder, EventsOf
      <4>3. Cardinality({i}) = 1
        BY FS_Singleton
      <4> QED BY <4>2, <4>3
    <3> QED BY <3>1, <3>2
  <2>4. EventsOf(r, "run_denied") # {} =>
          \A type \in EventTypes \ {"run_denied"} : EventsOf(r, type) = {}
    BY <2>1, EventsLogged DEF RunInv, Story, Noted
  <2> QED BY <2>2, <2>3, <2>4
<1> QED BY <1>1, GatewayInvariant, PTL

\* Only a run the backend answered is charged: no stray settlement, sweep, crash
\* or abandoned start turns a hold into spend.
THEOREM AlwaysChargedOnlyIfServed == Spec => []ChargedOnlyIfServed
<1>1. GatewayInv => ChargedOnlyIfServed
  BY DEF GatewayInv, RunInv, Charged, ChargedOnlyIfServed
<1> QED BY <1>1, GatewayInvariant, PTL

-----------------------------------------------------------------------------
(***************************************************************************)
(* The gateway and the ledger: what BudgetProofs proves of the ledger      *)
(* holds of it under the gateway.                                          *)
(***************************************************************************)

\* What the gateway does to the ledger's rows is always one of its statements,
\* with arguments in their ranges.
LEMMA GatewayMovesLedger ==
  ASSUME GatewayInv, [Next]_vars
  PROVE  [LP!Next]_(LP!vars)
<1> DEFINE Reserves == \E p \in Principals, r \in Runs, m \in 1..MaxMicros,
                          now \in Ledger!StatementTimes :
                            Ledger!reserve_budget(p, r, m, now)
           Settles == \E r \in Runs, a \in 0..MaxMicros, now \in Ledger!StatementTimes :
                        Ledger!settle_budget(r, a, now)
           Stays == UNCHANGED ledgerVars
<1>1. ASSUME NEW r \in Runs, Arrive(r) \/ Handle(r) \/ Crash(r)
      PROVE  Reserves \/ Settles \/ Stays
  <2>1. RunInv(r) /\ req[r] \in RequestRecord
    BY DEF GatewayInv, Types
  <2>2. req[r].actual \in 0..MaxMicros /\ 0 \in 0..MaxMicros
    BY <2>1, GatewayAssumption DEF RequestRecord, Ledger!ConstantsAssumption
  <2>3. CASE Reserve(r)
    <3>1. req[r].who \in Principals /\ req[r].max \in 1..MaxMicros
      BY <2>1, <2>3 DEF Reserve, At, RunInv, Hold
    <3> QED BY <2>3, <3>1 DEF Reserve, ReserveOk, ReserveDenied, ReserveError
  <2>4. CASE Abandon(r) \/ Release(r) \/ Settle(r)
    <3>1. \E a \in 0..MaxMicros : SettleOk(r, a) \/ SettleError(r, a)
      BY <2>2, <2>4 DEF Abandon, Release, Settle
    <3> QED BY <3>1 DEF SettleOk, SettleError
  <2>5. CASE Deny(r) \/ Start(r) \/ Complete(r) \/ Fail(r)
    BY <2>5 DEF Deny, Start, Complete, Fail, AppendOk, AppendError
  <2>6. CASE \/ CallBackend(r) \/ UsageInvalid(r)
             \/ \E cost \in 0..(MaxMicros + 1) : BackendAnswers(r, cost)
             \/ \E code \in {502, 503} : BackendFails(r, code)
    BY <2>6 DEF CallBackend, UsageInvalid, BackendAnswers, BackendFails, RunFails
  <2>7. CASE Arrive(r) \/ Crash(r)
    BY <2>7 DEF Arrive, RejectEarly, PolicyDenies, EstimateFails, PolicyAllows, Crash
  <2> QED BY <1>1, <2>3, <2>4, <2>5, <2>6, <2>7 DEF Handle
<1>2. ASSUME NEW s \in strays, StrayLands(s) \/ StrayDies(s)
      PROVE  Reserves \/ Settles \/ Stays
  <2>1. /\ s.run \in Runs
        /\ s.op = "settle" => s.arg \in 0..MaxMicros
        /\ s.op = "reserve" => s.arg \in 1..MaxMicros
    BY StrayType DEF GatewayInv, Types
  <2>2. s.op = "reserve" => req[s.run].who \in Principals
    BY <2>1 DEF GatewayInv, RunInv, StrayOf
  <2> QED BY <1>2, <2>1, <2>2 DEF StrayLands, StrayDies
<1>3. Reserves \/ Settles => LP!Next
  BY SameLedger DEF LP!Next
<1>4. Stays \/ UNCHANGED vars => UNCHANGED LP!vars
  BY DEF ledgerVars, vars, LP!vars
<1>5. Sweep \/ Tick \/ (\E p \in Principals : Disable(p)) => LP!Next
  BY SameLedger DEF Sweep, Tick, Disable, LP!Next
<1> QED BY <1>1, <1>2, <1>3, <1>4, <1>5 DEF Next

\* Accounts that have just been opened satisfy the ledger's invariant.
LEMMA FundedLedgerInit == Init => LP!LedgerInv
<1> SUFFICES ASSUME Init PROVE LP!LedgerInv
  OBVIOUS
<1>1. LP!TypeOK
  BY LedgerInitTypes, SameLedger
<1>2. \A r \in Runs : reservation[r].state = "none"
  BY DEF Init, Ledger!NoReservation
<1>3. \A p \in Principals : LP!OpenHolds(p) = {}
  BY <1>2 DEF LP!OpenHolds
<1>4. \A p \in Principals : LP!Total(LP!OpenHolds(p), LP!MaxOf) = 0
  BY <1>3, LedgerAssumptions, LP!TotalEmpty
<1>5. \A p \in Principals, w \in LP!Windows :
        /\ account[p].committed[w] = 0 /\ account[p].reserved[w] = 0
        /\ account[p].limit[w] = Limit
  <2>1. LP!Windows = Ledger!Windows
    BY DEF LP!Windows, Ledger!Windows
  <2> QED BY <2>1 DEF Init, Ledger!NoAccount
<1>6. Limit \in Nat
  BY GatewayAssumption DEF Ledger!ConstantsAssumption
<1> QED BY <1>1, <1>2, <1>4, <1>5, <1>6
    DEF LP!LedgerInv, LP!LimitRespected, LP!HoldsAccounted, LP!HoldsOwned

\* Requests in flight never spend beyond a limit, and the reserved columns are
\* exactly the open holds: with reservations and settlements whose callers have
\* gone, crashed handlers, sweeps and disabled principals.
THEOREM GatewayKeepsLedger == Spec => [](Ledger!LimitRespected /\ Ledger!HoldsAccounted)
<1>1. LP!LedgerInv /\ [LP!Next]_(LP!vars) => LP!LedgerInv'
  BY LedgerAssumptions, LP!LedgerStep
<1>2. GatewayInv /\ LP!LedgerInv /\ [Next]_vars => LP!LedgerInv'
  BY <1>1, GatewayMovesLedger
<1>3. LP!LedgerInv => Ledger!LimitRespected /\ Ledger!HoldsAccounted
  <2>1. LP!Windows = Ledger!Windows
    BY DEF LP!Windows, Ledger!Windows
  <2>2. \A p : LP!OpenHolds(p) = Ledger!OpenHolds(p)
    BY DEF LP!OpenHolds, Ledger!OpenHolds
  <2> QED BY <2>1, <2>2, SameSums
      DEF LP!LedgerInv, LP!LimitRespected, LP!HoldsAccounted,
          Ledger!LimitRespected, Ledger!HoldsAccounted
<1> QED BY <1>2, <1>3, FundedLedgerInit, GatewayInvariant, PTL DEF Spec
=============================================================================
