------------------------------- MODULE Budget -------------------------------
(***************************************************************************)
(* The spend ledger: the rows of budget_accounts and spend_reservations    *)
(* and the SQL functions that change them (migrations 000002, 000003 and   *)
(* 000012), as internal/budget/service.go calls them.  Every function is   *)
(* one SQL statement, hence one transaction, and locks the rows it         *)
(* changes; it is one action here.  A call that raises an exception        *)
(* changes nothing and is no step of this module.                          *)
(*                                                                         *)
(* Each function reads the time once, as statement_timestamp(), before it  *)
(* waits for a row lock, so the time it uses may be older than the clock   *)
(* when it takes effect: that is what StatementTimes is for.               *)
(***************************************************************************)
EXTENDS Integers, FiniteSets

CONSTANTS
  Principals,  \* rows of table principals
  Runs,        \* run ids; run_id is UNIQUE, so a run names its reservation
  Null,        \* SQL NULL
  MaxMicros,   \* bound on the amount of one reservation
  MaxLimit,    \* bound on an account limit
  TTL,         \* lifetime of a reservation
  MaxClock,    \* bound on the clock
  MaxLag,      \* how old a statement's timestamp can be when it takes effect
  PeriodEnd    \* the calendar: PeriodEnd[w][t] ends the period of w holding t

Windows == {"daily", "monthly"}
Times == 0..MaxClock

ASSUME ConstantsAssumption ==
  /\ IsFiniteSet(Runs)
  /\ Null \notin Principals
  /\ MaxMicros \in Nat /\ MaxLimit \in Nat
  /\ TTL \in Nat \ {0} /\ MaxClock \in Nat /\ MaxLag \in Nat

\* date_trunc(w, t) + interval '1 w': a period ends after every instant in it,
\* an instant before the end of a period is in that period or an earlier one,
\* and a day ends no later than its month.  Periods need not be equally long.
ASSUME CalendarAssumption ==
  /\ PeriodEnd \in [Windows -> [Times -> Nat]]
  /\ \A w \in Windows, t \in Times : t < PeriodEnd[w][t]
  /\ \A w \in Windows : \A t, u \in Times :
       u < PeriodEnd[w][t] => PeriodEnd[w][u] <= PeriodEnd[w][t]
  /\ \A t \in Times : PeriodEnd["daily"][t] <= PeriodEnd["monthly"][t]

VARIABLES
  status,      \* principals.status, "none" where there is no row
  account,     \* budget_accounts by principal
  reservation, \* spend_reservations by run
  clock        \* the database's clock

vars == <<status, account, reservation, clock>>

-----------------------------------------------------------------------------

\* A row of budget_accounts.  The CHECK that limits are positive lets the zero
\* limit stand for a principal without a row.
AccountRow == [limit     : [Windows -> 0..MaxLimit],
               committed : [Windows -> Nat],
               reserved  : [Windows -> Nat],
               periodEnd : [Windows -> Nat]]

ReservationState == {"none", "reserved", "settled", "expired"}

\* A row of spend_reservations; state "none" stands for no row.
ReservationRow == [state     : ReservationState,
                   owner     : Principals \cup {Null},
                   max       : 0..MaxMicros,
                   actual    : 0..MaxMicros,
                   expiresAt : Nat,
                   settledAt : Times]

NoAccount == [limit     |-> [w \in Windows |-> 0],
              committed |-> [w \in Windows |-> 0],
              reserved  |-> [w \in Windows |-> 0],
              periodEnd |-> [w \in Windows |-> 0]]

NoReservation == [state |-> "none", owner |-> Null, max |-> 0, actual |-> 0,
                  expiresAt |-> 0, settledAt |-> 0]

TypeOK ==
  /\ status \in [Principals -> {"none", "active", "disabled"}]
  /\ account \in [Principals -> AccountRow]
  /\ reservation \in [Runs -> ReservationRow]
  /\ clock \in Times

HasAccount(p) == account[p].limit["daily"] > 0

-----------------------------------------------------------------------------

\* The sum of amt over S, as the number of single micros in it.
Micros(S, amt) == {u \in S \X (1..MaxMicros) : u[2] <= amt[u[1]]}
Total(S, amt) == Cardinality(Micros(S, amt))

MaxOf == [r \in Runs |-> reservation[r].max]
ActualOf == [r \in Runs |-> reservation[r].actual]

\* The holds of p that are still open.
OpenHolds(p) == {r \in Runs : /\ reservation[r].state = "reserved"
                              /\ reservation[r].owner = p}

-----------------------------------------------------------------------------

StatementTimes == {t \in Times : t <= clock /\ clock <= t + MaxLag}

\* Mutant: the roll also forgets the holds that are still open.
RollDropsHolds(a, now) ==
  LET over(w) == now >= a.periodEnd[w] IN
  [a EXCEPT !.committed = [w \in Windows |-> IF over(w) THEN 0 ELSE a.committed[w]],
            !.reserved = [w \in Windows |-> IF over(w) THEN 0 ELSE a.reserved[w]],
            !.periodEnd = [w \in Windows |-> IF over(w) THEN PeriodEnd[w][now]
                                             ELSE a.periodEnd[w]]]

\* Mutant: the roll goes to the period of now even when that is an earlier one.
RollToAnyPeriod(a, now) ==
  LET other(w) == PeriodEnd[w][now] # a.periodEnd[w] IN
  [a EXCEPT !.committed = [w \in Windows |-> IF other(w) THEN 0 ELSE a.committed[w]],
            !.periodEnd = [w \in Windows |-> PeriodEnd[w][now]]]

\* Mutant: the daily window rolls one instant late.
RollDayLate(a, now) ==
  LET over(w) == IF w = "daily" THEN now > a.periodEnd[w]
                 ELSE now >= a.periodEnd[w] IN
  [a EXCEPT !.committed = [w \in Windows |-> IF over(w) THEN 0 ELSE a.committed[w]],
            !.periodEnd = [w \in Windows |-> IF over(w) THEN PeriodEnd[w][now]
                                             ELSE a.periodEnd[w]]]

\* budget_roll_periods: a finished window restarts with nothing committed and
\* with the open holds it had.
budget_roll_periods(a, now) ==
  [limit     |-> a.limit,
   committed |-> [w \in Windows |-> IF now >= a.periodEnd[w] THEN 0
                                    ELSE a.committed[w]],
   reserved  |-> a.reserved,
   periodEnd |-> [w \in Windows |-> IF now >= a.periodEnd[w] THEN PeriodEnd[w][now]
                                    ELSE a.periodEnd[w]]]

Init ==
  /\ status = [p \in Principals |-> "none"]
  /\ account = [p \in Principals |-> NoAccount]
  /\ reservation = [r \in Runs |-> NoReservation]
  /\ clock = 0

admin_create_principal(p) ==
  /\ status[p] = "none"
  /\ status' = [status EXCEPT ![p] = "active"]
  /\ UNCHANGED <<account, reservation, clock>>

\* No function of the migrations disables a principal: an operator updates the
\* row (tests/integration/budget_test.go does).
DisablePrincipal(p) ==
  /\ status[p] = "active"
  /\ status' = [status EXCEPT ![p] = "disabled"]
  /\ UNCHANGED <<account, reservation, clock>>

\* The first call opens the account; a later one only moves the limits, and the
\* table's CHECKs reject a limit below what is committed and held.  It does not
\* roll the periods.
admin_set_budget(p, daily, monthly, now) ==
  LET limits == [w \in Windows |-> IF w = "daily" THEN daily ELSE monthly] IN
  /\ status[p] # "none"
  /\ daily > 0 /\ monthly > 0 /\ daily <= monthly
  /\ IF HasAccount(p)
     THEN /\ \A w \in Windows :
               account[p].committed[w] + account[p].reserved[w] <= limits[w]
          /\ account' = [account EXCEPT ![p].limit = limits]
     ELSE account' = [account EXCEPT ![p] =
            [NoAccount EXCEPT !.limit = limits,
                              !.periodEnd = [w \in Windows |-> PeriodEnd[w][now]]]]
  /\ UNCHANGED <<status, reservation, clock>>

\* Mutant: a reservation is tested against what is committed only.
ReservableIgnoringHolds(p, m, now) ==
  LET a == budget_roll_periods(account[p], now) IN
  /\ status[p] = "active"
  /\ HasAccount(p)
  /\ \A w \in Windows : a.committed[w] + m <= a.limit[w]

\* The tests of reserve_budget that answer 'budget denied' when they fail.
Reservable(p, m, now) ==
  LET a == budget_roll_periods(account[p], now) IN
  /\ status[p] = "active"
  /\ HasAccount(p)
  /\ \A w \in Windows : a.committed[w] + a.reserved[w] + m <= a.limit[w]

reserve_budget(p, r, m, now) ==
  LET a == budget_roll_periods(account[p], now) IN
  /\ reservation[r].state = "none"
  /\ Reservable(p, m, now)
  /\ reservation' = [reservation EXCEPT ![r] =
       [state |-> "reserved", owner |-> p, max |-> m, actual |-> 0,
        expiresAt |-> now + TTL, settledAt |-> 0]]
  /\ account' = [account EXCEPT ![p] =
       [a EXCEPT !.reserved = [w \in Windows |-> a.reserved[w] + m]]]
  /\ UNCHANGED <<status, clock>>

\* Mutant: a settlement may charge more than the hold.
ChargeUncapped(r, actual) == IF actual = Null THEN reservation[r].max ELSE actual

\* What a settlement of r that asks for actual charges: never more than held.
Charge(r, actual) ==
  IF actual = Null THEN reservation[r].max
  ELSE IF actual > reservation[r].max THEN reservation[r].max ELSE actual

\* Mutant: neither the state of the reservation nor the held amount is tested.
SettleableUnchecked(r) ==
  /\ reservation[r].state # "none"
  /\ HasAccount(reservation[r].owner)

\* A hold past its expires_at settles like any other until it is swept.
Settleable(r) ==
  /\ reservation[r].state = "reserved"
  /\ HasAccount(reservation[r].owner)
  /\ \A w \in Windows :
       account[reservation[r].owner].reserved[w] >= reservation[r].max

settle_budget(r, actual, now) ==
  LET p == reservation[r].owner
      a == budget_roll_periods(account[p], now)
      c == Charge(r, actual)
  IN /\ Settleable(r)
     /\ reservation' = [reservation EXCEPT ![r] =
          [reservation[r] EXCEPT !.state = "settled", !.actual = c,
                                 !.settledAt = now]]
     /\ account' = [account EXCEPT ![p] =
          [a EXCEPT
             !.reserved = [w \in Windows |-> a.reserved[w] - reservation[r].max],
             !.committed = [w \in Windows |-> a.committed[w] + c]]]
     /\ UNCHANGED <<status, clock>>

\* What the sweep leaves of p's account row after expiring the holds S of p: the
\* loop's subtractions, each stopping at zero, add up to one.
WithoutHolds(p, S, now) ==
  LET a == budget_roll_periods(account[p], now)
      t == Total(S, MaxOf)
  IN [a EXCEPT !.reserved = [w \in Windows |-> IF a.reserved[w] >= t
                                               THEN a.reserved[w] - t ELSE 0]]

\* Mutant: the sweep joins only the accounts of active principals.
ExpirableOfActive(now) ==
  {r \in Runs : /\ reservation[r].state = "reserved"
                /\ reservation[r].expiresAt <= now
                /\ status[reservation[r].owner] = "active"}

Expirable(now) == {r \in Runs : /\ reservation[r].state = "reserved"
                                /\ reservation[r].expiresAt <= now}

\* One sweep.  It expires the due holds it does not SKIP as LOCKED: any of them,
\* since another transaction may hold the lock of any row for a moment.
expire_budget_reservations(S, now) ==
  /\ S # {} /\ S \subseteq Expirable(now)
  /\ account' = [p \in Principals |->
       IF S \cap OpenHolds(p) = {} THEN account[p]
       ELSE WithoutHolds(p, S \cap OpenHolds(p), now)]
  /\ reservation' = [r \in Runs |->
       IF r \in S
       THEN [reservation[r] EXCEPT !.state = "expired", !.settledAt = now]
       ELSE reservation[r]]
  /\ UNCHANGED <<status, clock>>

Tick ==
  /\ clock < MaxClock
  /\ clock' = clock + 1
  /\ UNCHANGED <<status, account, reservation>>

Next ==
  \/ \E p \in Principals : admin_create_principal(p) \/ DisablePrincipal(p)
  \/ \E p \in Principals, d, m \in 1..MaxLimit, now \in StatementTimes :
       admin_set_budget(p, d, m, now)
  \/ \E p \in Principals, r \in Runs, m \in 1..MaxMicros,
        now \in StatementTimes : reserve_budget(p, r, m, now)
  \/ \E r \in Runs, a \in (0..MaxMicros) \cup {Null}, now \in StatementTimes :
       settle_budget(r, a, now)
  \/ \E now \in StatementTimes : \E S \in SUBSET Expirable(now) :
       expire_budget_reservations(S, now)
  \/ Tick

Spec == Init /\ [][Next]_vars

-----------------------------------------------------------------------------

\* No account is ever committed and held beyond its limit, in either window.
\* The table CHECKs the same (000003:18-19); here no call but admin_set_budget
\* relies on the CHECK: the arithmetic of reserve, settle, expiry and of the
\* period roll is enough, so that CHECK never aborts one of them.
LimitRespected ==
  \A p \in Principals, w \in Windows :
    account[p].committed[w] + account[p].reserved[w] <= account[p].limit[w]

\* The reserved column of both windows is exactly the sum of the account's open
\* holds: no path leaks a hold or gives one back twice, period rolls included.
HoldsAccounted ==
  \A p \in Principals, w \in Windows :
    account[p].reserved[w] = Total(OpenHolds(p), MaxOf)

\* Every open hold can be settled: the 'invalid budget reservation' that
\* settle_budget raises when the account holds too little, and the sweep's
\* clamp to zero, are never reached.
OpenHoldsSettleable ==
  \A r \in Runs : reservation[r].state = "reserved" => Settleable(r)

\* The runs of p settled in the current period of w, by their settled_at.
SettledInWindow(p, w) ==
  {r \in Runs : /\ reservation[r].state = "settled"
                /\ reservation[r].owner = p
                /\ PeriodEnd[w][reservation[r].settledAt] = account[p].periodEnd[w]}

\* A window never forgets a charge: what was settled in the account's current
\* period, going by the reservations' own settled_at, is all in its committed
\* column, though a statement can take effect with a time older than a roll.
WindowSpendCovered ==
  \A p \in Principals, w \in Windows :
    Total(SettledInWindow(p, w), ActualOf) <= account[p].committed[w]

\* The two windows never contradict each other: the month has committed at
\* least what the day has, because a month never restarts without its day.
DayWithinMonth ==
  \A p \in Principals :
    account[p].committed["daily"] <= account[p].committed["monthly"]

\* A reservation is settled or expired at most once and its row then stays as
\* it is, however a late settlement, a second one and the sweep are ordered.
FinalStaysFinal ==
  [][\A r \in Runs : reservation[r].state \in {"settled", "expired"}
                     => reservation'[r] = reservation[r]]_vars
=============================================================================
