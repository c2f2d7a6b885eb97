-------------------------- MODULE BudgetLocksProofs -------------------------
(***************************************************************************)
(* Theorems about the row locks of module BudgetLocks, for any number of   *)
(* sessions, principals and runs: the ledger's functions, run row by row,  *)
(* implement the atomic ones of module Budget, so that its theorems hold   *)
(* of them; and only sweeps can deadlock.                                  *)
(***************************************************************************)
EXTENDS BudgetLocks, TLAPS

\* The ledger with its theorems.
LP == INSTANCE BudgetProofs

-----------------------------------------------------------------------------
(***************************************************************************)
(* The inductive invariant.                                                *)
(***************************************************************************)

Ops == {"none", "reserve", "settle", "expire"}
Accounts == UNION {[P -> Ledger!AccountRow] : P \in SUBSET Principals}
Reservations == UNION {[R -> Ledger!ReservationRow] : R \in SUBSET Runs}

Statement == [op : Ops, at : Places, principal : Principals \cup {Null},
              run : Runs \cup {Null}, micros : Nat \cup {Null}, now : Ledger!Times,
              ahead : SUBSET Runs, batch : SUBSET Runs,
              accounts : Accounts, reservations : Reservations]

Types ==
  /\ stmt \in [Sessions -> Statement]
  /\ lock \in [Rows -> Sessions \cup {Null}]
  /\ \A s \in Sessions : stmt[s].now <= clock

\* The account rows and the reservation rows that a statement would commit.
Writes(s, P, R) == DOMAIN stmt[s].accounts = P /\ DOMAIN stmt[s].reservations = R

\* Between statements a session holds nothing.
IdleInv(s) ==
  stmt[s].op = "none" =>
    /\ stmt[s].at = "idle" /\ Writes(s, {}, {})
    /\ \A x \in Rows : ~Mine(s, x)

\* The account row of p after a hold of m, and after the settlement of r at c.
HeldRow(p, m, now) ==
  LET a == Ledger!budget_roll_periods(account[p], now) IN
  [a EXCEPT !.reserved = [w \in Ledger!Windows |-> a.reserved[w] + m]]

SettledRow(p, r, c, now) ==
  LET a == Ledger!budget_roll_periods(account[p], now) IN
  [a EXCEPT !.reserved = [w \in Ledger!Windows |-> a.reserved[w] - reservation[r].max],
            !.committed = [w \in Ledger!Windows |-> a.committed[w] + c]]

\* The reservation row of a new hold, and of r after its settlement.
NewHold(p, m, now) ==
  [state |-> "reserved", owner |-> p, max |-> m, actual |-> 0,
   expiresAt |-> now + TTL, settledAt |-> 0]

SettledHold(r, c, now) ==
  [reservation[r] EXCEPT !.state = "settled", !.actual = c, !.settledAt = now]

\* A reservation has the principal from its first lock on, and the account it has
\* computed the new row from until it commits; its run is nobody else's.
Reserving(s, p, r, m, now) ==
  /\ p \in Principals /\ r \in Runs /\ m \in 1..MaxMicros
  /\ reservation[r].state = "none"
  /\ \A t \in Sessions : t # s => stmt[t].run # r
  /\ \/ /\ stmt[s].at = "principal"
        /\ Writes(s, {}, {}) /\ \A x \in Rows : ~Mine(s, x)
     \/ /\ stmt[s].at = "account"
        /\ Mine(s, PrincipalRow(p)) /\ status[p] = "active"
        /\ Writes(s, {}, {}) /\ \A x \in Rows : Mine(s, x) => x = PrincipalRow(p)
     \/ /\ stmt[s].at = "end"
        /\ Mine(s, PrincipalRow(p)) /\ Mine(s, AccountRow(p))
        /\ Ledger!Reservable(p, m, now)
        /\ Writes(s, {p}, {r})
        /\ stmt[s].accounts[p] = HeldRow(p, m, now)
        /\ stmt[s].reservations[r] = NewHold(p, m, now)

ReserveInv(s) ==
  stmt[s].op = "reserve" =>
    Reserving(s, stmt[s].principal, stmt[s].run, stmt[s].micros, stmt[s].now)

\* A settlement has an open hold from its first lock on, and the account likewise.
Settling(s, p, r, c, now) ==
  /\ r \in Runs /\ reservation[r].state # "none"
  /\ \/ /\ stmt[s].at = "reservation"
        /\ Writes(s, {}, {}) /\ \A x \in Rows : ~Mine(s, x)
     \/ /\ stmt[s].at = "account"
        /\ Mine(s, ReservationRow(r))
        /\ reservation[r].state = "reserved" /\ p = reservation[r].owner
        /\ Writes(s, {}, {}) /\ \A x \in Rows : Mine(s, x) => x = ReservationRow(r)
     \/ /\ stmt[s].at = "end"
        /\ Mine(s, ReservationRow(r)) /\ Mine(s, AccountRow(p))
        /\ Ledger!Settleable(r) /\ p = reservation[r].owner /\ p \in Principals
        /\ Writes(s, {p}, {r})
        /\ stmt[s].accounts[p] = SettledRow(p, r, c, now)
        /\ stmt[s].reservations[r] = SettledHold(r, c, now)

SettleInv(s) ==
  stmt[s].op = "settle" =>
    Settling(s, stmt[s].principal, stmt[s].run,
             Ledger!Charge(stmt[s].run, stmt[s].micros), stmt[s].now)

\* The rows a sweep has done, and all that it has fetched.
Done(s) == DOMAIN stmt[s].reservations
Fetched(s) ==
  stmt[s].batch \cup Done(s) \cup (IF stmt[s].at = "account" THEN {stmt[s].run} ELSE {})
DoneOf(s, p) == {r \in Done(s) : reservation[r].owner = p}

\* A sweep has the account of every hold that it has done, less what those held.
Swept(s, now) ==
  /\ DOMAIN stmt[s].accounts = {reservation[r].owner : r \in Done(s)}
  /\ \A p \in DOMAIN stmt[s].accounts :
       /\ Mine(s, AccountRow(p))
       /\ stmt[s].accounts[p] = Ledger!WithoutHolds(p, DoneOf(s, p), now)
  /\ \A r \in Done(s) :
       stmt[s].reservations[r] =
         [reservation[r] EXCEPT !.state = "expired", !.settledAt = now]

\* It has every hold that it has fetched, open and due.
Sweeping(s, now) ==
  /\ stmt[s].at \in {"loop", "account"}
  /\ \A r \in stmt[s].ahead :
       reservation[r].state # "none" /\ reservation[r].expiresAt <= now
  /\ \A r \in Fetched(s) :
       /\ r \in Runs /\ Mine(s, ReservationRow(r))
       /\ reservation[r].state = "reserved" /\ reservation[r].expiresAt <= now
  /\ stmt[s].batch \cap Done(s) = {}
  /\ stmt[s].at = "account" =>
       /\ stmt[s].run \notin stmt[s].batch \cup Done(s)
       /\ stmt[s].principal = reservation[stmt[s].run].owner
  /\ Swept(s, now)

ExpireInv(s) == stmt[s].op = "expire" => Sweeping(s, stmt[s].now)

StatementInv(s) == IdleInv(s) /\ ReserveInv(s) /\ SettleInv(s) /\ ExpireInv(s)

\* What a statement will commit is right when it is computed; that it still is when
\* it commits is what the locks are for.
LocksInv == LP!LedgerInv /\ Types /\ \A s \in Sessions : StatementInv(s)

-----------------------------------------------------------------------------
(***************************************************************************)
(* The ledger, as it is used here and in BudgetProofs.                     *)
(***************************************************************************)

\* Both instances of the ledger's module have the same sets and totals.
LEMMA SameSums ==
  /\ LP!Windows = Ledger!Windows /\ LP!Times = Ledger!Times
  /\ LP!AccountRow = Ledger!AccountRow /\ LP!ReservationRow = Ledger!ReservationRow
  /\ \A S : LP!IsFiniteSet(S) <=> Ledger!IsFiniteSet(S)
  /\ \A S, amt : LP!Total(S, amt) = Ledger!Total(S, amt)
  /\ LP!MaxOf = Ledger!MaxOf
<1>1. LP!Windows = Ledger!Windows /\ LP!Times = Ledger!Times
  BY DEF LP!Windows, Ledger!Windows, LP!Times, Ledger!Times
<1>2. LP!AccountRow = Ledger!AccountRow
  BY <1>1 DEF LP!AccountRow, Ledger!AccountRow
<1>3. LP!ReservationRow = Ledger!ReservationRow
  BY <1>1 DEF LP!ReservationRow, Ledger!ReservationRow,
              LP!ReservationState, Ledger!ReservationState
<1>4. \A S : LP!IsFiniteSet(S) <=> Ledger!IsFiniteSet(S)
  BY DEF LP!IsFiniteSet, Ledger!IsFiniteSet
<1>5. \A S : LP!Cardinality(S) = Ledger!Cardinality(S)
  BY DEF LP!Cardinality, Ledger!Cardinality
<1>6. \A S, amt : LP!Micros(S, amt) = Ledger!Micros(S, amt)
  BY DEF LP!Micros, Ledger!Micros
<1>7. \A S, amt : LP!Total(S, amt) = Ledger!Total(S, amt)
  BY <1>5, <1>6 DEF LP!Total, Ledger!Total
<1>8. LP!MaxOf = Ledger!MaxOf
  BY DEF LP!MaxOf, Ledger!MaxOf
<1> QED BY <1>1, <1>2, <1>3, <1>4, <1>7, <1>8

\* The assumptions of the ledger's theorems hold here.
LEMMA LedgerAssumptions == LP!ConstantsAssumption /\ LP!CalendarAssumption
<1>1. LP!ConstantsAssumption
  BY SameSums, LocksAssumption DEF Ledger!ConstantsAssumption, LP!ConstantsAssumption
<1>2. LP!CalendarAssumption
  BY SameSums, LocksAssumption DEF Ledger!CalendarAssumption, LP!CalendarAssumption
<1> QED BY <1>1, <1>2

\* Both compute the same rows.
LEMMA SameRows ==
  /\ \A a, now : LP!budget_roll_periods(a, now) = Ledger!budget_roll_periods(a, now)
  /\ \A p : LP!OpenHolds(p) = Ledger!OpenHolds(p)
  /\ \A p : LP!HasAccount(p) <=> Ledger!HasAccount(p)
  /\ \A p, S, now : LP!WithoutHolds(p, S, now) = Ledger!WithoutHolds(p, S, now)
  /\ \A r, a : LP!Charge(r, a) = Ledger!Charge(r, a)
<1>1. \A a, now : LP!budget_roll_periods(a, now) = Ledger!budget_roll_periods(a, now)
  BY SameSums DEF LP!budget_roll_periods, Ledger!budget_roll_periods
<1>2. \A p : LP!OpenHolds(p) = Ledger!OpenHolds(p)
  BY DEF LP!OpenHolds, Ledger!OpenHolds
<1>3. \A p : LP!HasAccount(p) <=> Ledger!HasAccount(p)
  BY DEF LP!HasAccount, Ledger!HasAccount
<1>4. \A p, S, now : LP!WithoutHolds(p, S, now) = Ledger!WithoutHolds(p, S, now)
  BY <1>1, SameSums DEF LP!WithoutHolds, Ledger!WithoutHolds
<1>5. \A r, a : LP!Charge(r, a) = Ledger!Charge(r, a)
  BY DEF LP!Charge, Ledger!Charge
<1> QED BY <1>1, <1>2, <1>3, <1>4, <1>5

\* Both have the same statements.
LEMMA SameLedger ==
  /\ LP!TypeOK <=> Ledger!TypeOK
  /\ LP!Init <=> Ledger!Init
  /\ LP!Next <=> Ledger!Next
<1> USE SameSums, SameRows
<1>1. LP!TypeOK <=> Ledger!TypeOK
  BY DEF LP!TypeOK, Ledger!TypeOK
<1>2. LP!Init <=> Ledger!Init
  <2>1. LP!NoAccount = Ledger!NoAccount /\ LP!NoReservation = Ledger!NoReservation
    BY DEF LP!NoAccount, Ledger!NoAccount, LP!NoReservation, Ledger!NoReservation
  <2> QED BY <2>1 DEF LP!Init, Ledger!Init
<1>3. LP!StatementTimes = Ledger!StatementTimes
  BY DEF LP!StatementTimes, Ledger!StatementTimes
<1>4. \A now : LP!Expirable(now) = Ledger!Expirable(now)
  BY DEF LP!Expirable, Ledger!Expirable
<1>5. \A p, r, m, now : LP!reserve_budget(p, r, m, now) <=> Ledger!reserve_budget(p, r, m, now)
  BY DEF LP!reserve_budget, Ledger!reserve_budget, LP!Reservable, Ledger!Reservable
<1>6. \A r, a, now : LP!settle_budget(r, a, now) <=> Ledger!settle_budget(r, a, now)
  <2>1. \A r : LP!Settleable(r) <=> Ledger!Settleable(r)
    BY DEF LP!Settleable, Ledger!Settleable
  <2> SUFFICES ASSUME NEW r, NEW x, NEW now
               PROVE  LP!settle_budget(r, x, now) <=> Ledger!settle_budget(r, x, now)
    OBVIOUS
  <2>2. /\ LP!Settleable(r) <=> Ledger!Settleable(r)
        /\ LP!Charge(r, x) = Ledger!Charge(r, x)
        /\ LP!budget_roll_periods(account[reservation[r].owner], now)
             = Ledger!budget_roll_periods(account[reservation[r].owner], now)
    BY <2>1
  <2> QED BY <2>2 DEF LP!settle_budget, Ledger!settle_budget
<1>7. \A S, now : LP!expire_budget_reservations(S, now)
                    <=> Ledger!expire_budget_reservations(S, now)
  BY <1>4 DEF LP!expire_budget_reservations, Ledger!expire_budget_reservations
<1>8. \A p, d, m, now : LP!admin_set_budget(p, d, m, now)
                          <=> Ledger!admin_set_budget(p, d, m, now)
  BY DEF LP!admin_set_budget, Ledger!admin_set_budget, LP!NoAccount, Ledger!NoAccount
<1>9. /\ \A p : LP!admin_create_principal(p) <=> Ledger!admin_create_principal(p)
      /\ \A p : LP!DisablePrincipal(p) <=> Ledger!DisablePrincipal(p)
      /\ LP!Tick <=> Ledger!Tick
  BY DEF LP!admin_create_principal, Ledger!admin_create_principal,
         LP!DisablePrincipal, Ledger!DisablePrincipal, LP!Tick, Ledger!Tick
<1>10. LP!Next <=> Ledger!Next
  BY <1>3, <1>4, <1>5, <1>6, <1>7, <1>8, <1>9 DEF LP!Next, Ledger!Next
<1> QED BY <1>1, <1>2, <1>10

\* What the ledger's invariant says here.
LEMMA LedgerFacts ==
  ASSUME LP!LedgerInv
  PROVE  /\ Ledger!TypeOK
         /\ \A r \in Runs : reservation[r].state = "reserved" =>
              /\ reservation[r].owner \in Principals
              /\ Ledger!HasAccount(reservation[r].owner)
<1>1. LP!TypeOK /\ LP!HoldsOwned
  BY DEF LP!LedgerInv
<1> QED BY <1>1, SameLedger, SameRows DEF LP!HoldsOwned

\* The row that a statement computes is an account row, and rolling keeps the limit
\* and the holds.
LEMMA Rolled ==
  ASSUME NEW a \in Ledger!AccountRow, NEW now \in Ledger!Times
  PROVE  /\ Ledger!budget_roll_periods(a, now) \in Ledger!AccountRow
         /\ Ledger!budget_roll_periods(a, now).limit = a.limit
         /\ Ledger!budget_roll_periods(a, now).reserved = a.reserved
<1>1. a \in LP!AccountRow /\ now \in LP!Times
  BY SameSums
<1>2. /\ LP!budget_roll_periods(a, now) \in LP!AccountRow
      /\ LP!budget_roll_periods(a, now).limit = a.limit
      /\ LP!budget_roll_periods(a, now).reserved = a.reserved
  BY <1>1, LedgerAssumptions, LP!RollRow
<1> QED BY <1>2, SameSums, SameRows

-----------------------------------------------------------------------------
(***************************************************************************)
(* Rows.                                                                   *)
(***************************************************************************)

\* Rows of different tables, or with different keys, are different rows.
LEMMA RowsDiffer ==
  /\ \A p \in Principals : PrincipalRow(p) \in Rows /\ AccountRow(p) \in Rows
  /\ \A r \in Runs : ReservationRow(r) \in Rows
  /\ \A p, q : (PrincipalRow(p) = PrincipalRow(q) => p = q)
               /\ (AccountRow(p) = AccountRow(q) => p = q)
               /\ (ReservationRow(p) = ReservationRow(q) => p = q)
               /\ PrincipalRow(p) # AccountRow(q)
               /\ PrincipalRow(p) # ReservationRow(q)
               /\ AccountRow(p) # ReservationRow(q)
BY DEF Rows, PrincipalRow, AccountRow, ReservationRow

\* The row versions with one more.
LEMMA Versions ==
  ASSUME NEW f, NEW k, NEW v
  PROVE  /\ DOMAIN With(f, k, v) = DOMAIN f \cup {k}
         /\ With(f, k, v)[k] = v
         /\ \A x \in DOMAIN f : x # k => With(f, k, v)[x] = f[x]
BY DEF With

\* No row version at all.
LEMMA NoVersions == DOMAIN <<>> = {}
OBVIOUS

\* Row versions by principal or by run are well formed if every version is.
LEMMA VersionTypes ==
  /\ <<>> \in Accounts /\ <<>> \in Reservations
  /\ \A f \in Accounts : DOMAIN f \subseteq Principals
                       /\ \A p \in DOMAIN f : f[p] \in Ledger!AccountRow
  /\ \A f \in Reservations : DOMAIN f \subseteq Runs
                           /\ \A r \in DOMAIN f : f[r] \in Ledger!ReservationRow
  /\ \A f \in Accounts, p \in Principals, a \in Ledger!AccountRow :
       With(f, p, a) \in Accounts
  /\ \A f \in Reservations, r \in Runs, h \in Ledger!ReservationRow :
       With(f, r, h) \in Reservations
<1>1. <<>> \in [{} -> Ledger!AccountRow] /\ <<>> \in [{} -> Ledger!ReservationRow]
  OBVIOUS
<1>2. <<>> \in Accounts /\ <<>> \in Reservations
  BY <1>1 DEF Accounts, Reservations
<1>3. ASSUME NEW f \in Accounts
      PROVE  /\ DOMAIN f \subseteq Principals
             /\ \A p \in DOMAIN f : f[p] \in Ledger!AccountRow
             /\ \A p \in Principals, a \in Ledger!AccountRow : With(f, p, a) \in Accounts
  <2>1. PICK P \in SUBSET Principals : f \in [P -> Ledger!AccountRow]
    BY DEF Accounts
  <2>2. ASSUME NEW p \in Principals, NEW a \in Ledger!AccountRow
        PROVE  With(f, p, a) \in Accounts
    <3>1. With(f, p, a) \in [P \cup {p} -> Ledger!AccountRow]
      BY <2>1 DEF With
    <3> QED BY <3>1 DEF Accounts
  <2> QED BY <2>1, <2>2
<1>4. ASSUME NEW f \in Reservations
      PROVE  /\ DOMAIN f \subseteq Runs
             /\ \A r \in DOMAIN f : f[r] \in Ledger!ReservationRow
             /\ \A r \in Runs, h \in Ledger!ReservationRow :
                  With(f, r, h) \in Reservations
  <2>1. PICK R \in SUBSET Runs : f \in [R -> Ledger!ReservationRow]
    BY DEF Reservations
  <2>2. ASSUME NEW r \in Runs, NEW h \in Ledger!ReservationRow
        PROVE  With(f, r, h) \in Reservations
    <3>1. With(f, r, h) \in [R \cup {r} -> Ledger!ReservationRow]
      BY <2>1 DEF With
    <3> QED BY <3>1 DEF Reservations
  <2> QED BY <2>1, <2>2
<1> QED BY <1>2, <1>3, <1>4

-----------------------------------------------------------------------------
(***************************************************************************)
(* The statements that take no step.                                       *)
(***************************************************************************)

\* What the sweep leaves of an account row depends on that row and on the holds.
LEMMA WithoutHoldsKept ==
  ASSUME NEW p, NEW S \in SUBSET Runs, NEW now, account'[p] = account[p],
         \A r \in S : reservation'[r] = reservation[r]
  PROVE  Ledger!WithoutHolds(p, S, now)' = Ledger!WithoutHolds(p, S, now)
<1> DEFINE f == [r \in Runs |-> reservation[r].max]
           g == [r \in Runs |-> reservation'[r].max]
<1>1. LP!Total(S, f) = LP!Total(S, g)
  <2>1. \A r \in S : f[r] = g[r]
    OBVIOUS
  <2> HIDE DEF f, g
  <2> QED BY <2>1, LedgerAssumptions, LP!TotalSame
<1>2. Ledger!Total(S, Ledger!MaxOf) = Ledger!Total(S, Ledger!MaxOf')
  BY <1>1, SameSums DEF Ledger!MaxOf
<1>3. Ledger!Total(S, Ledger!MaxOf)' = Ledger!Total(S, Ledger!MaxOf')
  BY DEF Ledger!Total, Ledger!Micros, Ledger!Cardinality
<1> QED BY <1>2, <1>3 DEF Ledger!WithoutHolds, Ledger!budget_roll_periods

\* What a statement has found out stays true while the rows it has locked stay as
\* they are: nobody revokes a locked principal, changes a locked account or ends a
\* locked hold, and the run of a reservation stays its own.
LEMMA StatementKept ==
  ASSUME Types, NEW t \in Sessions, StatementInv(t),
         stmt'[t] = stmt[t],
         \A x \in Rows : lock'[x] = t <=> lock[x] = t,
         \A p \in Principals : lock[PrincipalRow(p)] = t /\ status[p] = "active"
                               => status'[p] = "active",
         \A p \in Principals : lock[AccountRow(p)] = t => account'[p] = account[p],
         \A r \in Runs : lock[ReservationRow(r)] = t /\ reservation[r].state = "reserved"
                         => reservation'[r] = reservation[r],
         \A r \in Runs : reservation[r].state # "none" =>
           /\ reservation'[r].state # "none"
           /\ reservation'[r].expiresAt = reservation[r].expiresAt,
         \A r \in Runs : stmt[t].op = "reserve" /\ stmt[t].run = r =>
           /\ reservation[r].state = "none" => reservation'[r].state = "none"
           /\ \A u \in Sessions : u # t => stmt'[u].run # r
  PROVE  StatementInv(t)'
<1> DEFINE st == stmt[t]
<1>1. st \in Statement
  BY DEF Types
<1>2. IdleInv(t)'
  BY DEF StatementInv, IdleInv, Writes, Mine
<1> DEFINE p == st.principal
           r == st.run
           m == st.micros
           now == st.now
<1>3. /\ \A x \in Rows : Mine(t, x)' <=> Mine(t, x)
      /\ \A P, R : Writes(t, P, R)' <=> Writes(t, P, R)
  BY DEF Mine, Writes
<1>4. ReserveInv(t)'
  <2> SUFFICES ASSUME st.op = "reserve", Reserving(t, p, r, m, now)
               PROVE  Reserving(t, p, r, m, now)'
    BY DEF StatementInv, ReserveInv
  <2>1. p \in Principals /\ r \in Runs /\ PrincipalRow(p) \in Rows /\ AccountRow(p) \in Rows
    BY RowsDiffer DEF Reserving
  <2>2. /\ reservation'[r].state = "none" /\ \A u \in Sessions : u # t => stmt'[u].run # r
        /\ st' = st /\ p' = p /\ r' = r /\ m' = m /\ now' = now
    BY DEF Reserving
  <2>3. Mine(t, PrincipalRow(p)) /\ status[p] = "active" => status'[p] = "active"
    BY <2>1 DEF Mine
  <2>4. ASSUME Mine(t, PrincipalRow(p)), Mine(t, AccountRow(p)), Ledger!Reservable(p, m, now)
        PROVE  Ledger!Reservable(p, m, now)' /\ HeldRow(p, m, now)' = HeldRow(p, m, now)
    <3>1. account'[p] = account[p] /\ status'[p] = "active"
      BY <2>1, <2>3, <2>4 DEF Mine, Ledger!Reservable
    <3>2. Ledger!budget_roll_periods(account'[p], now) = Ledger!budget_roll_periods(account[p], now)
      BY <3>1
    <3>3. Ledger!Reservable(p, m, now)'
      <4>1. status'[p] = "active" /\ Ledger!HasAccount(p)'
        BY <2>2, <2>4, <3>1 DEF Ledger!Reservable, Ledger!HasAccount
      <4> QED BY <2>2, <2>4, <3>2, <4>1, Zenon DEF Ledger!Reservable
    <3>4. HeldRow(p, m, now)' = HeldRow(p, m, now)
      BY <2>2, <3>2 DEF HeldRow
    <3> QED BY <3>3, <3>4
  <2> HIDE DEF p, r, m, now
  <2> QED BY <1>3, <2>1, <2>2, <2>3, <2>4 DEF Reserving, NewHold
<1> DEFINE c == Ledger!Charge(r, m)
<1>5. SettleInv(t)'
  <2> SUFFICES ASSUME st.op = "settle", Settling(t, p, r, c, now)
               PROVE  Settling(t, p, r, c, now)'
    BY DEF StatementInv, SettleInv
  <2>1. /\ r \in Runs /\ ReservationRow(r) \in Rows /\ reservation'[r].state # "none"
        /\ p \in Principals => AccountRow(p) \in Rows
        /\ st' = st /\ p' = p /\ r' = r /\ m' = m /\ now' = now
    BY RowsDiffer DEF Settling
  <2>2. Mine(t, ReservationRow(r)) /\ reservation[r].state = "reserved" =>
          reservation'[r] = reservation[r] /\ c' = c
    BY <2>1 DEF Mine, Ledger!Charge
  <2> HIDE DEF c
  <2>3. ASSUME Mine(t, ReservationRow(r)), p \in Principals, Mine(t, AccountRow(p)),
               Ledger!Settleable(r), p = reservation[r].owner
        PROVE  /\ Ledger!Settleable(r)' /\ reservation'[r] = reservation[r]
               /\ SettledRow(p, r, c, now)' = SettledRow(p, r, c, now)
               /\ SettledHold(r, c, now)' = SettledHold(r, c, now)
    <3>1. account'[p] = account[p] /\ reservation'[r] = reservation[r] /\ c' = c
      BY <2>1, <2>2, <2>3 DEF Mine, Ledger!Settleable
    <3>2. r' = r /\ p' = p /\ now' = now
      BY <2>1
    <3> HIDE DEF p, r, now
    <3>3. Ledger!Settleable(r)'
      BY <2>3, <3>1, <3>2 DEF Ledger!Settleable, Ledger!HasAccount
    <3>4. SettledRow(p, r, c, now)' = SettledRow(p, r, c, now)
      BY <3>1, <3>2 DEF SettledRow, Ledger!budget_roll_periods
    <3>5. SettledHold(r, c, now)' = SettledHold(r, c, now)
      BY <3>1, <3>2 DEF SettledHold
    <3> QED BY <3>1, <3>3, <3>4, <3>5
  <2> HIDE DEF p, r, m, now
  <2> QED BY <1>3, <2>1, <2>2, <2>3 DEF Settling
<1>6. ExpireInv(t)'
  <2> SUFFICES ASSUME st.op = "expire", Sweeping(t, now)
               PROVE  Sweeping(t, now)'
    BY DEF StatementInv, ExpireInv
  <2> DEFINE D == Done(t)
             F == Fetched(t)
             Q == DOMAIN st.accounts
  <2>1. /\ Done(t)' = D /\ Fetched(t)' = F /\ D \subseteq F /\ D \subseteq Runs
        /\ Q \subseteq Principals /\ st.ahead \subseteq Runs /\ st' = st /\ now' = now
    BY <1>1, VersionTypes DEF Done, Fetched, Statement
  <2>2. \A x \in F : x \in Runs /\ reservation'[x] = reservation[x]
                       /\ Mine(t, ReservationRow(x))'
    BY <1>3, RowsDiffer DEF Sweeping, Mine
  <2>3. \A q \in Q : q \in Principals /\ account'[q] = account[q] /\ Mine(t, AccountRow(q))'
    BY <1>3, <2>1, RowsDiffer DEF Sweeping, Swept, Mine
  <2>4. ASSUME NEW q
        PROVE  DoneOf(t, q)' = DoneOf(t, q) /\ DoneOf(t, q) \in SUBSET Runs
               /\ DoneOf(t, q) \subseteq F
    BY <2>1, <2>2 DEF DoneOf
  <2>5. ASSUME NEW q \in Q
        PROVE  Ledger!WithoutHolds(q, DoneOf(t, q), now)'
                 = Ledger!WithoutHolds(q, DoneOf(t, q), now)
    <3> DEFINE S == DoneOf(t, q)
    <3>1. S' = S /\ S \in SUBSET Runs /\ \A x \in S : reservation'[x] = reservation[x]
      BY <2>2, <2>4
    <3>2. account'[q] = account[q]
      BY <2>3
    <3> HIDE DEF S, now
    <3>3. \A U \in SUBSET Runs : \A d : (\A x \in U : reservation'[x] = reservation[x]) =>
            Ledger!WithoutHolds(q, U, d)' = Ledger!WithoutHolds(q, U, d)
      BY <3>2, WithoutHoldsKept
    <3> QED BY <2>1, <3>1, <3>3 DEF S
  <2>6. st.at = "account" => st.run \in F
    BY DEF Fetched
  <2> HIDE DEF D, F, Q, now, p, r, m
  <2>7. /\ {reservation'[x].owner : x \in D} = {reservation[x].owner : x \in D}
        /\ \A x \in D : reservation'[x] = reservation[x]
    BY <2>1, <2>2
  <2>8. \A x \in st.ahead : reservation'[x].state # "none" /\ reservation'[x].expiresAt <= now
    BY <2>1 DEF Sweeping
  <2>9. /\ st'.at \in {"loop", "account"}
        /\ \A x \in Fetched(t)' : /\ x \in Runs /\ Mine(t, ReservationRow(x))'
                                  /\ reservation'[x].state = "reserved"
                                  /\ reservation'[x].expiresAt <= now
        /\ st'.batch \cap Done(t)' = {}
        /\ st'.at = "account" => /\ st'.run \notin st'.batch \cup Done(t)'
                                 /\ st'.principal = reservation'[st'.run].owner
    <3>1. /\ st.at \in {"loop", "account"}
          /\ \A x \in F : reservation[x].state = "reserved" /\ reservation[x].expiresAt <= now
          /\ st.batch \cap D = {}
          /\ st.at = "account" => /\ st.run \notin st.batch \cup D
                                  /\ st.principal = reservation[st.run].owner
      BY DEF Sweeping, D, F
    <3> HIDE DEF st
    <3> QED BY <2>1, <2>2, <2>6, <3>1
  <2>10. /\ DOMAIN st'.accounts = {reservation'[x].owner : x \in Done(t)'}
         /\ \A x \in Done(t)' : st'.reservations[x] =
              [reservation'[x] EXCEPT !.state = "expired", !.settledAt = now]
    BY <2>1, <2>7, ZenonT(60) DEF Sweeping, Swept, D
  <2>11. \A q \in DOMAIN st'.accounts :
           /\ Mine(t, AccountRow(q))'
           /\ st'.accounts[q] = Ledger!WithoutHolds(q, DoneOf(t, q), now)'
    <3>1. \A q \in Q : st.accounts[q] = Ledger!WithoutHolds(q, DoneOf(t, q), now)
      BY DEF Sweeping, Swept, Q
    <3>2. DOMAIN st'.accounts = Q /\ st' = st
      BY <2>1 DEF Q
    <3> QED BY <2>3, <2>5, <3>1, <3>2
  <2> QED BY <2>1, <2>8, <2>9, <2>10, <2>11 DEF Sweeping, Swept
<1> QED BY <1>2, <1>4, <1>5, <1>6 DEF StatementInv

-----------------------------------------------------------------------------
(***************************************************************************)
(* The steps of a session before its commit.                               *)
(***************************************************************************)

\* A step that changes no table and only the statement and the locks of s.
LEMMA SessionStep ==
  ASSUME LocksInv, NEW s \in Sessions, NEW st \in Statement, UNCHANGED tables,
         stmt' = [stmt EXCEPT ![s] = st], st.now <= clock,
         lock' \in [Rows -> Sessions \cup {Null}],
         \A x \in Rows : \/ lock'[x] = lock[x]
                         \/ lock[x] \in {s, Null} /\ lock'[x] \in {s, Null},
         \A t \in Sessions : t # s /\ stmt[t].op = "reserve" => st.run # stmt[t].run,
         StatementInv(s)'
  PROVE  LocksInv'
<1>1. Types /\ (\A t \in Sessions : StatementInv(t)) /\ LP!LedgerInv
  BY DEF LocksInv
<1>2. LP!LedgerInv'
  <2>1. UNCHANGED LP!vars
    BY DEF tables, LP!vars
  <2> QED BY <1>1, <2>1, LedgerAssumptions, LP!LedgerStep
<1>3. /\ stmt'[s] = st /\ \A t \in Sessions : t # s => stmt'[t] = stmt[t]
      /\ UNCHANGED <<status, account, reservation, clock>>
  BY <1>1 DEF Types, tables
<1>4. Types'
  BY <1>1, <1>3 DEF Types
<1>5. ASSUME NEW t \in Sessions, t # s PROVE StatementInv(t)'
  <2>1. \A x \in Rows : lock'[x] = t <=> lock[x] = t
    BY <1>5, LocksAssumption
  <2>2. \A r \in Runs : stmt[t].op = "reserve" /\ stmt[t].run = r =>
          \A u \in Sessions : u # t => stmt'[u].run # r
    <3> SUFFICES ASSUME stmt[t].op = "reserve", NEW u \in Sessions, u # t
                 PROVE  stmt'[u].run # stmt[t].run
      OBVIOUS
    <3>1. \A v \in Sessions : v # t => stmt[v].run # stmt[t].run
      BY <1>1 DEF StatementInv, ReserveInv, Reserving
    <3> QED BY <1>3, <1>5, <3>1
  <2> QED BY <1>1, <1>3, <1>5, <2>1, <2>2, StatementKept
<1> QED BY <1>2, <1>4, <1>5 DEF LocksInv

\* The run of a reservation in progress is new, and its own.
LEMMA NewRun ==
  ASSUME LocksInv, NEW t \in Sessions, stmt[t].op = "reserve"
  PROVE  /\ stmt[t].run \in Runs /\ reservation[stmt[t].run].state = "none"
         /\ \A u \in Sessions : u # t => stmt[u].run # stmt[t].run
BY DEF LocksInv, StatementInv, ReserveInv, Reserving

\* A session that runs no statement.
LEMMA IdleStatement ==
  /\ Idle \in Statement /\ Idle.run = Null /\ Idle.op = "none" /\ Idle.at = "idle"
  /\ Idle.now = 0 /\ DOMAIN Idle.accounts = {} /\ DOMAIN Idle.reservations = {}
<1>1. 0 \in Ledger!Times
  BY LocksAssumption DEF Ledger!ConstantsAssumption, Ledger!Times
<1>2. <<>> \in Accounts /\ <<>> \in Reservations
  BY VersionTypes
<1> QED BY <1>1, <1>2, NoVersions DEF Idle, Statement, Ops, Places

\* A new statement of s that has nothing yet.
LEMMA NewStatement ==
  ASSUME LocksInv, NEW s \in Sessions, At(s, "none", "idle"), NEW st \in Statement,
         stmt' = [stmt EXCEPT ![s] = st], UNCHANGED <<tables, lock>>,
         DOMAIN st.accounts = {}, DOMAIN st.reservations = {}, st.batch = {}
  PROVE  /\ stmt'[s] = st /\ Writes(s, {}, {})' /\ \A x \in Rows : ~Mine(s, x)'
         /\ lock' \in [Rows -> Sessions \cup {Null}]
         /\ UNCHANGED <<status, account, reservation, clock, lock>>
<1>1. stmt'[s] = st
  BY DEF LocksInv, Types
<1>2. \A x \in Rows : ~Mine(s, x)
  BY DEF LocksInv, StatementInv, IdleInv, At
<1> QED BY <1>1, <1>2 DEF Writes, Mine, tables, LocksInv, Types

\* reserve_budget begins.
LEMMA StepBeginReserve ==
  ASSUME LocksInv, NEW s \in Sessions, NEW p \in Principals, NEW r \in Runs,
         NEW m \in 1..MaxMicros, BeginReserve(s, p, r, m)
  PROVE  LocksInv'
<1> DEFINE st == [Idle EXCEPT !.op = "reserve", !.at = "principal", !.principal = p,
                              !.run = r, !.micros = m, !.now = clock]
<1>1. clock \in Ledger!Times /\ clock \in Nat
  BY LedgerFacts, LocksAssumption
     DEF LocksInv, Ledger!TypeOK, Ledger!Times, Ledger!ConstantsAssumption
<1>2. /\ st \in Statement /\ st.op = "reserve" /\ st.at = "principal" /\ st.principal = p
      /\ st.run = r /\ st.micros = m /\ st.now = clock /\ st.batch = {}
      /\ DOMAIN st.accounts = {} /\ DOMAIN st.reservations = {}
  <2>1. m \in Nat
    BY LocksAssumption DEF Ledger!ConstantsAssumption
  <2>2. <<>> \in Accounts /\ <<>> \in Reservations
    BY VersionTypes
  <2> QED BY <1>1, <2>1, <2>2, NoVersions DEF Idle, Statement, Ops, Places
<1>3. /\ stmt' = [stmt EXCEPT ![s] = st] /\ UNCHANGED <<tables, lock>>
      /\ At(s, "none", "idle") /\ reservation[r].state = "none"
      /\ \A t \in Sessions : stmt[t].run # r
  BY DEF BeginReserve
<1> HIDE DEF st
<1>4. /\ stmt'[s] = st /\ Writes(s, {}, {})' /\ \A x \in Rows : ~Mine(s, x)'
      /\ UNCHANGED <<status, account, reservation, clock, lock>>
      /\ lock' \in [Rows -> Sessions \cup {Null}]
  BY <1>2, <1>3, NewStatement
<1>5. \A t \in Sessions : t # s => stmt'[t].run # r
  BY <1>3 DEF LocksInv, Types
<1>6. StatementInv(s)'
  BY <1>2, <1>3, <1>4, <1>5
     DEF StatementInv, IdleInv, ReserveInv, SettleInv, ExpireInv, Reserving
<1>7. st.now <= clock /\ st \in Statement /\ UNCHANGED tables
      /\ \A t \in Sessions : t # s /\ stmt[t].op = "reserve" => st.run # stmt[t].run
  BY <1>1, <1>2, <1>3, <1>4
<1> QED BY <1>3, <1>4, <1>6, <1>7, SessionStep

\* settle_budget begins.
LEMMA StepBeginSettle ==
  ASSUME LocksInv, NEW s \in Sessions, NEW r \in Served, NEW c \in Actuals,
         BeginSettle(s, r, c)
  PROVE  LocksInv'
<1> DEFINE st == [Idle EXCEPT !.op = "settle", !.at = "reservation", !.run = r,
                              !.micros = c, !.now = clock]
<1>1. clock \in Ledger!Times /\ clock \in Nat
  BY LedgerFacts, LocksAssumption
     DEF LocksInv, Ledger!TypeOK, Ledger!Times, Ledger!ConstantsAssumption
<1>2. /\ st \in Statement /\ st.op = "settle" /\ st.at = "reservation"
      /\ st.run = r /\ st.micros = c /\ st.now = clock /\ st.batch = {}
      /\ DOMAIN st.accounts = {} /\ DOMAIN st.reservations = {} /\ r \in Runs
  <2>1. c \in Nat \cup {Null} /\ r \in Runs
    BY LocksAssumption
  <2>2. <<>> \in Accounts /\ <<>> \in Reservations
    BY VersionTypes
  <2> QED BY <1>1, <2>1, <2>2, NoVersions DEF Idle, Statement, Ops, Places
<1>3. /\ stmt' = [stmt EXCEPT ![s] = st] /\ UNCHANGED <<tables, lock>>
      /\ At(s, "none", "idle") /\ reservation[r].state # "none"
  BY DEF BeginSettle
<1> HIDE DEF st
<1>4. /\ stmt'[s] = st /\ Writes(s, {}, {})' /\ \A x \in Rows : ~Mine(s, x)'
      /\ UNCHANGED <<status, account, reservation, clock, lock>>
      /\ lock' \in [Rows -> Sessions \cup {Null}]
  BY <1>2, <1>3, NewStatement
<1>5. StatementInv(s)'
  BY <1>2, <1>3, <1>4
     DEF StatementInv, IdleInv, ReserveInv, SettleInv, ExpireInv, Settling
<1>6. st.now <= clock /\ st \in Statement /\ UNCHANGED tables
      /\ \A t \in Sessions : t # s /\ stmt[t].op = "reserve" => st.run # stmt[t].run
  <2>1. \A t \in Sessions : t # s /\ stmt[t].op = "reserve" => st.run # stmt[t].run
    BY <1>2, <1>3, NewRun
  <2> QED BY <1>1, <1>2, <1>3, <2>1
<1> QED BY <1>3, <1>4, <1>5, <1>6, SessionStep

\* s ends without a trace, by an exception, a cancellation or as the victim of a
\* deadlock.
LEMMA StepRaise ==
  ASSUME LocksInv, NEW s \in Sessions, Raise(s)
  PROVE  LocksInv'
<1>1. /\ stmt' = [stmt EXCEPT ![s] = Idle]
      /\ lock' = [x \in Rows |-> IF Mine(s, x) THEN Null ELSE lock[x]]
      /\ UNCHANGED tables
  BY DEF Raise, Ends
<1>2. lock \in [Rows -> Sessions \cup {Null}] /\ stmt \in [Sessions -> Statement]
      /\ clock \in Nat
  BY LedgerFacts, LocksAssumption
     DEF LocksInv, Types, Ledger!TypeOK, Ledger!Times, Ledger!ConstantsAssumption
<1>3. /\ lock' \in [Rows -> Sessions \cup {Null}]
      /\ \A x \in Rows : \/ lock'[x] = lock[x]
                         \/ lock[x] \in {s, Null} /\ lock'[x] \in {s, Null}
      /\ \A x \in Rows : ~Mine(s, x)'
      /\ stmt'[s] = Idle
  <2>1. \A x \in Rows : lock'[x] = IF lock[x] = s THEN Null ELSE lock[x]
    BY <1>1 DEF Mine
  <2>2. lock' \in [Rows -> Sessions \cup {Null}]
    BY <1>1, <1>2
  <2>3. \A x \in Rows : ~Mine(s, x)'
    BY <2>1, LocksAssumption DEF Mine
  <2> QED BY <1>1, <1>2, <2>1, <2>2, <2>3
<1>4. StatementInv(s)'
  BY <1>3, IdleStatement
     DEF StatementInv, IdleInv, ReserveInv, SettleInv, ExpireInv, Writes
<1>5. \A t \in Sessions : t # s /\ stmt[t].op = "reserve" => Idle.run # stmt[t].run
  BY NewRun, IdleStatement, LocksAssumption
<1>6. Idle \in Statement /\ Idle.now <= clock
  BY <1>2, IdleStatement
<1> QED BY <1>1, <1>3, <1>4, <1>5, <1>6, SessionStep

\* s locks one more row and goes on.
LEMMA StepLocks ==
  ASSUME LocksInv, NEW s \in Sessions, NEW x \in Rows, Free(x) \/ Mine(s, x),
         NEW st \in Statement, Locks(s, x, st), st.now = stmt[s].now,
         st.run = stmt[s].run
  PROVE  /\ stmt'[s] = st /\ UNCHANGED <<status, account, reservation, clock>>
         /\ \A y \in Rows : Mine(s, y)' <=> Mine(s, y) \/ y = x
         /\ \A t \in Sessions : t # s => stmt'[t].run = stmt[t].run
         /\ StatementInv(s)' => LocksInv'
<1>1. lock \in [Rows -> Sessions \cup {Null}] /\ stmt \in [Sessions -> Statement]
      /\ stmt[s].now <= clock
  BY DEF LocksInv, Types
<1>2. /\ lock' = [lock EXCEPT ![x] = s] /\ stmt' = [stmt EXCEPT ![s] = st]
      /\ UNCHANGED tables
  BY DEF Locks
<1>3. /\ stmt'[s] = st /\ UNCHANGED <<status, account, reservation, clock>>
      /\ \A t \in Sessions : t # s => stmt'[t].run = stmt[t].run
  BY <1>1, <1>2 DEF tables
<1>4. \A y \in Rows : Mine(s, y)' <=> Mine(s, y) \/ y = x
  BY <1>1, <1>2 DEF Mine
<1>5. /\ lock' \in [Rows -> Sessions \cup {Null}]
      /\ \A y \in Rows : \/ lock'[y] = lock[y]
                         \/ lock[y] \in {s, Null} /\ lock'[y] \in {s, Null}
  BY <1>1, <1>2 DEF Free, Mine
<1>6. \A t \in Sessions : t # s /\ stmt[t].op = "reserve" => st.run # stmt[t].run
  BY NewRun
<1>7. StatementInv(s)' => LocksInv'
  BY <1>1, <1>2, <1>5, <1>6, SessionStep
<1> QED BY <1>3, <1>4, <1>7

\* reserve_budget has the principal.
LEMMA StepReservePrincipal ==
  ASSUME LocksInv, NEW s \in Sessions, ReservePrincipal(s)
  PROVE  LocksInv'
<1> DEFINE p == stmt[s].principal
           r == stmt[s].run
           m == stmt[s].micros
           now == stmt[s].now
           st == [stmt[s] EXCEPT !.at = "account"]
<1>1. CASE Raise(s)
  BY <1>1, StepRaise
<1>2. CASE status[p] = "active" /\ Locks(s, PrincipalRow(p), st)
  <2>1. stmt[s] \in Statement /\ stmt[s].op = "reserve" /\ stmt[s].at = "principal"
        /\ Free(PrincipalRow(p))
    BY DEF LocksInv, Types, ReservePrincipal, At
  <2>2. Reserving(s, p, r, m, now)
    BY <2>1 DEF LocksInv, StatementInv, ReserveInv
  <2>3. /\ st \in Statement /\ st.op = "reserve" /\ st.at = "account" /\ st.principal = p
        /\ st.run = r /\ st.micros = m /\ st.now = now
        /\ st.accounts = stmt[s].accounts /\ st.reservations = stmt[s].reservations
    BY <2>1 DEF Statement, Places
  <2>4. PrincipalRow(p) \in Rows
    BY <2>2, RowsDiffer DEF Reserving
  <2> HIDE DEF st
  <2>5. /\ stmt'[s] = st /\ UNCHANGED <<status, account, reservation, clock>>
        /\ \A y \in Rows : Mine(s, y)' <=> Mine(s, y) \/ y = PrincipalRow(p)
        /\ \A t \in Sessions : t # s => stmt'[t].run = stmt[t].run
        /\ StatementInv(s)' => LocksInv'
    BY <1>2, <2>1, <2>3, <2>4, StepLocks
  <2>6. Reserving(s, p, r, m, now)'
    <3>1. p' = p /\ r' = r /\ m' = m /\ now' = now
      BY <2>3, <2>5
    <3> HIDE DEF p, r, m, now
    <3> QED BY <1>2, <2>1, <2>2, <2>3, <2>4, <2>5, <3>1 DEF Reserving, Writes
  <2>7. StatementInv(s)'
    BY <2>3, <2>5, <2>6 DEF StatementInv, IdleInv, ReserveInv, SettleInv, ExpireInv
  <2> QED BY <2>5, <2>7
<1> QED BY <1>1, <1>2, LedgerFacts DEF ReservePrincipal

\* reserve_budget has the account and has computed both rows.
LEMMA StepReserveAccount ==
  ASSUME LocksInv, NEW s \in Sessions, ReserveAccount(s)
  PROVE  LocksInv'
<1> DEFINE p == stmt[s].principal
           r == stmt[s].run
           m == stmt[s].micros
           now == stmt[s].now
           A == With(stmt[s].accounts, p, HeldRow(p, m, now))
           R == With(stmt[s].reservations, r, NewHold(p, m, now))
           st == [stmt[s] EXCEPT !.at = "end", !.accounts = A, !.reservations = R]
<1>1. /\ stmt[s] \in Statement /\ stmt[s].op = "reserve" /\ stmt[s].at = "account"
      /\ Free(AccountRow(p))
  BY DEF LocksInv, Types, ReserveAccount, At
<1>2. Reserving(s, p, r, m, now)
  BY <1>1 DEF LocksInv, StatementInv, ReserveInv
<1>3. /\ p \in Principals /\ r \in Runs /\ m \in 1..MaxMicros /\ status[p] = "active"
      /\ Mine(s, PrincipalRow(p)) /\ Writes(s, {}, {})
      /\ reservation[r].state = "none" /\ \A t \in Sessions : t # s => stmt[t].run # r
  BY <1>1, <1>2 DEF Reserving
<1>4. Read(s, p) = account[p]
  BY <1>3 DEF Read, Writes
<1>5. CASE Raise(s)
  BY <1>5, StepRaise
<1>6. CASE ~Raise(s)
  <2>1. Locks(s, AccountRow(p), st) /\ Ledger!Reservable(p, m, now)
    <3> DEFINE a == Ledger!budget_roll_periods(account[p], now)
    <3>1. /\ Ledger!HasAccount(p)
          /\ ~\E w \in Ledger!Windows : a.committed[w] + a.reserved[w] + m > a.limit[w]
          /\ Locks(s, AccountRow(p), st)
      BY <1>4, <1>6 DEF ReserveAccount, HeldRow, NewHold
    <3>2. a \in Ledger!AccountRow /\ m \in Int
      BY <1>1, <1>3, Rolled, LedgerFacts DEF LocksInv, Ledger!TypeOK, Statement
    <3>3. \A w \in Ledger!Windows : a.committed[w] + a.reserved[w] + m <= a.limit[w]
      <4>1. \A w \in Ledger!Windows : /\ a.committed[w] \in Int /\ a.reserved[w] \in Int
                                      /\ a.limit[w] \in Int
        BY <3>2 DEF Ledger!AccountRow
      <4> HIDE DEF a
      <4> QED BY <3>1, <3>2, <4>1
    <3> QED BY <1>3, <3>1, <3>3 DEF Ledger!Reservable
  <2>2. A \in Accounts /\ R \in Reservations
    <3>1. HeldRow(p, m, now) \in Ledger!AccountRow
      <4> DEFINE a == Ledger!budget_roll_periods(account[p], now)
      <4>1. a \in Ledger!AccountRow /\ m \in Nat
        BY <1>1, <1>3, Rolled, LedgerFacts, LocksAssumption
           DEF LocksInv, Ledger!TypeOK, Statement, Ledger!ConstantsAssumption
      <4> HIDE DEF a, m
      <4>2. [a EXCEPT !.reserved = [w \in Ledger!Windows |-> a.reserved[w] + m]]
              \in Ledger!AccountRow
        BY <4>1 DEF Ledger!AccountRow
      <4> QED BY <4>2 DEF HeldRow, a
    <3>2. NewHold(p, m, now) \in Ledger!ReservationRow
      <4>1. now + TTL \in Nat /\ m \in 0..MaxMicros /\ 0 \in 0..MaxMicros /\ 0 \in Ledger!Times
        BY <1>1, <1>3, LocksAssumption
           DEF Ledger!ConstantsAssumption, Statement, Ledger!Times
      <4> QED BY <1>3, <4>1 DEF NewHold, Ledger!ReservationRow, Ledger!ReservationState
    <3>3. stmt[s].accounts \in Accounts /\ stmt[s].reservations \in Reservations
      BY <1>1 DEF Statement
    <3> QED BY <1>3, <3>1, <3>2, <3>3, VersionTypes
  <2>3. /\ DOMAIN A = {p} /\ DOMAIN R = {r}
        /\ A[p] = HeldRow(p, m, now) /\ R[r] = NewHold(p, m, now)
    <3>1. DOMAIN stmt[s].accounts = {} /\ DOMAIN stmt[s].reservations = {}
      BY <1>3 DEF Writes
    <3>2. DOMAIN A = {} \cup {p} /\ A[p] = HeldRow(p, m, now)
      BY <3>1 DEF With
    <3>3. DOMAIN R = {} \cup {r} /\ R[r] = NewHold(p, m, now)
      BY <3>1 DEF With
    <3> QED BY <3>2, <3>3
  <2> HIDE DEF A, R
  <2>4. /\ st \in Statement /\ st.op = "reserve" /\ st.at = "end" /\ st.principal = p
        /\ st.run = r /\ st.micros = m /\ st.now = now
        /\ st.accounts = A /\ st.reservations = R
    BY <1>1, <2>2 DEF Statement, Places
  <2>5. AccountRow(p) \in Rows /\ PrincipalRow(p) \in Rows
    BY <1>3, RowsDiffer
  <2> HIDE DEF st
  <2>6. /\ stmt'[s] = st /\ UNCHANGED <<status, account, reservation, clock>>
        /\ \A y \in Rows : Mine(s, y)' <=> Mine(s, y) \/ y = AccountRow(p)
        /\ \A t \in Sessions : t # s => stmt'[t].run = stmt[t].run
        /\ StatementInv(s)' => LocksInv'
    BY <1>1, <2>1, <2>4, <2>5, StepLocks
  <2>7. Reserving(s, p, r, m, now)'
    <3>1. p' = p /\ r' = r /\ m' = m /\ now' = now
      BY <2>4, <2>6
    <3> HIDE DEF p, r, m, now
    <3>2. HeldRow(p, m, now)' = HeldRow(p, m, now) /\ NewHold(p, m, now)' = NewHold(p, m, now)
      BY <2>6, <3>1 DEF HeldRow, NewHold, Ledger!budget_roll_periods
    <3>3. Ledger!Reservable(p, m, now)'
      BY <2>1, <2>6, <3>1
         DEF Ledger!Reservable, Ledger!HasAccount, Ledger!budget_roll_periods
    <3>4. Writes(s, {p}, {r})'
      BY <2>3, <2>4, <2>6, <3>1 DEF Writes
    <3>5. Mine(s, PrincipalRow(p))' /\ Mine(s, AccountRow(p))'
      BY <1>3, <2>5, <2>6, <3>1
    <3> QED BY <1>3, <2>3, <2>4, <2>6, <3>1, <3>2, <3>3, <3>4, <3>5 DEF Reserving
  <2>8. StatementInv(s)'
    BY <2>4, <2>6, <2>7 DEF StatementInv, IdleInv, ReserveInv, SettleInv, ExpireInv
  <2> QED BY <2>6, <2>8
<1> QED BY <1>5, <1>6

\* settle_budget has the hold.
LEMMA StepSettleReservation ==
  ASSUME LocksInv, NEW s \in Sessions, SettleReservation(s)
  PROVE  LocksInv'
<1> DEFINE r == stmt[s].run
           p == reservation[r].owner
           m == stmt[s].micros
           now == stmt[s].now
           c == Ledger!Charge(r, m)
           st == [stmt[s] EXCEPT !.at = "account", !.principal = p]
<1>1. CASE Raise(s)
  BY <1>1, StepRaise
<1>2. CASE reservation[r].state = "reserved" /\ Locks(s, ReservationRow(r), st)
  <2>1. stmt[s] \in Statement /\ stmt[s].op = "settle" /\ stmt[s].at = "reservation"
        /\ Free(ReservationRow(r))
    BY DEF LocksInv, Types, SettleReservation, At
  <2>2. Settling(s, stmt[s].principal, r, c, now)
    BY <2>1 DEF LocksInv, StatementInv, SettleInv
  <2>3. /\ r \in Runs /\ ReservationRow(r) \in Rows
        /\ Writes(s, {}, {}) /\ \A x \in Rows : ~Mine(s, x)
    BY <2>1, <2>2, RowsDiffer DEF Settling
  <2>4. p \in Principals
    BY <1>2, <2>3, LedgerFacts DEF LocksInv
  <2> HIDE DEF p
  <2>5. /\ st \in Statement /\ st.op = "settle" /\ st.at = "account" /\ st.principal = p
        /\ st.run = r /\ st.micros = m /\ st.now = now
        /\ st.accounts = stmt[s].accounts /\ st.reservations = stmt[s].reservations
    BY <2>1, <2>4 DEF Statement, Places
  <2> HIDE DEF st
  <2>6. /\ stmt'[s] = st /\ UNCHANGED <<status, account, reservation, clock>>
        /\ \A y \in Rows : Mine(s, y)' <=> Mine(s, y) \/ y = ReservationRow(r)
        /\ StatementInv(s)' => LocksInv'
    BY <1>2, <2>1, <2>3, <2>5, StepLocks
  <2>7. Settling(s, p, r, c, now)'
    <3>1. r' = r /\ m' = m /\ now' = now
      BY <2>5, <2>6
    <3>2. p' = p /\ p = reservation[r].owner
      BY <2>6, <3>1 DEF p
    <3> HIDE DEF p, r, m, now, c
    <3> QED BY <1>2, <2>3, <2>5, <2>6, <3>1, <3>2 DEF Settling, Writes
  <2>8. SettleInv(s)'
    <3>1. stmt'[s].principal = p' /\ stmt'[s].run = r' /\ stmt'[s].micros = m'
          /\ stmt'[s].now = now'
      BY <2>5, <2>6 DEF p
    <3> QED BY <2>7, <3>1 DEF SettleInv
  <2>9. StatementInv(s)'
    BY <2>5, <2>6, <2>8 DEF StatementInv, IdleInv, ReserveInv, ExpireInv
  <2> QED BY <2>6, <2>9
<1> QED BY <1>1, <1>2 DEF SettleReservation

\* What a settlement charges is never more than the hold, whatever it asks for.
LEMMA Charged ==
  ASSUME Ledger!TypeOK, NEW r \in Runs, NEW m \in Nat \cup {Null}
  PROVE  Ledger!Charge(r, m) \in 0..MaxMicros /\ reservation[r].max \in 0..MaxMicros
<1>1. reservation[r].max \in 0..MaxMicros /\ MaxMicros \in Nat
  BY LocksAssumption DEF Ledger!TypeOK, Ledger!ReservationRow, Ledger!ConstantsAssumption
<1> QED BY <1>1 DEF Ledger!Charge

\* settle_budget has the account and has computed both rows.
LEMMA StepSettleAccount ==
  ASSUME LocksInv, NEW s \in Sessions, SettleAccount(s)
  PROVE  LocksInv'
<1> DEFINE p == stmt[s].principal
           r == stmt[s].run
           m == stmt[s].micros
           now == stmt[s].now
           c == Ledger!Charge(r, m)
           a == Ledger!budget_roll_periods(account[p], now)
           A == With(stmt[s].accounts, p, SettledRow(p, r, c, now))
           R == With(stmt[s].reservations, r, SettledHold(r, c, now))
           st == [stmt[s] EXCEPT !.at = "end", !.accounts = A, !.reservations = R]
<1>1. /\ stmt[s] \in Statement /\ stmt[s].op = "settle" /\ stmt[s].at = "account"
      /\ Free(AccountRow(p)) /\ Ledger!TypeOK
  BY LedgerFacts DEF LocksInv, Types, SettleAccount, At
<1>2. Settling(s, p, r, c, now)
  BY <1>1 DEF LocksInv, StatementInv, SettleInv
<1>3. /\ r \in Runs /\ reservation[r].state = "reserved" /\ p = reservation[r].owner
      /\ Mine(s, ReservationRow(r)) /\ Writes(s, {}, {})
  BY <1>1, <1>2 DEF Settling
<1>4. p \in Principals /\ Ledger!HasAccount(p)
  BY <1>3, LedgerFacts DEF LocksInv
<1>5. Read(s, p) = account[p]
  BY <1>3 DEF Read, Writes
<1>6. CASE Raise(s)
  BY <1>6, StepRaise
<1>7. CASE ~Raise(s)
  <2>1. /\ ~\E w \in Ledger!Windows : a.reserved[w] < reservation[r].max
        /\ Locks(s, AccountRow(p), st)
    BY <1>5, <1>7 DEF SettleAccount, SettledRow, SettledHold
  <2>2. /\ a \in Ledger!AccountRow /\ a.reserved = account[p].reserved
        /\ c \in 0..MaxMicros /\ reservation[r].max \in 0..MaxMicros /\ now \in Ledger!Times
        /\ MaxMicros \in Nat
    BY <1>1, <1>3, <1>4, Rolled, Charged, LocksAssumption
       DEF Ledger!TypeOK, Statement, Ledger!ConstantsAssumption
  <2>3. \A w \in Ledger!Windows : /\ a.reserved[w] \in Nat /\ a.committed[w] \in Nat
                                  /\ a.reserved[w] >= reservation[r].max
    <3>1. \A w \in Ledger!Windows : a.reserved[w] \in Nat /\ a.committed[w] \in Nat
      BY <2>2 DEF Ledger!AccountRow
    <3> HIDE DEF a
    <3> QED BY <2>1, <2>2, <3>1
  <2>4. Ledger!Settleable(r)
    <3> HIDE DEF a
    <3>1. \A w \in Ledger!Windows : account[p].reserved[w] >= reservation[r].max
      BY <2>2, <2>3
    <3> QED BY <1>3, <1>4, <3>1 DEF Ledger!Settleable
  <2>5. SettledRow(p, r, c, now) \in Ledger!AccountRow
    <3> HIDE DEF c, a
    <3>1. [a EXCEPT
             !.reserved = [w \in Ledger!Windows |-> a.reserved[w] - reservation[r].max],
             !.committed = [w \in Ledger!Windows |-> a.committed[w] + c]]
            \in Ledger!AccountRow
      <4>1. /\ [w \in Ledger!Windows |-> a.reserved[w] - reservation[r].max]
                 \in [Ledger!Windows -> Nat]
            /\ [w \in Ledger!Windows |-> a.committed[w] + c] \in [Ledger!Windows -> Nat]
        BY <2>2, <2>3
      <4> QED BY <2>2, <4>1 DEF Ledger!AccountRow
    <3> QED BY <3>1 DEF SettledRow, a
  <2>6. SettledHold(r, c, now) \in Ledger!ReservationRow
    <3> HIDE DEF c
    <3>1. reservation[r] \in Ledger!ReservationRow
      BY <1>1, <1>3 DEF Ledger!TypeOK
    <3> QED BY <2>2, <3>1 DEF SettledHold, Ledger!ReservationRow, Ledger!ReservationState
  <2>7. A \in Accounts /\ R \in Reservations
    <3>1. stmt[s].accounts \in Accounts /\ stmt[s].reservations \in Reservations
      BY <1>1 DEF Statement
    <3> QED BY <1>3, <1>4, <2>5, <2>6, <3>1, VersionTypes
  <2>8. /\ DOMAIN A = {p} /\ DOMAIN R = {r}
        /\ A[p] = SettledRow(p, r, c, now) /\ R[r] = SettledHold(r, c, now)
    <3>1. DOMAIN stmt[s].accounts = {} /\ DOMAIN stmt[s].reservations = {}
      BY <1>3 DEF Writes
    <3>2. DOMAIN A = {} \cup {p} /\ A[p] = SettledRow(p, r, c, now)
      BY <3>1 DEF With
    <3>3. DOMAIN R = {} \cup {r} /\ R[r] = SettledHold(r, c, now)
      BY <3>1 DEF With
    <3> QED BY <3>2, <3>3
  <2> HIDE DEF A, R
  <2>9. /\ st \in Statement /\ st.op = "settle" /\ st.at = "end" /\ st.principal = p
        /\ st.run = r /\ st.micros = m /\ st.now = now
        /\ st.accounts = A /\ st.reservations = R
    BY <1>1, <2>7 DEF Statement, Places
  <2>10. AccountRow(p) \in Rows /\ ReservationRow(r) \in Rows
    BY <1>3, <1>4, RowsDiffer
  <2> HIDE DEF st
  <2>11. /\ stmt'[s] = st /\ UNCHANGED <<status, account, reservation, clock>>
         /\ \A y \in Rows : Mine(s, y)' <=> Mine(s, y) \/ y = AccountRow(p)
         /\ StatementInv(s)' => LocksInv'
    BY <1>1, <2>1, <2>9, <2>10, StepLocks
  <2>12. Settling(s, p, r, c, now)'
    <3>1. p' = p /\ r' = r /\ m' = m /\ now' = now
      BY <2>9, <2>11
    <3>2. c' = c
      BY <2>11, <3>1 DEF Ledger!Charge
    <3> HIDE DEF p, r, m, now, c
    <3>3. /\ SettledRow(p, r, c, now)' = SettledRow(p, r, c, now)
          /\ SettledHold(r, c, now)' = SettledHold(r, c, now)
      BY <2>11, <3>1, <3>2 DEF SettledRow, SettledHold, Ledger!budget_roll_periods
    <3>4. Ledger!Settleable(r)'
      BY <2>4, <2>11, <3>1 DEF Ledger!Settleable, Ledger!HasAccount
    <3>5. Writes(s, {p}, {r})'
      BY <2>8, <2>9, <2>11, <3>1 DEF Writes
    <3>6. Mine(s, ReservationRow(r))' /\ Mine(s, AccountRow(p))'
      BY <1>3, <2>10, <2>11, <3>1
    <3> QED BY <1>3, <1>4, <2>8, <2>9, <2>11, <3>1, <3>2, <3>3, <3>4, <3>5, <3>6 DEF Settling
  <2>13. StatementInv(s)'
    BY <2>9, <2>11, <2>12 DEF StatementInv, IdleInv, ReserveInv, SettleInv, ExpireInv
  <2> QED BY <2>11, <2>13
<1> QED BY <1>6, <1>7

\* expire_budget_reservations begins.
LEMMA StepBeginExpire ==
  ASSUME LocksInv, NEW s \in Sessions, BeginExpire(s)
  PROVE  LocksInv'
<1> DEFINE X == Ledger!Expirable(clock)
           st == [Idle EXCEPT !.op = "expire", !.at = "loop", !.now = clock, !.ahead = X]
<1>1. clock \in Ledger!Times /\ clock \in Nat
  BY LedgerFacts, LocksAssumption
     DEF LocksInv, Ledger!TypeOK, Ledger!Times, Ledger!ConstantsAssumption
<1>2. /\ X \in SUBSET Runs
      /\ \A r \in X : reservation[r].state # "none" /\ reservation[r].expiresAt <= clock
  BY DEF Ledger!Expirable
<1>3. /\ stmt' = [stmt EXCEPT ![s] = st] /\ UNCHANGED <<tables, lock>>
      /\ At(s, "none", "idle")
  BY DEF BeginExpire
<1> HIDE DEF X
<1>4. /\ st \in Statement /\ st.op = "expire" /\ st.at = "loop" /\ st.run = Null
      /\ st.now = clock /\ st.batch = {} /\ st.ahead = X
      /\ DOMAIN st.accounts = {} /\ DOMAIN st.reservations = {}
  <2>1. <<>> \in Accounts /\ <<>> \in Reservations
    BY VersionTypes
  <2> QED BY <1>1, <1>2, <2>1, NoVersions DEF Idle, Statement, Ops, Places
<1> HIDE DEF st
<1>5. /\ stmt'[s] = st /\ Writes(s, {}, {})' /\ \A x \in Rows : ~Mine(s, x)'
      /\ UNCHANGED <<status, account, reservation, clock, lock>>
      /\ lock' \in [Rows -> Sessions \cup {Null}]
  BY <1>3, <1>4, NewStatement
<1>6. Done(s)' = {} /\ Fetched(s)' = {}
  BY <1>4, <1>5 DEF Done, Fetched
<1>7. Sweeping(s, stmt[s].now)'
  BY <1>2, <1>4, <1>5, <1>6 DEF Sweeping, Swept
<1>8. StatementInv(s)'
  BY <1>4, <1>5, <1>7 DEF StatementInv, IdleInv, ReserveInv, SettleInv, ExpireInv
<1>9. st.now <= clock /\ st \in Statement /\ UNCHANGED tables
      /\ \A t \in Sessions : t # s /\ stmt[t].op = "reserve" => st.run # stmt[t].run
  <2>1. \A t \in Sessions : t # s /\ stmt[t].op = "reserve" => st.run # stmt[t].run
    BY <1>4, NewRun, LocksAssumption
  <2> QED BY <1>1, <1>3, <1>4, <2>1
<1> QED BY <1>3, <1>5, <1>8, <1>9, SessionStep

\* What a sweep has done stays done while it goes on fetching.
LEMMA SweptKept ==
  ASSUME LocksInv, NEW s \in Sessions, NEW now, Swept(s, now),
         UNCHANGED <<account, reservation>>,
         stmt'[s].accounts = stmt[s].accounts,
         stmt'[s].reservations = stmt[s].reservations,
         \A x \in Rows : Mine(s, x) => Mine(s, x)'
  PROVE  Swept(s, now)'
<1> DEFINE Q == DOMAIN stmt[s].accounts
<1>1. Done(s)' = Done(s) /\ Done(s) \subseteq Runs /\ Q \subseteq Principals
  BY VersionTypes DEF Done, LocksInv, Types, Statement
<1>2. ASSUME NEW q \in Q
      PROVE  /\ Mine(s, AccountRow(q))'
             /\ stmt'[s].accounts[q] = Ledger!WithoutHolds(q, DoneOf(s, q), now)'
  <2> DEFINE S == DoneOf(s, q)
  <2>1. S' = S /\ S \in SUBSET Runs
    BY <1>1 DEF DoneOf
  <2>2. Mine(s, AccountRow(q)) /\ stmt[s].accounts[q] = Ledger!WithoutHolds(q, S, now)
    BY DEF Swept
  <2>3. AccountRow(q) \in Rows
    BY <1>1, RowsDiffer
  <2>4. \A U \in SUBSET Runs : Ledger!WithoutHolds(q, U, now)' = Ledger!WithoutHolds(q, U, now)
    BY WithoutHoldsKept
  <2> HIDE DEF S
  <2>5. Ledger!WithoutHolds(q, S, now)' = Ledger!WithoutHolds(q, S, now)
    BY <2>1, <2>4
  <2>6. Mine(s, AccountRow(q))'
    BY <2>2, <2>3 DEF Mine
  <2>7. stmt'[s].accounts[q] = Ledger!WithoutHolds(q, S, now)'
    BY <2>2, <2>5
  <2> QED BY <2>6, <2>7 DEF S
<1>3. DOMAIN stmt'[s].accounts = {reservation'[r].owner : r \in Done(s)'}
  <2>1. Q = {reservation[r].owner : r \in Done(s)}
    BY DEF Swept
  <2> DEFINE D == Done(s)
  <2>2. D' = D /\ Q = {reservation[r].owner : r \in D} /\ DOMAIN stmt'[s].accounts = Q
    BY <1>1, <2>1
  <2> HIDE DEF D, Q
  <2>3. DOMAIN stmt'[s].accounts = {reservation'[r].owner : r \in D'}
    BY <2>2
  <2> QED BY <2>3 DEF D
<1>4. \A r \in Done(s)' : stmt'[s].reservations[r] =
        [reservation'[r] EXCEPT !.state = "expired", !.settledAt = now]
  BY <1>1 DEF Swept
<1>5. \A q \in DOMAIN stmt'[s].accounts :
        /\ Mine(s, AccountRow(q))'
        /\ stmt'[s].accounts[q] = Ledger!WithoutHolds(q, DoneOf(s, q), now)'
  BY <1>2
<1> QED BY <1>3, <1>4, <1>5 DEF Swept

\* The cursor of a sweep fetches and locks holds.
LEMMA StepExpireFetch ==
  ASSUME LocksInv, NEW s \in Sessions, NEW S \in SUBSET stmt[s].ahead, ExpireFetch(s, S)
  PROVE  LocksInv'
<1> DEFINE got == Fetchable(S)
           now == stmt[s].now
           st == [stmt[s] EXCEPT !.ahead = @ \ S, !.batch = got]
<1>1. /\ stmt[s] \in Statement /\ stmt \in [Sessions -> Statement] /\ now <= clock
      /\ lock \in [Rows -> Sessions \cup {Null}]
      /\ stmt[s].op = "expire" /\ stmt[s].at = "loop" /\ stmt[s].batch = {}
      /\ UNCHANGED <<status, account, reservation, clock>>
  BY DEF LocksInv, Types, ExpireFetch, At, tables
<1>2. Sweeping(s, now)
  BY <1>1 DEF LocksInv, StatementInv, ExpireInv
<1>3. /\ got \in SUBSET Runs /\ S \subseteq stmt[s].ahead /\ got \subseteq stmt[s].ahead
      /\ \A r \in got : /\ lock[ReservationRow(r)] = Null
                        /\ reservation[r].state = "reserved"
                        /\ reservation[r].expiresAt <= now
  BY <1>1, <1>2 DEF Fetchable, Statement, Sweeping, Free
<1>4. lock' = [x \in Rows |-> IF \E r \in got : x = ReservationRow(r) THEN s ELSE lock[x]]
  BY DEF ExpireFetch
<1>5. stmt' = [stmt EXCEPT ![s] = st]
  BY <1>1 DEF ExpireFetch, Statement
<1> HIDE DEF got
<1>6. /\ st \in Statement /\ st.op = "expire" /\ st.at = "loop" /\ st.run = stmt[s].run
      /\ st.now = now /\ st.ahead = stmt[s].ahead \ S /\ st.batch = got
      /\ st.accounts = stmt[s].accounts /\ st.reservations = stmt[s].reservations
  BY <1>1, <1>3 DEF Statement
<1> HIDE DEF st
<1>7. stmt'[s] = st
  BY <1>1, <1>5
<1>8. /\ lock' \in [Rows -> Sessions \cup {Null}]
      /\ \A x \in Rows : \/ lock'[x] = lock[x]
                         \/ lock[x] = Null /\ lock'[x] = s
  BY <1>1, <1>3, <1>4
<1>9. /\ \A x \in Rows : Mine(s, x) => Mine(s, x)'
      /\ \A r \in got : ReservationRow(r) \in Rows /\ Mine(s, ReservationRow(r))'
  BY <1>1, <1>3, <1>4, RowsDiffer DEF Mine
<1>10. Done(s)' = Done(s) /\ Fetched(s) = Done(s) /\ Fetched(s)' = got \cup Done(s)
  BY <1>1, <1>6, <1>7 DEF Done, Fetched
<1>11. /\ \A r \in Done(s) : r \in Runs /\ Mine(s, ReservationRow(r))
                             /\ reservation[r].state = "reserved"
                             /\ reservation[r].expiresAt <= now
       /\ Swept(s, now)
  BY <1>2, <1>10 DEF Sweeping
<1>12. got \cap Done(s) = {}
  BY <1>3, <1>11, LocksAssumption DEF Mine
<1>13. now' = now
  BY <1>6, <1>7
<1>14. Swept(s, now)'
  <2>1. \A d : Swept(s, d) => Swept(s, d)'
    BY <1>1, <1>6, <1>7, <1>9, SweptKept
  <2> HIDE DEF now
  <2> QED BY <1>11, <1>13, <2>1
<1>15. Sweeping(s, now)'
  <2>1. \A r \in Fetched(s)' : /\ r \in Runs /\ Mine(s, ReservationRow(r))'
                               /\ reservation'[r].state = "reserved"
                               /\ reservation'[r].expiresAt <= now
    BY <1>1, <1>3, <1>9, <1>10, <1>11, RowsDiffer
  <2>2. \A r \in stmt'[s].ahead : reservation'[r].state # "none"
                                  /\ reservation'[r].expiresAt <= now
    BY <1>1, <1>2, <1>6, <1>7 DEF Sweeping
  <2> HIDE DEF now
  <2> QED BY <1>6, <1>7, <1>10, <1>12, <1>13, <1>14, <2>1, <2>2 DEF Sweeping
<1>16. StatementInv(s)'
  BY <1>6, <1>7, <1>15 DEF StatementInv, IdleInv, ReserveInv, SettleInv, ExpireInv
<1>17. st.now <= clock /\ st \in Statement /\ UNCHANGED tables
       /\ \A t \in Sessions : t # s /\ stmt[t].op = "reserve" => st.run # stmt[t].run
  <2>1. \A t \in Sessions : t # s /\ stmt[t].op = "reserve" => st.run # stmt[t].run
    BY <1>6, NewRun
  <2> QED BY <1>1, <1>6, <2>1 DEF tables
<1> QED BY <1>5, <1>8, <1>16, <1>17, SessionStep

\* The loop of a sweep goes to its next row.
LEMMA StepExpireTake ==
  ASSUME LocksInv, NEW s \in Sessions, NEW r \in stmt[s].batch, ExpireTake(s, r)
  PROVE  LocksInv'
<1> DEFINE now == stmt[s].now
           p == reservation[r].owner
           st == [stmt[s] EXCEPT !.at = "account", !.run = r, !.principal = p,
                                 !.batch = @ \ {r}]
<1>1. /\ stmt[s] \in Statement /\ stmt \in [Sessions -> Statement] /\ now <= clock
      /\ lock \in [Rows -> Sessions \cup {Null}]
      /\ stmt[s].op = "expire" /\ stmt[s].at = "loop"
      /\ UNCHANGED <<status, account, reservation, clock, lock>>
  BY DEF LocksInv, Types, ExpireTake, At, tables
<1>2. Sweeping(s, now)
  BY <1>1 DEF LocksInv, StatementInv, ExpireInv
<1>3. /\ r \in Fetched(s) /\ r \in Runs /\ reservation[r].state = "reserved"
      /\ r \notin Done(s)
  BY <1>1, <1>2 DEF Sweeping, Fetched
<1>4. p \in Principals
  BY <1>3, LedgerFacts DEF LocksInv
<1>5. stmt' = [stmt EXCEPT ![s] = st]
  BY <1>1 DEF ExpireTake, Statement
<1> HIDE DEF p
<1>6. /\ st \in Statement /\ st.op = "expire" /\ st.at = "account" /\ st.run = r
      /\ st.now = now /\ st.ahead = stmt[s].ahead /\ st.batch = stmt[s].batch \ {r}
      /\ st.principal = p
      /\ st.accounts = stmt[s].accounts /\ st.reservations = stmt[s].reservations
  BY <1>1, <1>3, <1>4 DEF Statement, Places
<1> HIDE DEF st
<1>7. stmt'[s] = st /\ now' = now
  BY <1>1, <1>5, <1>6
<1>8. \A x \in Rows : Mine(s, x)' <=> Mine(s, x)
  BY <1>1 DEF Mine
<1>9. Done(s)' = Done(s) /\ Fetched(s)' = Fetched(s)
  BY <1>1, <1>6, <1>7 DEF Done, Fetched
<1>10. Swept(s, now)'
  <2>1. \A d : Swept(s, d) => Swept(s, d)'
    BY <1>1, <1>6, <1>7, <1>8, SweptKept
  <2> HIDE DEF now
  <2> QED BY <1>2, <1>7, <2>1 DEF Sweeping
<1>11. Sweeping(s, now)'
  <2>1. \A x \in Fetched(s)' : /\ x \in Runs /\ Mine(s, ReservationRow(x))'
                               /\ reservation'[x].state = "reserved"
                               /\ reservation'[x].expiresAt <= now
    BY <1>1, <1>2, <1>9 DEF Sweeping, Mine
  <2>2. \A x \in stmt'[s].ahead : reservation'[x].state # "none"
                                  /\ reservation'[x].expiresAt <= now
    BY <1>1, <1>2, <1>6, <1>7 DEF Sweeping
  <2>3. stmt'[s].batch \cap Done(s)' = {} /\ stmt'[s].run \notin stmt'[s].batch \cup Done(s)'
    BY <1>2, <1>3, <1>6, <1>7, <1>9 DEF Sweeping
  <2>4. stmt'[s].principal = reservation'[stmt'[s].run].owner
    BY <1>1, <1>6, <1>7 DEF p
  <2> HIDE DEF now
  <2> QED BY <1>6, <1>7, <1>10, <2>1, <2>2, <2>3, <2>4 DEF Sweeping
<1>12. StatementInv(s)'
  BY <1>6, <1>7, <1>11 DEF StatementInv, IdleInv, ReserveInv, SettleInv, ExpireInv
<1>13. st.now <= clock /\ st \in Statement /\ UNCHANGED tables
       /\ \A t \in Sessions : t # s /\ stmt[t].op = "reserve" => st.run # stmt[t].run
  <2>1. \A t \in Sessions : t # s /\ stmt[t].op = "reserve" => st.run # stmt[t].run
    BY <1>3, <1>6, NewRun
  <2> QED BY <1>1, <1>6, <2>1 DEF tables
<1> QED BY <1>1, <1>5, <1>12, <1>13, SessionStep

\* A round of the sweep's loop continues the sum of the earlier ones.
LEMMA SweepRound ==
  ASSUME LocksInv, NEW s \in Sessions, stmt[s].op = "expire", stmt[s].at = "account"
  PROVE  LET p == stmt[s].principal
             r == stmt[s].run
             now == stmt[s].now
             a == Ledger!budget_roll_periods(Read(s, p), now)
             m == reservation[r].max
         IN  /\ p \in Principals /\ r \in Runs /\ r \notin Done(s)
             /\ Ledger!HasAccount(p)
             /\ [a EXCEPT !.reserved = [w \in Ledger!Windows |->
                   IF a.reserved[w] >= m THEN a.reserved[w] - m ELSE 0]]
                  = Ledger!WithoutHolds(p, DoneOf(s, p) \cup {r}, now)
<1> DEFINE p == stmt[s].principal
           r == stmt[s].run
           now == stmt[s].now
           b == Read(s, p)
           S == DoneOf(s, p)
           m == reservation[r].max
<1>1. Sweeping(s, now) /\ stmt[s] \in Statement /\ LP!LedgerInv
  BY DEF LocksInv, Types, StatementInv, ExpireInv
<1>2. /\ r \in Fetched(s) /\ r \in Runs /\ reservation[r].state = "reserved"
      /\ r \notin Done(s) /\ p = reservation[r].owner /\ now \in LP!Times
  BY <1>1, SameSums DEF Sweeping, Fetched, Statement
<1>3. p \in Principals /\ Ledger!HasAccount(p)
  BY <1>1, <1>2, LedgerFacts
<1>4. S \in SUBSET LP!OpenHolds(p) /\ r \in LP!OpenHolds(p) \ S
  BY <1>1, <1>2 DEF DoneOf, LP!OpenHolds, Sweeping, Fetched
<1>5. b = IF S = {} THEN account[p] ELSE LP!WithoutHolds(p, S, now)
  <2>1. p \in DOMAIN stmt[s].accounts <=> S # {}
    BY <1>1 DEF Sweeping, Swept, DoneOf
  <2>2. p \in DOMAIN stmt[s].accounts => stmt[s].accounts[p] = LP!WithoutHolds(p, S, now)
    BY <1>1, SameRows DEF Sweeping, Swept
  <2> QED BY <2>1, <2>2 DEF Read
<1> HIDE DEF S, b, r, p, now, m
<1>6. LP!OneLess(LP!budget_roll_periods(b, now), reservation[r].max)
        = LP!WithoutHolds(p, S \cup {r}, now)
  BY <1>1, <1>2, <1>3, <1>4, <1>5, LedgerAssumptions, LP!SweepOne
<1> DEFINE a == Ledger!budget_roll_periods(b, now)
<1>7. LP!OneLess(a, m) = Ledger!WithoutHolds(p, S \cup {r}, now)
  BY <1>6, SameRows DEF m
<1> HIDE DEF a
<1>8. [a EXCEPT !.reserved = [w \in Ledger!Windows |->
         IF a.reserved[w] >= m THEN a.reserved[w] - m ELSE 0]]
        = Ledger!WithoutHolds(p, S \cup {r}, now)
  BY <1>7, SameSums DEF LP!OneLess
<1> QED BY <1>2, <1>3, <1>8 DEF p, r, now, b, S, m, a

\* A round of the sweep's loop: the hold is done and its account is less by it.
LEMMA StepExpireAccount ==
  ASSUME LocksInv, NEW s \in Sessions, ExpireAccount(s)
  PROVE  LocksInv'
<1> DEFINE p == stmt[s].principal
           r == stmt[s].run
           now == stmt[s].now
           S == DoneOf(s, p)
           row == Ledger!WithoutHolds(p, S \cup {r}, now)
           hold == [reservation[r] EXCEPT !.state = "expired", !.settledAt = now]
           A == With(stmt[s].accounts, p, row)
           R == With(stmt[s].reservations, r, hold)
           st == [stmt[s] EXCEPT !.at = "loop", !.accounts = A, !.reservations = R]
<1>1. /\ stmt[s] \in Statement /\ stmt[s].op = "expire" /\ stmt[s].at = "account"
      /\ Free(AccountRow(p)) \/ Mine(s, AccountRow(p))
      /\ Ledger!TypeOK
  BY LedgerFacts DEF LocksInv, Types, ExpireAccount, At
<1>2. /\ p \in Principals /\ r \in Runs /\ r \notin Done(s) /\ Ledger!HasAccount(p)
      /\ LET a == Ledger!budget_roll_periods(Read(s, p), now)
             m == reservation[r].max
         IN  [a EXCEPT !.reserved = [w \in Ledger!Windows |->
                IF a.reserved[w] >= m THEN a.reserved[w] - m ELSE 0]] = row
  BY <1>1, SweepRound
<1>3. Sweeping(s, now) /\ p = reservation[r].owner /\ r \in Fetched(s)
      /\ r \notin stmt[s].batch
  BY <1>1 DEF LocksInv, StatementInv, ExpireInv, Sweeping, Fetched
<1>4. Locks(s, AccountRow(p), st)
  <2> HIDE DEF row
  <2> QED BY <1>2 DEF ExpireAccount
<1>5. A \in Accounts /\ R \in Reservations
  <2>1. row \in Ledger!AccountRow
    <3>1. S \cup {r} \in SUBSET Runs /\ now \in LP!Times /\ LP!TypeOK
      BY <1>1, <1>2, SameSums, SameLedger, VersionTypes DEF DoneOf, Done, Statement
    <3> HIDE DEF S, now
    <3>2. LP!WithoutHolds(p, S \cup {r}, now) \in LP!AccountRow
      BY <1>2, <3>1, LedgerAssumptions, LP!WithoutHoldsType
    <3> QED BY <3>2, SameRows, SameSums
  <2>2. hold \in Ledger!ReservationRow
    <3>1. reservation[r] \in Ledger!ReservationRow /\ now \in Ledger!Times
      BY <1>1, <1>2 DEF Ledger!TypeOK, Statement
    <3> QED BY <3>1 DEF Ledger!ReservationRow, Ledger!ReservationState
  <2>3. stmt[s].accounts \in Accounts /\ stmt[s].reservations \in Reservations
    BY <1>1 DEF Statement
  <2> HIDE DEF row, hold
  <2> QED BY <1>2, <2>1, <2>2, <2>3, VersionTypes
<1> HIDE DEF row, hold
<1>6. /\ DOMAIN A = DOMAIN stmt[s].accounts \cup {p} /\ A[p] = row
      /\ \A q \in DOMAIN stmt[s].accounts : q # p => A[q] = stmt[s].accounts[q]
  BY DEF With
<1>7. /\ DOMAIN R = Done(s) \cup {r} /\ R[r] = hold
      /\ \A x \in Done(s) : x # r => R[x] = stmt[s].reservations[x]
  BY DEF With, Done
<1> HIDE DEF A, R
<1>8. /\ st \in Statement /\ st.op = "expire" /\ st.at = "loop"
      /\ st.run = r /\ st.now = now /\ st.ahead = stmt[s].ahead
      /\ st.batch = stmt[s].batch /\ st.accounts = A /\ st.reservations = R
  BY <1>1, <1>5 DEF Statement, Places
<1>9. AccountRow(p) \in Rows
  BY <1>2, RowsDiffer
<1> HIDE DEF st
<1>10. /\ stmt'[s] = st /\ UNCHANGED <<status, account, reservation, clock>>
       /\ \A y \in Rows : Mine(s, y)' <=> Mine(s, y) \/ y = AccountRow(p)
       /\ StatementInv(s)' => LocksInv'
  BY <1>1, <1>4, <1>8, <1>9, StepLocks
<1>11. /\ now' = now /\ Done(s)' = Done(s) \cup {r} /\ Fetched(s)' = Fetched(s)
       /\ Done(s) \subseteq Fetched(s) /\ Done(s) \subseteq Runs
       /\ DOMAIN stmt[s].accounts \subseteq Principals
  BY <1>1, <1>7, <1>8, <1>10, VersionTypes DEF Done, Fetched, Statement
<1> DEFINE Q == DOMAIN stmt[s].accounts
<1>12. Swept(s, now)
  BY <1>3 DEF Sweeping
<1>13. DOMAIN stmt'[s].accounts = {reservation'[x].owner : x \in Done(s)'}
  <2>1. Q = {reservation[x].owner : x \in Done(s)}
    BY <1>12 DEF Swept
  <2>2. stmt'[s].accounts = A /\ DOMAIN A = Q \cup {p} /\ reservation' = reservation
    BY <1>6, <1>8, <1>10
  <2> DEFINE D == Done(s)
  <2>3. Q = {reservation[x].owner : x \in D} /\ Done(s)' = D \cup {r}
    BY <1>11, <2>1
  <2> HIDE DEF D, Q
  <2> QED BY <1>3, <2>2, <2>3
<1>14. ASSUME NEW x \in Done(s)'
       PROVE  stmt'[s].reservations[x] =
                [reservation'[x] EXCEPT !.state = "expired", !.settledAt = now]
  <2>1. CASE x = r
    BY <1>7, <1>8, <1>10, <2>1 DEF hold
  <2>2. CASE x # r
    <3>1. x \in Done(s) /\ stmt'[s].reservations[x] = stmt[s].reservations[x]
      BY <1>7, <1>8, <1>10, <1>11, <2>2
    <3> QED BY <1>10, <1>12, <3>1 DEF Swept
  <2> QED BY <2>1, <2>2
<1>15. ASSUME NEW q \in DOMAIN stmt'[s].accounts
       PROVE  /\ Mine(s, AccountRow(q))'
              /\ stmt'[s].accounts[q] = Ledger!WithoutHolds(q, DoneOf(s, q), now)'
  <2>1. q \in Q \cup {p} /\ q \in Principals /\ AccountRow(q) \in Rows
        /\ stmt'[s].accounts = A
    BY <1>2, <1>6, <1>8, <1>10, <1>11, RowsDiffer
  <2>2. Mine(s, AccountRow(q))'
    <3>1. q # p => Mine(s, AccountRow(q))
      BY <1>12, <2>1 DEF Swept
    <3>2. Mine(s, AccountRow(q)) \/ AccountRow(q) = AccountRow(p)
      BY <3>1
    <3> QED BY <1>10, <2>1, <3>2
  <2> DEFINE U == DoneOf(s, q)
  <2>3. U' = IF q = p THEN U \cup {r} ELSE U
    BY <1>3, <1>10, <1>11 DEF DoneOf
  <2>4. U \in SUBSET Runs /\ U \cup {r} \in SUBSET Runs
    BY <1>2, <1>11 DEF DoneOf
  <2>5. \A V \in SUBSET Runs : \A d : Ledger!WithoutHolds(q, V, d)' = Ledger!WithoutHolds(q, V, d)
    BY <1>10, WithoutHoldsKept
  <2>6. A[q] = IF q = p THEN Ledger!WithoutHolds(q, U \cup {r}, now)
               ELSE Ledger!WithoutHolds(q, U, now)
    <3>1. CASE q = p
      BY <1>6, <3>1 DEF row
    <3>2. CASE q # p
      BY <1>6, <1>12, <2>1, <3>2 DEF Swept
    <3> QED BY <3>1, <3>2
  <2> HIDE DEF U, now
  <2>7. A[q] = Ledger!WithoutHolds(q, U, now)'
    BY <1>11, <2>3, <2>4, <2>5, <2>6
  <2> QED BY <2>1, <2>2, <2>7 DEF U
<1>16. Swept(s, now)'
  <2> HIDE DEF now
  <2> QED BY <1>11, <1>13, <1>14, <1>15 DEF Swept
<1>17. Sweeping(s, now)'
  <2>1. \A x \in Fetched(s)' : /\ x \in Runs /\ Mine(s, ReservationRow(x))'
                               /\ reservation'[x].state = "reserved"
                               /\ reservation'[x].expiresAt <= now
    BY <1>3, <1>10, <1>11, RowsDiffer DEF Sweeping
  <2>2. \A x \in stmt'[s].ahead : reservation'[x].state # "none"
                                  /\ reservation'[x].expiresAt <= now
    BY <1>3, <1>8, <1>10 DEF Sweeping
  <2>3. stmt'[s].batch \cap Done(s)' = {} /\ stmt'[s].at = "loop"
    BY <1>3, <1>8, <1>10, <1>11 DEF Sweeping
  <2> HIDE DEF now
  <2> QED BY <1>11, <1>16, <2>1, <2>2, <2>3 DEF Sweeping
<1>18. StatementInv(s)'
  BY <1>8, <1>10, <1>17 DEF StatementInv, IdleInv, ReserveInv, SettleInv, ExpireInv
<1> QED BY <1>10, <1>18

-----------------------------------------------------------------------------
(***************************************************************************)
(* The commit of a statement is one step of the ledger.                    *)
(***************************************************************************)

\* The time of a statement in progress is one that the ledger allows.
LEMMA TimeAllowed ==
  ASSUME LocksInv, NEW s \in Sessions
  PROVE  stmt[s].now \in Ledger!StatementTimes /\ stmt[s].now \in Ledger!Times
<1>1. stmt[s].now \in Ledger!Times /\ stmt[s].now <= clock /\ clock \in Ledger!Times
  BY LedgerFacts DEF LocksInv, Types, Statement, Ledger!TypeOK
<1>2. MaxClock \in Nat /\ MaxLag \in Nat /\ MaxLag >= MaxClock
  BY LocksAssumption DEF Ledger!ConstantsAssumption
<1>3. clock <= stmt[s].now + MaxLag
  BY <1>1, <1>2 DEF Ledger!Times
<1> QED BY <1>1, <1>3 DEF Ledger!StatementTimes

\* reserve_budget commits.
LEMMA CommitReserve ==
  ASSUME LocksInv, NEW s \in Sessions, Commit(s), stmt[s].op = "reserve"
  PROVE  Ledger!Next
<1> DEFINE p == stmt[s].principal
           r == stmt[s].run
           m == stmt[s].micros
           now == stmt[s].now
<1>1. stmt[s].at = "end" /\ Reserving(s, p, r, m, now)
  BY DEF Commit, Finished, At, LocksInv, StatementInv, ReserveInv
<1>2. /\ p \in Principals /\ r \in Runs /\ m \in 1..MaxMicros
      /\ reservation[r].state = "none" /\ Ledger!Reservable(p, m, now)
      /\ Writes(s, {p}, {r}) /\ stmt[s].accounts[p] = HeldRow(p, m, now)
      /\ stmt[s].reservations[r] = NewHold(p, m, now)
  BY <1>1 DEF Reserving
<1>3. account \in [Principals -> Ledger!AccountRow]
      /\ reservation \in [Runs -> Ledger!ReservationRow]
  BY LedgerFacts DEF LocksInv, Ledger!TypeOK
<1>4. account' = [account EXCEPT ![p] = HeldRow(p, m, now)]
  <2>1. account' = [q \in Principals |-> Read(s, q)]
    BY DEF Commit
  <2>2. \A q \in Principals : Read(s, q) = IF q = p THEN HeldRow(p, m, now) ELSE account[q]
    BY <1>2 DEF Read, Writes
  <2> HIDE DEF p, m, now
  <2> QED BY <1>2, <1>3, <2>1, <2>2
<1>5. reservation' = [reservation EXCEPT ![r] = NewHold(p, m, now)]
  <2>1. reservation' = [x \in Runs |-> IF x = r THEN NewHold(p, m, now) ELSE reservation[x]]
    BY <1>2 DEF Commit, Writes
  <2> HIDE DEF p, m, now, r
  <2> QED BY <1>2, <1>3, <2>1
<1>6. UNCHANGED <<status, clock>>
  BY DEF Commit
<1>7. Ledger!reserve_budget(p, r, m, now)
  <2> HIDE DEF p, r, m, now
  <2> QED BY <1>2, <1>4, <1>5, <1>6 DEF Ledger!reserve_budget, HeldRow, NewHold
<1>8. now \in Ledger!StatementTimes
  BY TimeAllowed
<1> HIDE DEF p, r, m, now
<1> QED BY <1>2, <1>7, <1>8 DEF Ledger!Next

\* settle_budget commits.  An amount beyond every hold is one that asks for the
\* whole hold.
LEMMA CommitSettle ==
  ASSUME LocksInv, NEW s \in Sessions, Commit(s), stmt[s].op = "settle"
  PROVE  Ledger!Next
<1> DEFINE p == stmt[s].principal
           r == stmt[s].run
           m == stmt[s].micros
           now == stmt[s].now
           c == Ledger!Charge(r, m)
<1>1. stmt[s].at = "end" /\ Settling(s, p, r, c, now) /\ m \in Nat \cup {Null}
  BY DEF Commit, Finished, At, LocksInv, StatementInv, SettleInv, Types, Statement
<1>2. /\ p \in Principals /\ r \in Runs /\ p = reservation[r].owner
      /\ Ledger!Settleable(r)
      /\ Writes(s, {p}, {r}) /\ stmt[s].accounts[p] = SettledRow(p, r, c, now)
      /\ stmt[s].reservations[r] = SettledHold(r, c, now)
  BY <1>1 DEF Settling
<1>3. account \in [Principals -> Ledger!AccountRow]
      /\ reservation \in [Runs -> Ledger!ReservationRow]
  BY LedgerFacts DEF LocksInv, Ledger!TypeOK
<1> HIDE DEF c
<1>4. account' = [account EXCEPT ![p] = SettledRow(p, r, c, now)]
  <2>1. account' = [q \in Principals |-> Read(s, q)]
    BY DEF Commit
  <2>2. \A q \in Principals :
          Read(s, q) = IF q = p THEN SettledRow(p, r, c, now) ELSE account[q]
    BY <1>2 DEF Read, Writes
  <2> HIDE DEF p, r, now
  <2> QED BY <1>2, <1>3, <2>1, <2>2
<1>5. reservation' = [reservation EXCEPT ![r] = SettledHold(r, c, now)]
  <2>1. reservation' = [x \in Runs |-> IF x = r THEN SettledHold(r, c, now) ELSE reservation[x]]
    BY <1>2 DEF Commit, Writes
  <2> HIDE DEF p, m, now, r
  <2> QED BY <1>2, <1>3, <2>1
<1>6. UNCHANGED <<status, clock>>
  BY DEF Commit
<1>7. PICK x \in (0..MaxMicros) \cup {Null} : Ledger!Charge(r, x) = c
  <2> DEFINE h == reservation[r].max
  <2>1. h \in 0..MaxMicros /\ MaxMicros \in Nat
    BY <1>2, <1>3, LocksAssumption DEF Ledger!ReservationRow, Ledger!ConstantsAssumption
  <2>2. c = IF m = Null \/ m > h THEN h ELSE m
    BY DEF c, Ledger!Charge
  <2>3. Ledger!Charge(r, Null) = h
    BY DEF Ledger!Charge
  <2>4. CASE m = Null \/ m > h
    BY <2>2, <2>3, <2>4
  <2>5. CASE ~(m = Null \/ m > h)
    <3>1. m \in 0..MaxMicros
      BY <1>1, <2>1, <2>5
    <3> QED BY <3>1 DEF c
  <2> QED BY <2>4, <2>5
<1>8. Ledger!settle_budget(r, x, now)
  <2> HIDE DEF p, r, m, now
  <2> QED BY <1>2, <1>4, <1>5, <1>6, <1>7
          DEF Ledger!settle_budget, SettledRow, SettledHold
<1>9. now \in Ledger!StatementTimes
  BY TimeAllowed
<1> HIDE DEF p, r, m, now
<1> QED BY <1>2, <1>7, <1>8, <1>9 DEF Ledger!Next

\* A sweep commits: one step for all its holds, or none when it found none.
LEMMA CommitExpire ==
  ASSUME LocksInv, NEW s \in Sessions, Commit(s), stmt[s].op = "expire"
  PROVE  [Ledger!Next]_(Ledger!vars)
<1> DEFINE now == stmt[s].now
           D == Done(s)
           Q == DOMAIN stmt[s].accounts
<1>1. stmt[s] \in Statement /\ Sweeping(s, now)
  BY DEF LocksInv, Types, StatementInv, ExpireInv
<1>2. /\ D \subseteq Ledger!Expirable(now) /\ D \subseteq Runs /\ Q \subseteq Principals
      /\ Q = {reservation[r].owner : r \in D}
      /\ \A q \in Q : stmt[s].accounts[q] = Ledger!WithoutHolds(q, DoneOf(s, q), now)
      /\ \A r \in D : stmt[s].reservations[r] =
           [reservation[r] EXCEPT !.state = "expired", !.settledAt = now]
  <2>1. D \subseteq Runs /\ Q \subseteq Principals /\ D \subseteq Fetched(s)
    BY <1>1, VersionTypes DEF Done, Fetched, Statement
  <2>2. D \subseteq Ledger!Expirable(now)
    BY <1>1, <2>1 DEF Sweeping, Ledger!Expirable
  <2> QED BY <1>1, <2>1, <2>2 DEF Sweeping, Swept
<1>3. account \in [Principals -> Ledger!AccountRow]
      /\ reservation \in [Runs -> Ledger!ReservationRow]
  BY LedgerFacts DEF LocksInv, Ledger!TypeOK
<1>4. \A q \in Principals : D \cap Ledger!OpenHolds(q) = DoneOf(s, q)
  BY <1>2 DEF DoneOf, Ledger!OpenHolds, Ledger!Expirable
<1>5. \A q \in Principals : q \in Q <=> DoneOf(s, q) # {}
  BY <1>2 DEF DoneOf
<1>6. account' = [q \in Principals |->
        IF D \cap Ledger!OpenHolds(q) = {} THEN account[q]
        ELSE Ledger!WithoutHolds(q, D \cap Ledger!OpenHolds(q), now)]
  <2>1. account' = [q \in Principals |-> Read(s, q)]
    BY DEF Commit
  <2>2. ASSUME NEW q \in Principals
        PROVE  Read(s, q) = IF DoneOf(s, q) = {} THEN account[q]
                            ELSE Ledger!WithoutHolds(q, DoneOf(s, q), now)
    BY <1>2, <1>5 DEF Read
  <2> QED BY <1>4, <2>1, <2>2
<1>7. reservation' = [r \in Runs |->
        IF r \in D THEN [reservation[r] EXCEPT !.state = "expired", !.settledAt = now]
        ELSE reservation[r]]
  <2>1. reservation' = [r \in Runs |-> IF r \in D THEN stmt[s].reservations[r]
                                       ELSE reservation[r]]
    BY DEF Commit, Done
  <2> QED BY <1>2, <2>1
<1>8. UNCHANGED <<status, clock>>
  BY DEF Commit
<1> HIDE DEF D, now
<1>9. CASE D = {}
  <2>1. account' = [q \in Principals |-> account[q]]
    BY <1>6, <1>9
  <2>2. reservation' = [r \in Runs |-> reservation[r]]
    BY <1>7, <1>9
  <2>3. account' = account /\ reservation' = reservation
    BY <1>3, <2>1, <2>2
  <2> QED BY <1>8, <2>3 DEF Ledger!vars
<1>10. CASE D # {}
  <2>1. Ledger!expire_budget_reservations(D, now)
    BY <1>2, <1>6, <1>7, <1>8, <1>10 DEF Ledger!expire_budget_reservations
  <2>2. now \in Ledger!StatementTimes
    BY TimeAllowed DEF now
  <2> QED BY <1>2, <2>1, <2>2 DEF Ledger!Next
<1> QED BY <1>9, <1>10

\* A commit changes rows that the statement has locked, and the new row of a
\* reservation's own run.
LEMMA CommitFrame ==
  ASSUME LocksInv, NEW s \in Sessions, Commit(s)
  PROVE  /\ \A p \in Principals : Mine(s, AccountRow(p)) \/ account'[p] = account[p]
         /\ \A r \in Runs :
              \/ reservation'[r] = reservation[r]
              \/ /\ Mine(s, ReservationRow(r)) /\ reservation[r].state = "reserved"
                 /\ reservation'[r].state # "none"
                 /\ reservation'[r].expiresAt = reservation[r].expiresAt
              \/ /\ stmt[s].op = "reserve" /\ stmt[s].run = r
                 /\ reservation[r].state = "none"
<1> DEFINE A == stmt[s].accounts
           R == stmt[s].reservations
           p == stmt[s].principal
           r == stmt[s].run
           now == stmt[s].now
<1>1. stmt[s] \in Statement /\ StatementInv(s)
  BY DEF LocksInv, Types
<1>2. /\ \A q \in Principals : account'[q] = IF q \in DOMAIN A THEN A[q] ELSE account[q]
      /\ \A x \in Runs : reservation'[x] = IF x \in DOMAIN R THEN R[x] ELSE reservation[x]
  BY DEF Commit, Read
<1>3. \A x \in Runs : reservation[x] \in Ledger!ReservationRow
  BY LedgerFacts DEF LocksInv, Ledger!TypeOK
<1> SUFFICES /\ \A q \in DOMAIN A : Mine(s, AccountRow(q))
             /\ \A x \in DOMAIN R :
                  \/ /\ Mine(s, ReservationRow(x)) /\ reservation[x].state = "reserved"
                     /\ R[x].state # "none" /\ R[x].expiresAt = reservation[x].expiresAt
                  \/ stmt[s].op = "reserve" /\ r = x /\ reservation[x].state = "none"
  BY <1>2
<1>4. CASE stmt[s].op = "none"
  BY <1>1, <1>4 DEF StatementInv, IdleInv, Writes
<1>5. CASE stmt[s].op = "reserve"
  <2>1. Reserving(s, p, r, stmt[s].micros, now) /\ stmt[s].at = "end"
    BY <1>1, <1>5 DEF StatementInv, ReserveInv, Commit, Finished, At
  <2>2. DOMAIN A = {p} /\ DOMAIN R = {r} /\ Mine(s, AccountRow(p))
        /\ reservation[r].state = "none"
    BY <2>1 DEF Reserving, Writes
  <2> QED BY <1>5, <2>2
<1>6. CASE stmt[s].op = "settle"
  <2> DEFINE c == Ledger!Charge(r, stmt[s].micros)
  <2>1. Settling(s, p, r, c, now) /\ stmt[s].at = "end"
    BY <1>1, <1>6 DEF StatementInv, SettleInv, Commit, Finished, At
  <2> HIDE DEF c
  <2>2. /\ DOMAIN A = {p} /\ DOMAIN R = {r} /\ Mine(s, AccountRow(p))
        /\ Mine(s, ReservationRow(r)) /\ reservation[r].state = "reserved" /\ r \in Runs
        /\ R[r] = SettledHold(r, c, now)
    BY <2>1 DEF Settling, Writes, Ledger!Settleable
  <2>3. R[r].state = "settled" /\ R[r].expiresAt = reservation[r].expiresAt
    BY <1>3, <2>2 DEF SettledHold, Ledger!ReservationRow
  <2> QED BY <2>2, <2>3
<1>7. CASE stmt[s].op = "expire"
  <2>1. Sweeping(s, now)
    BY <1>1, <1>7 DEF StatementInv, ExpireInv
  <2>2. \A q \in DOMAIN A : Mine(s, AccountRow(q))
    BY <2>1 DEF Sweeping, Swept
  <2>3. ASSUME NEW x \in DOMAIN R
        PROVE  /\ Mine(s, ReservationRow(x)) /\ reservation[x].state = "reserved"
               /\ R[x].state # "none" /\ R[x].expiresAt = reservation[x].expiresAt
    <3>1. /\ Mine(s, ReservationRow(x)) /\ reservation[x].state = "reserved"
          /\ x \in Runs
          /\ R[x] = [reservation[x] EXCEPT !.state = "expired", !.settledAt = now]
      BY <2>1 DEF Sweeping, Swept, Fetched, Done
    <3>2. reservation[x] \in Ledger!ReservationRow
      BY <1>3, <3>1
    <3> QED BY <3>1, <3>2 DEF Ledger!ReservationRow
  <2> QED BY <2>2, <2>3
<1> QED BY <1>1, <1>4, <1>5, <1>6, <1>7 DEF Statement, Ops

\* A step of the ledger keeps the ledger's invariant.
LEMMA LedgerKept ==
  ASSUME LP!LedgerInv, [Ledger!Next]_(Ledger!vars)
  PROVE  LP!LedgerInv'
<1>1. [LP!Next]_(LP!vars)
  BY SameLedger DEF LP!vars, Ledger!vars
<1> QED BY <1>1, LedgerAssumptions, LP!LedgerStep

\* A commit is a step of the ledger and keeps the invariant.
LEMMA StepCommit ==
  ASSUME LocksInv, NEW s \in Sessions, Commit(s)
  PROVE  LocksInv' /\ [Ledger!Next]_(Ledger!vars)
<1>1. [Ledger!Next]_(Ledger!vars)
  <2>1. stmt[s].op \in Ops /\ stmt[s].op # "none"
    BY DEF LocksInv, Types, Statement, StatementInv, IdleInv, Commit, Finished, At
  <2> QED BY <2>1, CommitReserve, CommitSettle, CommitExpire DEF Ops
<1>2. Types /\ (\A t \in Sessions : StatementInv(t)) /\ LP!LedgerInv
  BY DEF LocksInv
<1>3. /\ stmt' = [stmt EXCEPT ![s] = Idle] /\ UNCHANGED <<status, clock>>
      /\ lock' = [x \in Rows |-> IF Mine(s, x) THEN Null ELSE lock[x]]
  BY DEF Commit, Ends
<1>4. /\ stmt'[s] = Idle /\ \A t \in Sessions : t # s => stmt'[t] = stmt[t]
      /\ \A x \in Rows : lock'[x] = IF lock[x] = s THEN Null ELSE lock[x]
  BY <1>2, <1>3 DEF Types, Mine
<1>5. Types'
  <2>1. clock \in Nat
    BY <1>2, LedgerFacts, LocksAssumption
       DEF Ledger!TypeOK, Ledger!Times, Ledger!ConstantsAssumption
  <2> QED BY <1>2, <1>3, <1>4, <2>1, IdleStatement DEF Types
<1>6. StatementInv(s)'
  <2>1. \A x \in Rows : ~Mine(s, x)'
    BY <1>4, LocksAssumption DEF Mine
  <2> QED BY <1>4, <2>1, IdleStatement
          DEF StatementInv, IdleInv, ReserveInv, SettleInv, ExpireInv, Writes
<1>7. ASSUME NEW t \in Sessions, t # s PROVE StatementInv(t)'
  <2>1. \A x \in Rows : lock'[x] = t <=> lock[x] = t
    BY <1>4, <1>7, LocksAssumption
  <2>2. \A p \in Principals : Mine(s, AccountRow(p)) \/ account'[p] = account[p]
    BY CommitFrame
  <2>3. \A r \in Runs :
          \/ reservation'[r] = reservation[r]
          \/ /\ Mine(s, ReservationRow(r)) /\ reservation[r].state = "reserved"
             /\ reservation'[r].state # "none"
             /\ reservation'[r].expiresAt = reservation[r].expiresAt
          \/ /\ stmt[s].op = "reserve" /\ stmt[s].run = r
             /\ reservation[r].state = "none"
    BY CommitFrame
  <2>4. \A p \in Principals : lock[AccountRow(p)] = t => account'[p] = account[p]
    BY <1>7, <2>2 DEF Mine
  <2>5. \A r \in Runs : lock[ReservationRow(r)] = t /\ reservation[r].state = "reserved"
                        => reservation'[r] = reservation[r]
    BY <1>7, <2>3 DEF Mine
  <2>6. \A r \in Runs : reservation[r].state # "none" =>
          /\ reservation'[r].state # "none"
          /\ reservation'[r].expiresAt = reservation[r].expiresAt
    BY <2>3
  <2>7. \A r \in Runs : stmt[t].op = "reserve" /\ stmt[t].run = r =>
          /\ reservation[r].state = "none" => reservation'[r].state = "none"
          /\ \A u \in Sessions : u # t => stmt'[u].run # r
    <3> SUFFICES ASSUME NEW r \in Runs, stmt[t].op = "reserve", stmt[t].run = r
                 PROVE  /\ reservation[r].state = "none" => reservation'[r].state = "none"
                        /\ \A u \in Sessions : u # t => stmt'[u].run # r
      OBVIOUS
    <3>1. reservation[r].state = "none" /\ \A u \in Sessions : u # t => stmt[u].run # r
      BY NewRun
    <3> QED BY <1>4, <1>7, <2>3, <3>1, IdleStatement, LocksAssumption
  <2> QED BY <1>2, <1>3, <1>4, <1>7, <2>1, <2>4, <2>5, <2>6, <2>7, StatementKept
<1> QED BY <1>1, <1>2, <1>5, <1>6, <1>7, LedgerKept DEF LocksInv

-----------------------------------------------------------------------------
(***************************************************************************)
(* The operator's statements, and the theorems.                            *)
(***************************************************************************)

\* The operator's statements and the clock leave what is locked alone.
LEMMA StepOperate ==
  ASSUME LocksInv, Operate
  PROVE  LocksInv' /\ Ledger!Next
<1>1. Types /\ (\A t \in Sessions : StatementInv(t)) /\ LP!LedgerInv /\ Ledger!TypeOK
  BY LedgerFacts DEF LocksInv
<1>2. UNCHANGED <<stmt, lock>>
  BY DEF Operate
<1>3. clock \in Ledger!StatementTimes /\ clock \in Nat
  BY <1>1, LocksAssumption
     DEF Ledger!TypeOK, Ledger!StatementTimes, Ledger!Times, Ledger!ConstantsAssumption
<1>4. ASSUME Ledger!Next, reservation' = reservation, clock' >= clock, clock' \in Int,
             \A p \in Principals : /\ Free(AccountRow(p)) \/ account'[p] = account[p]
                                   /\ Free(PrincipalRow(p)) \/ status[p] # "active"
                                      \/ status'[p] = "active"
      PROVE  LocksInv'
  <2>1. Types'
    <3>1. \A t \in Sessions : stmt[t].now \in Int /\ stmt[t].now <= clock
      BY <1>1 DEF Types, Statement, Ledger!Times
    <3>2. \A t \in Sessions : stmt'[t].now <= clock'
      BY <1>2, <1>3, <1>4, <3>1
    <3> QED BY <1>1, <1>2, <3>2 DEF Types
  <2>2. ASSUME NEW t \in Sessions PROVE StatementInv(t)'
    <3>1. t # Null /\ StatementInv(t) /\ stmt'[t] = stmt[t] /\ lock' = lock
      BY <1>1, <1>2, LocksAssumption
    <3>2. /\ \A p \in Principals : lock[PrincipalRow(p)] = t /\ status[p] = "active"
                                   => status'[p] = "active"
          /\ \A p \in Principals : lock[AccountRow(p)] = t => account'[p] = account[p]
      BY <1>4, <3>1 DEF Free
    <3>3. \A r \in Runs : stmt[t].op = "reserve" /\ stmt[t].run = r =>
            /\ reservation[r].state = "none" => reservation'[r].state = "none"
            /\ \A u \in Sessions : u # t => stmt'[u].run # r
      BY <1>2, <1>4, NewRun
    <3> QED BY <1>1, <1>4, <3>1, <3>2, <3>3, StatementKept
  <2>3. LP!LedgerInv'
    BY <1>1, <1>4, LedgerKept
  <2> QED BY <2>1, <2>2, <2>3 DEF LocksInv
<1>5. ASSUME NEW p \in Principals, Ledger!admin_create_principal(p)
      PROVE  LocksInv' /\ Ledger!Next
  <2>1. Ledger!Next
    BY <1>5 DEF Ledger!Next
  <2>2. /\ status[p] = "none" /\ status' = [status EXCEPT ![p] = "active"]
        /\ UNCHANGED <<account, reservation, clock>>
    BY <1>5 DEF Ledger!admin_create_principal
  <2>3. \A q \in Principals : status[q] # "active" \/ status'[q] = "active"
    BY <1>1, <2>2 DEF Ledger!TypeOK
  <2> QED BY <1>3, <1>4, <2>1, <2>2, <2>3
<1>6. ASSUME NEW p \in Principals, Free(PrincipalRow(p)), Ledger!DisablePrincipal(p)
      PROVE  LocksInv' /\ Ledger!Next
  <2>1. Ledger!Next
    BY <1>6 DEF Ledger!Next
  <2>2. /\ status' = [status EXCEPT ![p] = "disabled"]
        /\ UNCHANGED <<account, reservation, clock>>
    BY <1>6 DEF Ledger!DisablePrincipal
  <2>3. \A q \in Principals : q = p \/ status'[q] = status[q]
    BY <1>1, <2>2 DEF Ledger!TypeOK
  <2> QED BY <1>3, <1>4, <1>6, <2>1, <2>2, <2>3
<1>7. ASSUME NEW p \in Principals, NEW l \in Limits, Free(AccountRow(p)),
             Ledger!admin_set_budget(p, l[1], l[2], clock)
      PROVE  LocksInv' /\ Ledger!Next
  <2>1. l[1] \in 1..MaxLimit /\ l[2] \in 1..MaxLimit
    BY LocksAssumption
  <2>2. Ledger!Next
    BY <1>3, <1>7, <2>1 DEF Ledger!Next
  <2>3. UNCHANGED <<status, reservation, clock>>
    BY <1>7 DEF Ledger!admin_set_budget
  <2>4. \A q \in Principals : q = p \/ account'[q] = account[q]
    BY <1>1, <1>7 DEF Ledger!TypeOK, Ledger!admin_set_budget
  <2> QED BY <1>3, <1>4, <1>7, <2>2, <2>3, <2>4
<1>8. ASSUME Ledger!Tick PROVE LocksInv' /\ Ledger!Next
  <2>1. Ledger!Next
    BY <1>8 DEF Ledger!Next
  <2>2. clock' = clock + 1 /\ UNCHANGED <<status, account, reservation>>
    BY <1>8 DEF Ledger!Tick
  <2> QED BY <1>3, <1>4, <2>1, <2>2
<1> QED BY <1>5, <1>6, <1>7, <1>8 DEF Operate

\* Before the first statement.
LEMMA LocksInit == Init => LocksInv
<1> SUFFICES ASSUME Init PROVE LocksInv
  OBVIOUS
<1>1. LP!LedgerInv
  BY SameLedger, LedgerAssumptions, LP!LedgerInit DEF Init
<1>2. /\ \A s \in Sessions : stmt[s] = Idle
      /\ \A x \in Rows : lock[x] = Null
      /\ clock = 0
  BY DEF Init, Ledger!Init
<1>3. Types
  BY <1>2, IdleStatement DEF Init, Types
<1>4. ASSUME NEW s \in Sessions PROVE StatementInv(s)
  BY <1>2, IdleStatement, LocksAssumption
     DEF StatementInv, IdleInv, ReserveInv, SettleInv, ExpireInv, Writes, Mine
<1> QED BY <1>1, <1>3, <1>4 DEF LocksInv

\* Every step keeps the invariant, and is a step of the ledger or none.
LEMMA LocksStep ==
  LocksInv /\ [Next]_vars => LocksInv' /\ [Ledger!Next]_(Ledger!vars)
<1> SUFFICES ASSUME LocksInv, [Next]_vars
             PROVE  LocksInv' /\ [Ledger!Next]_(Ledger!vars)
  OBVIOUS
<1>1. UNCHANGED tables => [Ledger!Next]_(Ledger!vars)
  BY DEF tables, Ledger!vars
<1>2. ASSUME NEW s \in Sessions, Begin(s)
      PROVE  LocksInv' /\ UNCHANGED tables
  <2>1. LocksInv'
    BY <1>2, StepBeginReserve, StepBeginSettle, StepBeginExpire DEF Begin
  <2> QED BY <1>2, <2>1 DEF Begin, BeginReserve, BeginSettle, BeginExpire
<1>3. ASSUME NEW s \in Sessions, Reserve(s)
      PROVE  LocksInv' /\ UNCHANGED tables
  <2>1. LocksInv'
    BY <1>3, StepReservePrincipal, StepReserveAccount DEF Reserve
  <2>2. UNCHANGED tables
    BY <1>3 DEF Reserve, ReservePrincipal, ReserveAccount, Raise, Locks
  <2> QED BY <2>1, <2>2
<1>4. ASSUME NEW s \in Sessions, Settle(s)
      PROVE  LocksInv' /\ UNCHANGED tables
  <2>1. LocksInv'
    BY <1>4, StepSettleReservation, StepSettleAccount DEF Settle
  <2>2. UNCHANGED tables
    BY <1>4 DEF Settle, SettleReservation, SettleAccount, Raise, Locks
  <2> QED BY <2>1, <2>2
<1>5. ASSUME NEW s \in Sessions, Expire(s)
      PROVE  LocksInv' /\ UNCHANGED tables
  <2>1. LocksInv'
    BY <1>5, StepExpireFetch, StepExpireTake, StepExpireAccount DEF Expire
  <2>2. UNCHANGED tables
    BY <1>5 DEF Expire, ExpireFetch, ExpireTake, ExpireAccount, Locks
  <2> QED BY <2>1, <2>2
<1>6. ASSUME NEW s \in Sessions, DeadlockVictim(s) \/ Cancel(s)
      PROVE  LocksInv' /\ UNCHANGED tables
  BY <1>6, StepRaise DEF DeadlockVictim, Cancel, Raise
<1>7. ASSUME UNCHANGED vars PROVE LocksInv' /\ UNCHANGED tables
  <2>1. UNCHANGED <<status, account, reservation, clock, stmt, lock>>
    BY <1>7 DEF vars, tables
  <2>2. LP!LedgerInv /\ Types /\ \A s \in Sessions : StatementInv(s)
    BY DEF LocksInv
  <2>3. UNCHANGED tables /\ [Ledger!Next]_(Ledger!vars)
    BY <1>1, <2>1 DEF tables
  <2>4. Types'
    BY <2>1, <2>2 DEF Types
  <2>5. ASSUME NEW t \in Sessions PROVE StatementInv(t)'
    <3>1. \A r \in Runs : stmt[t].op = "reserve" /\ stmt[t].run = r =>
            \A u \in Sessions : u # t => stmt'[u].run # r
      BY <2>1, NewRun
    <3> QED BY <2>1, <2>2, <3>1, StatementKept
  <2> QED BY <2>2, <2>3, <2>4, <2>5, LedgerKept DEF LocksInv
<1> QED BY <1>1, <1>2, <1>3, <1>4, <1>5, <1>6, <1>7, StepCommit, StepOperate DEF Next

\* Both together, along every behaviour.
LEMMA LocksInvariant == Spec => []LocksInv
<1>1. LocksInv /\ [Next]_vars => LocksInv'
  BY LocksStep
<1> QED BY <1>1, LocksInit, PTL DEF Spec

\* Every lock is held by a session or free, and every row version that a statement
\* has written is a well-formed row.
THEOREM TypeCorrect == Spec => []TypeOK
<1>1. LocksInv => TypeOK
  <2> SUFFICES ASSUME LocksInv PROVE TypeOK
    OBVIOUS
  <2>1. lock \in [Rows -> Sessions \cup {Null}]
    BY DEF LocksInv, Types
  <2>2. ASSUME NEW s \in Sessions
        PROVE  /\ stmt[s].at \in Places
               /\ stmt[s].accounts \in [DOMAIN stmt[s].accounts -> Ledger!AccountRow]
               /\ stmt[s].reservations \in
                    [DOMAIN stmt[s].reservations -> Ledger!ReservationRow]
    <3>1. stmt[s] \in Statement
      BY DEF LocksInv, Types
    <3>2. stmt[s].at \in Places /\ stmt[s].accounts \in Accounts
          /\ stmt[s].reservations \in Reservations
      BY <3>1 DEF Statement
    <3>3. \E P \in SUBSET Principals : stmt[s].accounts \in [P -> Ledger!AccountRow]
      BY <3>2 DEF Accounts
    <3>4. \E R \in SUBSET Runs : stmt[s].reservations \in [R -> Ledger!ReservationRow]
      BY <3>2 DEF Reservations
    <3> QED BY <3>2, <3>3, <3>4
  <2> QED BY <2>1, <2>2 DEF TypeOK
<1> QED BY <1>1, LocksInvariant, PTL

\* The row locks of migration 000012 make its functions atomic: whatever waits,
\* skips, deadlocks and cancellations there are between the locks of any number of
\* sessions, every commit is one step of Budget.
THEOREM LocksImplementLedger == Spec => ImplementsLedger
<1>1. Init => Ledger!Init
  BY DEF Init
<1>2. LocksInv /\ [Next]_vars => [Ledger!Next]_(Ledger!vars)
  BY LocksStep
<1> QED BY <1>1, <1>2, LocksInvariant, PTL DEF Spec, ImplementsLedger, Ledger!Spec

\* So what is proved of the ledger's atomic functions holds of the functions as
\* PostgreSQL runs them: limits, holds and windows are right in every committed state.
THEOREM LedgerHoldsUnderLocks ==
  Spec => [](/\ Ledger!LimitRespected /\ Ledger!HoldsAccounted
             /\ Ledger!OpenHoldsSettleable
             /\ Ledger!WindowSpendCovered /\ Ledger!DayWithinMonth)
<1>1. Spec => LP!Spec
  <2>1. Ledger!Init => LP!Init
    BY SameLedger
  <2>2. [Ledger!Next]_(Ledger!vars) => [LP!Next]_(LP!vars)
    BY SameLedger DEF LP!vars, Ledger!vars
  <2> QED BY <2>1, <2>2, LocksImplementLedger, PTL DEF ImplementsLedger, Ledger!Spec, LP!Spec
<1>2. LP!LimitRespected => Ledger!LimitRespected
  BY SameSums DEF LP!LimitRespected, Ledger!LimitRespected
<1>3. LP!HoldsAccounted => Ledger!HoldsAccounted
  BY SameSums, SameRows DEF LP!HoldsAccounted, Ledger!HoldsAccounted
<1>4. LP!OpenHoldsSettleable => Ledger!OpenHoldsSettleable
  BY SameSums, SameRows DEF LP!OpenHoldsSettleable, Ledger!OpenHoldsSettleable,
     LP!Settleable, Ledger!Settleable
<1>5. LP!WindowSpendCovered => Ledger!WindowSpendCovered
  <2>1. \A p, w : LP!SettledInWindow(p, w) = Ledger!SettledInWindow(p, w)
    BY DEF LP!SettledInWindow, Ledger!SettledInWindow
  <2>2. LP!ActualOf = Ledger!ActualOf
    BY DEF LP!ActualOf, Ledger!ActualOf
  <2> QED BY <2>1, <2>2, SameSums DEF LP!WindowSpendCovered, Ledger!WindowSpendCovered
<1>6. LP!DayWithinMonth => Ledger!DayWithinMonth
  BY DEF LP!DayWithinMonth, Ledger!DayWithinMonth
<1>7. LP!Spec => []LP!LimitRespected
  BY LedgerAssumptions, LP!LimitAlwaysRespected
<1>8. LP!Spec => []LP!HoldsAccounted
  BY LedgerAssumptions, LP!HoldsAlwaysAccounted
<1>9. LP!Spec => []LP!OpenHoldsSettleable
  BY LedgerAssumptions, LP!HoldsAlwaysSettleable
<1>10. LP!Spec => []LP!WindowSpendCovered
  BY LedgerAssumptions, LP!WindowSpendAlwaysCovered
<1>11. LP!Spec => []LP!DayWithinMonth
  BY LedgerAssumptions, LP!DayAlwaysWithinMonth
<1> QED BY <1>1, <1>2, <1>3, <1>4, <1>5, <1>6, <1>7, <1>8, <1>9, <1>10, <1>11, PTL

\* A request never pays for a deadlock.  On a cycle each session waits and is waited
\* for.  A reserve or a settle that waits and has a lock waits for an account and has
\* the row it locked first, and who waits for such a row has no lock at all.
THEOREM OnlySweepsEverDeadlock == Spec => []OnlySweepsDeadlock
<1>1. LocksInv => OnlySweepsDeadlock
  <2> SUFFICES ASSUME LocksInv, NEW s \in Deadlocked, stmt[s].op # "expire"
               PROVE  FALSE
    BY DEF OnlySweepsDeadlock
  <2>1. PICK T \in SUBSET Sessions :
          s \in T /\ \A t \in T : /\ WaitsFor(t) \cap T # {}
                                  /\ \E u \in T : t \in WaitsFor(u)
    BY DEF Deadlocked
  <2>2. \A t \in T : t \in Sessions /\ StatementInv(t) /\ stmt[t] \in Statement
    BY <2>1 DEF LocksInv, Types
  \* A session of the cycle waits for a row and has a lock of one.
  <2>3. ASSUME NEW t \in T
        PROVE  /\ stmt[t].at \in {"principal", "reservation", "account"}
               /\ \E u \in T : \E x \in Wanted(u) : Mine(t, x)
    <3>1. Wanted(t) # {}
      BY <2>1 DEF WaitsFor
    <3>2. stmt[t].at \in {"principal", "reservation", "account"}
      BY <3>1 DEF Wanted
    <3> QED BY <2>1, <3>2 DEF WaitsFor, Mine
  \* What is waited for is a row.
  <2>4. ASSUME NEW t \in T
        PROVE  \/ /\ stmt[t].at = "principal" /\ \A x \in Rows : ~Mine(t, x)
                  /\ \E p \in Principals : Wanted(t) = {PrincipalRow(p)}
               \/ /\ stmt[t].at = "reservation" /\ \A x \in Rows : ~Mine(t, x)
                  /\ \E r \in Runs : Wanted(t) = {ReservationRow(r)}
               \/ /\ stmt[t].at = "account"
                  /\ \E p \in Principals : Wanted(t) = {AccountRow(p)}
    <3> DEFINE p == stmt[t].principal
               r == stmt[t].run
    <3>1. stmt[t].op \in Ops /\ stmt[t].at \in {"principal", "reservation", "account"}
          /\ StatementInv(t) /\ t \in Sessions
      BY <2>2, <2>3 DEF Statement
    <3>2. CASE stmt[t].op = "none"
      BY <3>1, <3>2 DEF StatementInv, IdleInv
    <3>3. CASE stmt[t].op = "reserve"
      <4>1. Reserving(t, p, r, stmt[t].micros, stmt[t].now)
        BY <3>1, <3>3 DEF StatementInv, ReserveInv
      <4> QED BY <3>1, <4>1 DEF Reserving, Wanted
    <3>4. CASE stmt[t].op = "settle"
      <4> DEFINE c == Ledger!Charge(r, stmt[t].micros)
      <4>1. Settling(t, p, r, c, stmt[t].now)
        BY <3>1, <3>4 DEF StatementInv, SettleInv
      <4> HIDE DEF c
      <4>2. stmt[t].at = "account" => p \in Principals
        BY <4>1, LedgerFacts DEF Settling, LocksInv
      <4> QED BY <3>1, <4>1, <4>2 DEF Settling, Wanted
    <3>5. CASE stmt[t].op = "expire"
      <4>1. stmt[t].at = "account"
        BY <3>1, <3>5 DEF StatementInv, ExpireInv, Sweeping
      <4>2. p \in Principals
        BY <3>1, <3>5, <4>1, SweepRound
      <4> QED BY <4>1, <4>2 DEF Wanted
    <3> QED BY <3>1, <3>2, <3>3, <3>4, <3>5 DEF Ops
  <2>5. \A t \in T : \A x \in Wanted(t) : x \in Rows
    BY <2>4, RowsDiffer
  \* So all of them are at an account, and only accounts are waited for.
  <2>6. \A t \in T : stmt[t].at = "account" /\ \E p \in Principals : Wanted(t) = {AccountRow(p)}
    BY <2>3, <2>4, <2>5
  <2>7. \E p \in Principals : Mine(s, AccountRow(p))
    BY <2>1, <2>3, <2>6
  <2>8. \A x \in Rows : Mine(s, x) => \/ x = PrincipalRow(stmt[s].principal)
                                      \/ x = ReservationRow(stmt[s].run)
    <3>1. StatementInv(s) /\ stmt[s].at = "account" /\ stmt[s].op \in Ops
      BY <2>1, <2>2, <2>6 DEF Statement
    <3>2. CASE stmt[s].op = "none"
      BY <3>1, <3>2 DEF StatementInv, IdleInv
    <3>3. CASE stmt[s].op = "reserve"
      BY <3>1, <3>3 DEF StatementInv, ReserveInv, Reserving
    <3>4. CASE stmt[s].op = "settle"
      BY <3>1, <3>4 DEF StatementInv, SettleInv, Settling
    <3> QED BY <3>1, <3>2, <3>3, <3>4 DEF Ops
  <2> QED BY <2>7, <2>8, RowsDiffer
<1> QED BY <1>1, LocksInvariant, PTL
=============================================================================
