---------------------------- MODULE BudgetProofs ----------------------------
(***************************************************************************)
(* Theorems about the spend ledger of module Budget, for every set of      *)
(* principals and runs, every calendar and every bound.                    *)
(***************************************************************************)
EXTENDS Budget, FiniteSetTheorems, TLAPS

-----------------------------------------------------------------------------
(***************************************************************************)
(* Sums of amounts over sets of runs.                                      *)
(***************************************************************************)

\* The micros of a set of runs are finitely many, so Total is a number.
LEMMA TotalType ==
  ASSUME NEW S \in SUBSET Runs, NEW amt
  PROVE  IsFiniteSet(Micros(S, amt)) /\ Total(S, amt) \in Nat
<1>1. IsFiniteSet(S) /\ IsFiniteSet(1..MaxMicros)
  BY ConstantsAssumption, FS_Subset, FS_Interval
<1>2. IsFiniteSet(S \X (1..MaxMicros))
  BY <1>1, FS_Product
<1>3. Micros(S, amt) \in SUBSET (S \X (1..MaxMicros))
  BY DEF Micros
<1>4. IsFiniteSet(Micros(S, amt))
  BY <1>2, <1>3, FS_Subset
<1> QED BY <1>4, FS_CardinalityType DEF Total

\* The empty set of runs sums to zero.
LEMMA TotalEmpty ==
  ASSUME NEW amt PROVE Total({}, amt) = 0
<1>1. Micros({}, amt) = {}
  BY DEF Micros
<1> QED BY <1>1, FS_EmptySet DEF Total

\* A single run sums to its amount.
LEMMA TotalSingle ==
  ASSUME NEW r \in Runs, NEW amt, amt[r] \in 0..MaxMicros
  PROVE  Total({r}, amt) = amt[r]
<1>1. Micros({r}, amt) = {r} \X (1..amt[r])
  BY ConstantsAssumption DEF Micros
<1>2. IsFiniteSet({r}) /\ Cardinality({r}) = 1
  BY FS_Singleton
<1>3. amt[r] \in Nat
  BY ConstantsAssumption
<1>4. IsFiniteSet(1..amt[r]) /\ Cardinality(1..amt[r]) = amt[r]
  BY <1>3, FS_Interval, SMTT(30)
<1>5. Cardinality({r} \X (1..amt[r])) = Cardinality({r}) * Cardinality(1..amt[r])
  BY <1>2, <1>4, FS_Product
<1>6. Cardinality({r}) * Cardinality(1..amt[r]) = amt[r]
  BY <1>2, <1>3, <1>4
<1> QED BY <1>1, <1>5, <1>6 DEF Total

\* The sum over two disjoint sets of runs is the sum of their sums.
LEMMA TotalDisjoint ==
  ASSUME NEW S \in SUBSET Runs, NEW T \in SUBSET Runs, S \cap T = {}, NEW amt
  PROVE  Total(S \cup T, amt) = Total(S, amt) + Total(T, amt)
<1>1. Micros(S \cup T, amt) = Micros(S, amt) \cup Micros(T, amt)
  BY DEF Micros
<1>2. Micros(S, amt) \cap Micros(T, amt) = {}
  BY DEF Micros
<1>3. IsFiniteSet(Micros(S, amt)) /\ IsFiniteSet(Micros(T, amt))
  BY TotalType
<1>4. Cardinality(Micros(S, amt) \cup Micros(T, amt))
        = Total(S, amt) + Total(T, amt) - Cardinality({})
  BY <1>2, <1>3, FS_Union DEF Total
<1>5. Total(S \cup T, amt) = Total(S, amt) + Total(T, amt) - Cardinality({})
  BY <1>1, <1>4 DEF Total
<1>6. Total(S, amt) \in Nat /\ Total(T, amt) \in Nat /\ Cardinality({}) = 0
  BY TotalType, FS_EmptySet
<1> QED BY <1>5, <1>6

\* The sum over a set depends only on the amounts of its members.
LEMMA TotalSame ==
  ASSUME NEW S \in SUBSET Runs, NEW f, NEW g, \A r \in S : f[r] = g[r]
  PROVE  Total(S, f) = Total(S, g)
<1>1. Micros(S, f) = Micros(S, g)
  BY DEF Micros
<1> QED BY <1>1 DEF Total

\* Taking one run out of a set takes its amount out of the sum.
LEMMA TotalRemove ==
  ASSUME NEW S \in SUBSET Runs, NEW r \in S, NEW amt, amt[r] \in 0..MaxMicros
  PROVE  Total(S, amt) = Total(S \ {r}, amt) + amt[r]
<1>1. S = (S \ {r}) \cup {r} /\ (S \ {r}) \cap {r} = {}
  OBVIOUS
<1>2. Total(S, amt) = Total(S \ {r}, amt) + Total({r}, amt)
  BY <1>1, TotalDisjoint
<1> QED BY <1>2, TotalSingle

-----------------------------------------------------------------------------
(***************************************************************************)
(* Type correctness.                                                       *)
(***************************************************************************)

\* Rolling the periods of an account row keeps it a row, with its limits and
\* holds, and commits no more in any window than before.
LEMMA RollRow ==
  ASSUME NEW a \in AccountRow, NEW now \in Times
  PROVE  LET b == budget_roll_periods(a, now) IN
         /\ b \in AccountRow
         /\ b.limit = a.limit
         /\ b.reserved = a.reserved
         /\ \A w \in Windows : b.committed[w] <= a.committed[w]
<1> DEFINE C == [w \in Windows |-> IF now >= a.periodEnd[w] THEN 0 ELSE a.committed[w]]
           E == [w \in Windows |-> IF now >= a.periodEnd[w] THEN PeriodEnd[w][now]
                                   ELSE a.periodEnd[w]]
           b == budget_roll_periods(a, now)
<1>1. b = [limit |-> a.limit, committed |-> C, reserved |-> a.reserved,
           periodEnd |-> E]
  BY DEF budget_roll_periods
<1>2. C \in [Windows -> Nat] /\ \A w \in Windows : C[w] <= a.committed[w]
  BY DEF AccountRow
<1>3. E \in [Windows -> Nat]
  BY CalendarAssumption DEF AccountRow
<1> HIDE DEF C, E
<1> QED BY <1>1, <1>2, <1>3 DEF AccountRow

\* A settlement charges between nothing and what was held.
LEMMA ChargeBounds ==
  ASSUME TypeOK, NEW r \in Runs, NEW x \in (0..MaxMicros) \cup {Null}
  PROVE  /\ reservation[r].max \in 0..MaxMicros
         /\ Charge(r, x) \in 0..reservation[r].max
         /\ Charge(r, x) \in Nat /\ Charge(r, x) \in 0..MaxMicros
<1>1. reservation[r].max \in 0..MaxMicros
  BY DEF TypeOK, ReservationRow
<1>2. Charge(r, x) \in 0..reservation[r].max
  BY <1>1, ConstantsAssumption DEF Charge
<1> QED
  BY <1>1, <1>2, ConstantsAssumption

\* What the sweep leaves of an account row is an account row.
LEMMA WithoutHoldsType ==
  ASSUME TypeOK, NEW p \in Principals, NEW S \in SUBSET Runs, NEW now \in Times
  PROVE  WithoutHolds(p, S, now) \in AccountRow
<1>1. budget_roll_periods(account[p], now) \in AccountRow
  BY RollRow DEF TypeOK
<1>2. Total(S, MaxOf) \in Nat
  BY TotalType
<1> QED BY <1>1, <1>2 DEF WithoutHolds, AccountRow

\* Every step keeps every row of the two tables well formed.
LEMMA TypeStep == TypeOK /\ [Next]_vars => TypeOK'
<1> SUFFICES ASSUME TypeOK, [Next]_vars PROVE TypeOK'
  OBVIOUS
<1> USE ConstantsAssumption, CalendarAssumption
<1>1. ASSUME NEW p \in Principals, admin_create_principal(p) \/ DisablePrincipal(p)
      PROVE  TypeOK'
  BY <1>1 DEF TypeOK, admin_create_principal, DisablePrincipal
<1>2. ASSUME NEW p \in Principals, NEW d \in 1..MaxLimit, NEW m \in 1..MaxLimit,
             NEW now \in StatementTimes, admin_set_budget(p, d, m, now)
      PROVE  TypeOK'
  <2>1. now \in Times
    BY DEF StatementTimes
  <2> DEFINE L == [w \in Windows |-> IF w = "daily" THEN d ELSE m]
             E == [w \in Windows |-> PeriodEnd[w][now]]
  <2>2. L \in [Windows -> 0..MaxLimit] /\ E \in [Windows -> Nat]
    BY <2>1
  <2>3. \/ account' = [account EXCEPT ![p].limit = L]
        \/ account' = [account EXCEPT ![p] = [NoAccount EXCEPT !.limit = L,
                                                             !.periodEnd = E]]
    BY <1>2 DEF admin_set_budget
  <2> HIDE DEF L, E
  <2>4. [NoAccount EXCEPT !.limit = L, !.periodEnd = E] \in AccountRow
    BY <2>2 DEF NoAccount, AccountRow
  <2>5. [account[p] EXCEPT !.limit = L] \in AccountRow
    BY <2>2, account[p] \in AccountRow DEF TypeOK, AccountRow
  <2>6. account' \in [Principals -> AccountRow]
    BY <2>3, <2>4, <2>5 DEF TypeOK
  <2> QED BY <1>2, <2>6 DEF TypeOK, admin_set_budget
<1>3. ASSUME NEW p \in Principals, NEW r \in Runs, NEW m \in 1..MaxMicros,
             NEW now \in StatementTimes, reserve_budget(p, r, m, now)
      PROVE  TypeOK'
  <2> DEFINE a == budget_roll_periods(account[p], now)
  <2>1. now \in Times
    BY DEF StatementTimes
  <2>2. a \in AccountRow
    BY <2>1, RollRow DEF TypeOK
  <2> DEFINE R == [w \in Windows |-> a.reserved[w] + m]
  <2>3. R \in [Windows -> Nat]
    BY <2>2 DEF AccountRow
  <2>4. account' \in [Principals -> AccountRow]
    <3>1. account' = [account EXCEPT ![p] = [a EXCEPT !.reserved = R]]
      BY <1>3 DEF reserve_budget
    <3> HIDE DEF a, R
    <3>2. [a EXCEPT !.reserved = R] \in AccountRow
      BY <2>2, <2>3 DEF AccountRow
    <3> QED BY <3>1, <3>2 DEF TypeOK
  <2>5. reservation' \in [Runs -> ReservationRow]
    <3> DEFINE h == [state |-> "reserved", owner |-> p, max |-> m, actual |-> 0,
                     expiresAt |-> now + TTL, settledAt |-> 0]
    <3>1. reservation' = [reservation EXCEPT ![r] = h]
      BY <1>3 DEF reserve_budget
    <3>2. now + TTL \in Nat /\ 0 \in Times /\ 0 \in 0..MaxMicros /\ m \in 0..MaxMicros
      BY <2>1, ConstantsAssumption DEF Times
    <3>3. h \in ReservationRow
      BY <3>2 DEF ReservationRow, ReservationState
    <3> HIDE DEF h
    <3> QED BY <3>1, <3>3 DEF TypeOK
  <2> QED BY <1>3, <2>4, <2>5 DEF TypeOK, reserve_budget
<1>4. ASSUME NEW r \in Runs, NEW x \in (0..MaxMicros) \cup {Null},
             NEW now \in StatementTimes, settle_budget(r, x, now)
      PROVE  TypeOK'
  <2> DEFINE p == reservation[r].owner
             a == budget_roll_periods(account[p], now)
  <2>1. now \in Times
    BY DEF StatementTimes
  <2>2. Charge(r, x) \in Nat /\ Charge(r, x) \in 0..MaxMicros
    BY ChargeBounds
  <2>3. reservation' \in [Runs -> ReservationRow]
    BY <1>4, <2>1, <2>2, ZenonT(60) DEF TypeOK, settle_budget, ReservationRow, ReservationState
  <2>4. CASE p \in Principals
    <3>1. a \in AccountRow /\ a.reserved = account[p].reserved
      BY <2>1, <2>4, RollRow DEF TypeOK
    <3>2. \A w \in Windows : a.reserved[w] - reservation[r].max \in Nat
      <4>1. /\ reservation[r].max \in Nat
            /\ \A w \in Windows : account[p].reserved[w] >= reservation[r].max
        BY <1>4, <2>4, ConstantsAssumption DEF TypeOK, settle_budget, Settleable, ReservationRow
      <4>2. \A w \in Windows : a.reserved[w] \in Nat
        BY <3>1 DEF AccountRow
      <4> HIDE DEF a
      <4> QED BY <3>1, <4>1, <4>2
    <3>3. \A w \in Windows : a.committed[w] + Charge(r, x) \in Nat
      BY <2>2, <3>1 DEF AccountRow
    <3>4. [a EXCEPT
             !.reserved = [w \in Windows |-> a.reserved[w] - reservation[r].max],
             !.committed = [w \in Windows |-> a.committed[w] + Charge(r, x)]]
          \in AccountRow
      BY <3>1, <3>2, <3>3 DEF AccountRow
    <3>5. account' \in [Principals -> AccountRow]
      BY <1>4, <3>4 DEF TypeOK, settle_budget
    <3> QED BY <1>4, <2>3, <3>5 DEF TypeOK, settle_budget
  <2>5. CASE p \notin Principals
    <3>1. account' = account
      BY <1>4, <2>5 DEF TypeOK, settle_budget
    <3> QED BY <1>4, <2>3, <3>1 DEF TypeOK, settle_budget
  <2> QED BY <2>4, <2>5
<1>5. ASSUME NEW now \in StatementTimes, NEW S \in SUBSET Expirable(now),
             expire_budget_reservations(S, now)
      PROVE  TypeOK'
  <2>1. now \in Times
    BY DEF StatementTimes
  <2>2. \A p \in Principals : S \cap OpenHolds(p) \in SUBSET Runs
    BY DEF OpenHolds
  <2>3. \A p \in Principals : WithoutHolds(p, S \cap OpenHolds(p), now) \in AccountRow
    BY <2>1, <2>2, WithoutHoldsType
  <2>4. account' \in [Principals -> AccountRow]
    BY <1>5, <2>3 DEF TypeOK, expire_budget_reservations
  <2>5. reservation' \in [Runs -> ReservationRow]
    BY <1>5, <2>1, ZenonT(60) DEF TypeOK, expire_budget_reservations, ReservationRow, ReservationState
  <2> QED BY <1>5, <2>4, <2>5 DEF TypeOK, expire_budget_reservations
<1>6. CASE Tick
  BY <1>6 DEF TypeOK, Tick, Times
<1>7. CASE UNCHANGED vars
  BY <1>7 DEF TypeOK, vars
<1> QED BY <1>1, <1>2, <1>3, <1>4, <1>5, <1>6, <1>7 DEF Next

\* The initial tables are empty, hence well formed.
LEMMA TypeInit == Init => TypeOK
BY ConstantsAssumption
   DEF Init, TypeOK, AccountRow, NoAccount, ReservationRow, NoReservation,
       ReservationState, Times

\* Every row of budget_accounts and spend_reservations stays well formed; in
\* particular no amount column ever becomes negative.
THEOREM TypeCorrect == Spec => []TypeOK
<1> QED BY TypeInit, TypeStep, PTL DEF Spec

-----------------------------------------------------------------------------
(***************************************************************************)
(* The ledger invariant.                                                   *)
(***************************************************************************)

\* An open hold belongs to a principal that has an account.
HoldsOwned ==
  \A r \in Runs : reservation[r].state = "reserved"
                 => reservation[r].owner \in Principals /\ HasAccount(reservation[r].owner)

\* LimitRespected is not inductive alone: a settlement or a sweep gives back the
\* amount of the hold, and only HoldsAccounted says the account has it.
LedgerInv == TypeOK /\ LimitRespected /\ HoldsAccounted /\ HoldsOwned

\* Steps that leave both tables alone keep the invariant.
LEMMA LedgerUnchanged ==
  ASSUME LedgerInv, TypeOK', UNCHANGED <<account, reservation>>
  PROVE  LedgerInv'
BY DEF LedgerInv, LimitRespected, HoldsAccounted, HoldsOwned, HasAccount,
       OpenHolds, MaxOf

\* A new or moved limit is never below what is committed and held.
LEMMA LedgerSetBudget ==
  ASSUME LedgerInv, TypeOK', NEW p \in Principals, NEW d \in 1..MaxLimit,
         NEW m \in 1..MaxLimit, NEW now \in Times, admin_set_budget(p, d, m, now)
  PROVE  LedgerInv'
<1> USE DEF LedgerInv
<1> DEFINE L == [w \in Windows |-> IF w = "daily" THEN d ELSE m]
<1>1. /\ reservation' = reservation
      /\ \A q \in Principals : OpenHolds(q)' = OpenHolds(q)
      /\ MaxOf' = MaxOf
  BY DEF admin_set_budget, OpenHolds, MaxOf
<1>2. \A w \in Windows : L[w] \in Nat /\ L[w] > 0
  BY ConstantsAssumption
<1>3. \A q \in Principals : q # p => account'[q] = account[q]
  BY DEF TypeOK, admin_set_budget
<1>4. CASE HasAccount(p)
  <2>1. /\ account' = [account EXCEPT ![p].limit = L]
        /\ \A w \in Windows :
             account[p].committed[w] + account[p].reserved[w] <= L[w]
    BY <1>4 DEF admin_set_budget
  <2> HIDE DEF L
  <2>2. /\ account'[p].limit = L
        /\ account'[p].committed = account[p].committed
        /\ account'[p].reserved = account[p].reserved
    BY <2>1 DEF TypeOK, AccountRow
  <2>3. LimitRespected'
    BY <1>3, <2>1, <2>2 DEF LimitRespected
  <2>4. HoldsAccounted'
    BY <1>1, <1>3, <2>2 DEF HoldsAccounted
  <2>5. HoldsOwned'
    BY <1>1, <1>2, <1>3, <2>2 DEF HoldsOwned, HasAccount, Windows
  <2> QED BY <2>3, <2>4, <2>5
<1>5. CASE ~HasAccount(p)
  <2>1. account' = [account EXCEPT ![p] =
          [NoAccount EXCEPT !.limit = L,
                            !.periodEnd = [w \in Windows |-> PeriodEnd[w][now]]]]
    BY <1>5 DEF admin_set_budget
  <2> HIDE DEF L
  <2>2. /\ account'[p].limit = L
        /\ \A w \in Windows : /\ account'[p].committed[w] = 0
                               /\ account'[p].reserved[w] = 0
    BY <2>1 DEF TypeOK, NoAccount
  <2>3. account[p].reserved["daily"] = 0
    <3>1. "daily" \in Windows /\ account[p] \in AccountRow
      BY DEF Windows, TypeOK
    <3>2. /\ account[p].limit["daily"] = 0
          /\ account[p].committed["daily"] \in Nat
          /\ account[p].reserved["daily"] \in Nat
      BY <1>5, <3>1, ConstantsAssumption DEF HasAccount, AccountRow
    <3>3. account[p].committed["daily"] + account[p].reserved["daily"]
            <= account[p].limit["daily"]
      BY <3>1 DEF LimitRespected
    <3> QED BY <3>2, <3>3
  <2>4. Total(OpenHolds(p), MaxOf) = 0
    BY <2>3 DEF HoldsAccounted, Windows
  <2>5. LimitRespected'
    BY <1>2, <1>3, <2>2 DEF LimitRespected
  <2>6. HoldsAccounted'
    BY <1>1, <1>3, <2>2, <2>4 DEF HoldsAccounted
  <2>7. HoldsOwned'
    BY <1>1, <1>2, <1>3, <2>2 DEF HoldsOwned, HasAccount, Windows
  <2> QED BY <2>5, <2>6, <2>7
<1> QED BY <1>4, <1>5

\* A reservation adds one open hold, and its amount to both windows.
LEMMA LedgerReserve ==
  ASSUME LedgerInv, TypeOK', NEW p \in Principals, NEW r \in Runs,
         NEW m \in 1..MaxMicros, NEW now \in Times, reserve_budget(p, r, m, now)
  PROVE  LedgerInv'
<1> USE DEF LedgerInv
<1> DEFINE a == budget_roll_periods(account[p], now)
<1>1. /\ a \in AccountRow /\ a.limit = account[p].limit
      /\ a.reserved = account[p].reserved
  BY RollRow DEF TypeOK
<1>2. /\ account' = [account EXCEPT ![p] =
             [a EXCEPT !.reserved = [w \in Windows |-> a.reserved[w] + m]]]
      /\ HasAccount(p)
      /\ \A w \in Windows : a.committed[w] + a.reserved[w] + m <= a.limit[w]
  BY DEF reserve_budget, Reservable
<1> HIDE DEF a
<1>3. /\ \A q \in Principals : q # p => account'[q] = account[q]
      /\ account'[p].limit = account[p].limit
      /\ account'[p].committed = a.committed
      /\ \A w \in Windows : account'[p].reserved[w] = account[p].reserved[w] + m
  BY <1>1, <1>2 DEF TypeOK, AccountRow
<1>4. /\ reservation[r].state = "none"
      /\ reservation'[r].state = "reserved" /\ reservation'[r].owner = p
      /\ reservation'[r].max = m
      /\ \A x \in Runs : x # r => reservation'[x] = reservation[x]
  BY DEF reserve_budget, TypeOK
<1>5. LimitRespected'
  BY <1>1, <1>2, <1>3, ConstantsAssumption DEF LimitRespected, AccountRow, TypeOK
<1>6. HoldsAccounted'
  <2>1. \A q \in Principals : q # p => OpenHolds(q)' = OpenHolds(q)
    BY <1>4 DEF OpenHolds
  <2>2. OpenHolds(p)' = OpenHolds(p) \cup {r} /\ r \notin OpenHolds(p)
    BY <1>4 DEF OpenHolds
  <2>3. \A x \in Runs : MaxOf'[x] = IF x = r THEN m ELSE MaxOf[x]
    BY <1>4 DEF MaxOf
  <2>4. \A q \in Principals : Total(OpenHolds(q), MaxOf') = Total(OpenHolds(q), MaxOf)
    <3> SUFFICES ASSUME NEW q \in Principals
                 PROVE  Total(OpenHolds(q), MaxOf') = Total(OpenHolds(q), MaxOf)
      OBVIOUS
    <3>1. OpenHolds(q) \in SUBSET Runs /\ r \notin OpenHolds(q)
      BY <1>4 DEF OpenHolds
    <3>2. \A x \in OpenHolds(q) : MaxOf'[x] = MaxOf[x]
      BY <3>1, <2>3
    <3> QED BY <3>1, <3>2, TotalSame
  <2>5. Total(OpenHolds(p)', MaxOf') = Total(OpenHolds(p), MaxOf') + m
    <3>1. OpenHolds(p)' \in SUBSET Runs /\ r \in OpenHolds(p)'
      BY <2>2 DEF OpenHolds
    <3>2. OpenHolds(p)' \ {r} = OpenHolds(p)
      BY <2>2
    <3>3. MaxOf'[r] = m /\ m \in 0..MaxMicros
      BY <2>3, ConstantsAssumption
    <3> QED BY <3>1, <3>2, <3>3, TotalRemove
  <2> QED BY <1>3, <2>1, <2>4, <2>5 DEF HoldsAccounted
<1>7. HoldsOwned'
  BY <1>2, <1>3, <1>4 DEF HoldsOwned, HasAccount
<1> QED BY <1>5, <1>6, <1>7

\* A settlement closes one open hold, gives its amount back in both windows and
\* commits no more than that.
LEMMA LedgerSettle ==
  ASSUME LedgerInv, TypeOK', NEW r \in Runs, NEW x \in (0..MaxMicros) \cup {Null},
         NEW now \in Times, settle_budget(r, x, now)
  PROVE  LedgerInv'
<1> USE DEF LedgerInv
<1>1. PICK p \in Principals : /\ reservation[r].owner = p
                             /\ reservation[r].state = "reserved"
  BY DEF settle_budget, Settleable, HoldsOwned
<1> DEFINE a == budget_roll_periods(account[p], now)
           c == Charge(r, x)
           h == reservation[r].max
<1>2. /\ a \in AccountRow /\ a.limit = account[p].limit
      /\ a.reserved = account[p].reserved
      /\ \A w \in Windows : a.committed[w] <= account[p].committed[w]
  BY RollRow DEF TypeOK
<1>3. account' = [account EXCEPT ![p] =
        [a EXCEPT !.reserved = [w \in Windows |-> a.reserved[w] - h],
                  !.committed = [w \in Windows |-> a.committed[w] + c]]]
  BY <1>1 DEF settle_budget
<1>4. c \in 0..h /\ h \in 0..MaxMicros
  BY ChargeBounds
<1>5. /\ \A y \in Runs : y # r => reservation'[y] = reservation[y]
      /\ reservation'[r].state = "settled" /\ reservation'[r].max = h
  BY DEF settle_budget, TypeOK, ReservationRow
<1> HIDE DEF a, c, h
<1>6. /\ \A q \in Principals : q # p => account'[q] = account[q]
      /\ account'[p].limit = account[p].limit
      /\ \A w \in Windows :
           /\ account'[p].reserved[w] = account[p].reserved[w] - h
           /\ account'[p].committed[w] = a.committed[w] + c
  BY <1>1, <1>2, <1>3 DEF TypeOK, AccountRow
<1>7. LimitRespected'
  <2>1. ASSUME NEW w \in Windows
        PROVE  account'[p].committed[w] + account'[p].reserved[w] <= account'[p].limit[w]
    <3>1. /\ account[p].committed[w] \in Nat /\ account[p].reserved[w] \in Nat
          /\ account[p].limit[w] \in Nat /\ a.committed[w] \in Nat
      BY <1>2, ConstantsAssumption DEF TypeOK, AccountRow
    <3>2. account[p].committed[w] + account[p].reserved[w] <= account[p].limit[w]
      BY DEF LimitRespected
    <3>3. c \in Int /\ h \in Int /\ c <= h
      BY <1>4, ConstantsAssumption
    <3> QED BY <1>2, <1>6, <3>1, <3>2, <3>3
  <2> QED BY <1>6, <2>1 DEF LimitRespected
<1>8. HoldsAccounted'
  <2>1. MaxOf' = MaxOf /\ MaxOf[r] = h
    BY <1>5 DEF MaxOf, h
  <2>2. \A q \in Principals : q # p => OpenHolds(q)' = OpenHolds(q)
    BY <1>1, <1>5 DEF OpenHolds
  <2>3. OpenHolds(p)' = OpenHolds(p) \ {r} /\ r \in OpenHolds(p)
    BY <1>1, <1>5 DEF OpenHolds
  <2>4. OpenHolds(p) \in SUBSET Runs /\ OpenHolds(p) \ {r} \in SUBSET Runs
    BY DEF OpenHolds
  <2>5. Total(OpenHolds(p), MaxOf) = Total(OpenHolds(p) \ {r}, MaxOf) + h
    BY <1>4, <2>1, <2>3, <2>4, TotalRemove
  <2>6. /\ Total(OpenHolds(p) \ {r}, MaxOf) \in Nat
        /\ Total(OpenHolds(p), MaxOf) - h = Total(OpenHolds(p) \ {r}, MaxOf)
    BY <1>4, <2>4, <2>5, TotalType
  <2> QED BY <1>1, <1>6, <2>1, <2>2, <2>3, <2>6 DEF HoldsAccounted
<1>9. HoldsOwned'
  BY <1>5, <1>6 DEF HoldsOwned, HasAccount
<1> QED BY <1>7, <1>8, <1>9

\* A sweep closes any number of open holds of any number of accounts and gives
\* every account exactly the amounts of its own holds back.
LEMMA LedgerExpire ==
  ASSUME LedgerInv, TypeOK', NEW now \in Times, NEW S \in SUBSET Expirable(now),
         expire_budget_reservations(S, now)
  PROVE  LedgerInv'
<1> USE DEF LedgerInv
<1>1. /\ S \subseteq Runs
      /\ \A r \in S : reservation[r].state = "reserved"
      /\ \A r \in S : reservation'[r].state = "expired"
      /\ \A r \in Runs : reservation'[r].max = reservation[r].max
      /\ \A r \in Runs : r \notin S => reservation'[r] = reservation[r]
  BY DEF Expirable, expire_budget_reservations, TypeOK, ReservationRow
<1>2. MaxOf' = MaxOf
  BY <1>1 DEF MaxOf
<1>3. \A q \in Principals : OpenHolds(q)' = OpenHolds(q) \ S
  BY <1>1 DEF OpenHolds
<1>4. ASSUME NEW q \in Principals
      PROVE  /\ account'[q].limit = account[q].limit
             /\ \A w \in Windows :
                  /\ account'[q].committed[w] <= account[q].committed[w]
                  /\ account'[q].reserved[w] <= account[q].reserved[w]
                  /\ account'[q].reserved[w] = Total(OpenHolds(q) \ S, MaxOf)
  <2> DEFINE H == S \cap OpenHolds(q)
             a == budget_roll_periods(account[q], now)
             t == Total(H, MaxOf)
             k == Total(OpenHolds(q) \ S, MaxOf)
  <2>1. H \in SUBSET Runs /\ OpenHolds(q) \ S \in SUBSET Runs
    BY DEF OpenHolds
  <2>2. t \in Nat /\ k \in Nat
    BY <2>1, TotalType
  <2>3. H \cup (OpenHolds(q) \ S) = OpenHolds(q) /\ H \cap (OpenHolds(q) \ S) = {}
    OBVIOUS
  <2>4. Total(OpenHolds(q), MaxOf) = t + k
    BY <2>1, <2>3, TotalDisjoint
  <2>5. \A w \in Windows : account[q].reserved[w] = t + k
    BY <2>4 DEF HoldsAccounted
  <2>6. CASE H = {}
    <3>1. account'[q] = account[q]
      BY <2>6 DEF expire_budget_reservations
    <3>2. t = 0
      BY <2>6, TotalEmpty
    <3>3. \A w \in Windows : /\ account[q].committed[w] \in Nat
                             /\ account[q].reserved[w] \in Nat
      BY DEF TypeOK, AccountRow
    <3> HIDE DEF t, k
    <3>4. \A w \in Windows : account'[q].reserved[w] = k
      BY <2>2, <2>5, <3>1, <3>2
    <3> QED BY <3>1, <3>3, <3>4 DEF k
  <2>7. CASE H # {}
    <3>1. account'[q] = WithoutHolds(q, H, now)
      BY <2>7 DEF expire_budget_reservations
    <3>2. account'[q] = [a EXCEPT !.reserved =
            [w \in Windows |-> IF a.reserved[w] >= t THEN a.reserved[w] - t ELSE 0]]
      BY <3>1 DEF WithoutHolds
    <3>3. /\ a \in AccountRow /\ a.limit = account[q].limit
          /\ a.reserved = account[q].reserved
          /\ \A w \in Windows : a.committed[w] <= account[q].committed[w]
      BY RollRow DEF TypeOK
    <3> HIDE DEF a, t, k
    <3>4. /\ account'[q].limit = account[q].limit
          /\ account'[q].committed = a.committed
          /\ \A w \in Windows : account'[q].reserved[w] =
               IF account[q].reserved[w] >= t THEN account[q].reserved[w] - t ELSE 0
      BY <3>2, <3>3 DEF AccountRow
    <3>5. \A w \in Windows : account'[q].reserved[w] = k
      BY <2>2, <2>5, <3>4
    <3>6. \A w \in Windows : account'[q].reserved[w] <= account[q].reserved[w]
      BY <2>2, <2>5, <3>5
    <3> QED BY <3>3, <3>4, <3>5, <3>6 DEF k
  <2> QED BY <2>6, <2>7
<1>5. LimitRespected'
  <2> SUFFICES ASSUME NEW q \in Principals, NEW w \in Windows
               PROVE  account'[q].committed[w] + account'[q].reserved[w]
                        <= account'[q].limit[w]
    BY DEF LimitRespected
  <2>1. account[q].committed[w] + account[q].reserved[w] <= account[q].limit[w]
    BY DEF LimitRespected
  <2>2. /\ account[q].committed[w] \in Nat /\ account[q].reserved[w] \in Nat
        /\ account[q].limit[w] \in Nat
        /\ account'[q].committed[w] \in Nat /\ account'[q].reserved[w] \in Nat
    BY ConstantsAssumption DEF TypeOK, AccountRow
  <2>3. /\ account'[q].limit = account[q].limit
        /\ account'[q].committed[w] <= account[q].committed[w]
        /\ account'[q].reserved[w] <= account[q].reserved[w]
    BY <1>4
  <2> QED BY <2>1, <2>2, <2>3
<1>6. HoldsAccounted'
  BY <1>2, <1>3, <1>4 DEF HoldsAccounted
<1>7. HoldsOwned'
  BY <1>1, <1>4, ZenonT(60) DEF HoldsOwned, HasAccount
<1> QED BY <1>5, <1>6, <1>7

\* The empty tables satisfy the invariant.
LEMMA LedgerInit == Init => LedgerInv
<1> SUFFICES ASSUME Init PROVE LedgerInv
  OBVIOUS
<1>1. \A p \in Principals : OpenHolds(p) = {}
  BY DEF Init, OpenHolds, NoReservation
<1>2. \A p \in Principals : Total(OpenHolds(p), MaxOf) = 0
  BY <1>1, TotalEmpty
<1> QED BY <1>2, TypeInit
  DEF Init, LedgerInv, LimitRespected, HoldsAccounted, HoldsOwned, NoAccount, NoReservation

\* Every step keeps the invariant.
LEMMA LedgerStep == LedgerInv /\ [Next]_vars => LedgerInv'
<1> SUFFICES ASSUME LedgerInv, [Next]_vars PROVE LedgerInv'
  OBVIOUS
<1>1. TypeOK'
  BY TypeStep DEF LedgerInv
<1>2. StatementTimes \subseteq Times
  BY DEF StatementTimes
<1>3. ASSUME NEW p \in Principals, admin_create_principal(p) \/ DisablePrincipal(p)
      PROVE  LedgerInv'
  BY <1>1, <1>3, LedgerUnchanged DEF admin_create_principal, DisablePrincipal
<1>4. ASSUME NEW p \in Principals, NEW d \in 1..MaxLimit, NEW m \in 1..MaxLimit,
             NEW now \in StatementTimes, admin_set_budget(p, d, m, now)
      PROVE  LedgerInv'
  BY <1>1, <1>2, <1>4, LedgerSetBudget
<1>5. ASSUME NEW p \in Principals, NEW r \in Runs, NEW m \in 1..MaxMicros,
             NEW now \in StatementTimes, reserve_budget(p, r, m, now)
      PROVE  LedgerInv'
  BY <1>1, <1>2, <1>5, LedgerReserve
<1>6. ASSUME NEW r \in Runs, NEW x \in (0..MaxMicros) \cup {Null},
             NEW now \in StatementTimes, settle_budget(r, x, now)
      PROVE  LedgerInv'
  BY <1>1, <1>2, <1>6, LedgerSettle
<1>7. ASSUME NEW now \in StatementTimes, NEW S \in SUBSET Expirable(now),
             expire_budget_reservations(S, now)
      PROVE  LedgerInv'
  BY <1>1, <1>2, <1>7, LedgerExpire
<1>8. CASE Tick
  BY <1>1, <1>8, LedgerUnchanged DEF Tick
<1>9. CASE UNCHANGED vars
  BY <1>1, <1>9, LedgerUnchanged DEF vars
<1> QED BY <1>3, <1>4, <1>5, <1>6, <1>7, <1>8, <1>9 DEF Next

\* The invariant holds of every reachable state.
LEMMA LedgerInvariant == Spec => []LedgerInv
<1> QED BY LedgerInit, LedgerStep, PTL DEF Spec

\* No account is ever committed and held beyond its limit in either window,
\* whatever the order of reservations, settlements, sweeps, period rolls and
\* limit changes: the table CHECKs never abort reserve, settle or expiry.
THEOREM LimitAlwaysRespected == Spec => []LimitRespected
<1>1. LedgerInv => LimitRespected
  BY DEF LedgerInv
<1> QED BY <1>1, LedgerInvariant, PTL

\* The reserved columns are always exactly the sum of the open holds.
THEOREM HoldsAlwaysAccounted == Spec => []HoldsAccounted
<1>1. LedgerInv => HoldsAccounted
  BY DEF LedgerInv
<1> QED BY <1>1, LedgerInvariant, PTL

\* settle_budget never meets an account that holds less than the reservation
\* it settles, so no open hold is ever stuck.
THEOREM HoldsAlwaysSettleable == Spec => []OpenHoldsSettleable
<1>1. LedgerInv => OpenHoldsSettleable
  <2> SUFFICES ASSUME LedgerInv, NEW r \in Runs, reservation[r].state = "reserved"
               PROVE  Settleable(r)
    BY DEF OpenHoldsSettleable
  <2> USE DEF LedgerInv
  <2>1. PICK p \in Principals : reservation[r].owner = p /\ HasAccount(p)
    BY DEF HoldsOwned
  <2>2. OpenHolds(p) \in SUBSET Runs /\ r \in OpenHolds(p)
    BY <2>1 DEF OpenHolds
  <2>3. MaxOf[r] = reservation[r].max /\ MaxOf[r] \in 0..MaxMicros
    BY DEF MaxOf, TypeOK, ReservationRow
  <2>4. Total(OpenHolds(p), MaxOf) = Total(OpenHolds(p) \ {r}, MaxOf) + MaxOf[r]
    BY <2>2, <2>3, TotalRemove
  <2>5. Total(OpenHolds(p) \ {r}, MaxOf) \in Nat
    BY <2>2, TotalType
  <2>6. \A w \in Windows : account[p].reserved[w] = Total(OpenHolds(p), MaxOf)
    BY <2>1 DEF HoldsAccounted
  <2>7. \A w \in Windows : account[p].reserved[w] >= reservation[r].max
    <3>1. MaxOf[r] \in Nat
      BY <2>3, ConstantsAssumption
    <3>2. Total(OpenHolds(p), MaxOf) >= MaxOf[r]
      BY <2>4, <2>5, <3>1
    <3> QED BY <2>3, <2>6, <3>2
  <2> QED BY <2>1, <2>7 DEF Settleable
<1> QED BY <1>1, LedgerInvariant, PTL

-----------------------------------------------------------------------------
(***************************************************************************)
(* Rows that are final.                                                    *)
(***************************************************************************)

\* However a late settlement, a second one and the sweep are ordered, a settled
\* or expired reservation never changes again.
THEOREM FinalAlwaysFinal == Spec => FinalStaysFinal
<1>1. TypeOK /\ [Next]_vars =>
        [\A r \in Runs : reservation[r].state \in {"settled", "expired"}
                         => reservation'[r] = reservation[r]]_vars
  <2> SUFFICES ASSUME TypeOK, Next, NEW r \in Runs,
                      reservation[r].state \in {"settled", "expired"}
               PROVE  reservation'[r] = reservation[r]
    OBVIOUS
  <2>1. ASSUME NEW p \in Principals, admin_create_principal(p) \/ DisablePrincipal(p)
        PROVE  reservation'[r] = reservation[r]
    BY <2>1 DEF admin_create_principal, DisablePrincipal
  <2>2. ASSUME NEW p, NEW d, NEW m, NEW now, admin_set_budget(p, d, m, now)
        PROVE  reservation'[r] = reservation[r]
    BY <2>2 DEF admin_set_budget
  <2>3. ASSUME NEW p, NEW x \in Runs, NEW m, NEW now, reserve_budget(p, x, m, now)
        PROVE  reservation'[r] = reservation[r]
    BY <2>3 DEF reserve_budget, TypeOK
  <2>4. ASSUME NEW x \in Runs, NEW c, NEW now, settle_budget(x, c, now)
        PROVE  reservation'[r] = reservation[r]
    BY <2>4 DEF settle_budget, Settleable, TypeOK
  <2>5. ASSUME NEW now, NEW S, expire_budget_reservations(S, now)
        PROVE  reservation'[r] = reservation[r]
    BY <2>5 DEF expire_budget_reservations, Expirable
  <2>6. CASE Tick
    BY <2>6 DEF Tick
  <2> QED BY <2>1, <2>2, <2>3, <2>4, <2>5, <2>6 DEF Next
<1> QED BY <1>1, TypeCorrect, PTL DEF Spec, FinalStaysFinal

-----------------------------------------------------------------------------
(***************************************************************************)
(* The windows.  Statements take effect with times older than the clock,   *)
(* so all that is known of a window is that its end is one the calendar    *)
(* has, and that a roll moves it forward.                                  *)
(***************************************************************************)

\* An account's periods are the calendar's (0 before the account is opened); the
\* day ends no later than the month and has committed no more.
RowInCalendar(a) ==
  /\ \A w \in Windows : \/ a.periodEnd[w] = 0
                        \/ \E t \in Times : a.periodEnd[w] = PeriodEnd[w][t]
  /\ a.periodEnd["daily"] <= a.periodEnd["monthly"]
  /\ a.committed["daily"] <= a.committed["monthly"]

\* An account without a row has no period.
Unopened ==
  \A p \in Principals : ~HasAccount(p) => \A w \in Windows : account[p].periodEnd[w] = 0

\* No run was settled in a period that is still to come.
SettledInPast ==
  \A r \in Runs, w \in Windows : reservation[r].state = "settled" =>
    /\ reservation[r].owner \in Principals
    /\ PeriodEnd[w][reservation[r].settledAt] <= account[reservation[r].owner].periodEnd[w]

\* WindowSpendCovered needs SettledInPast when a window restarts: no run that was
\* settled before is in the new period, whose committed column is zero.
WindowInv ==
  /\ \A p \in Principals : RowInCalendar(account[p])
  /\ Unopened
  /\ SettledInPast
  /\ WindowSpendCovered

\* A window that rolls restarts empty in a later period; the other stays as it is.
LEMMA RollWindows ==
  ASSUME NEW a \in AccountRow, NEW now \in Times, RowInCalendar(a)
  PROVE  LET b == budget_roll_periods(a, now) IN
         /\ RowInCalendar(b)
         /\ \A w \in Windows :
              /\ PeriodEnd[w][now] <= b.periodEnd[w]
              /\ \/ b.periodEnd[w] = a.periodEnd[w] /\ b.committed[w] = a.committed[w]
                 \/ b.periodEnd[w] > a.periodEnd[w] /\ b.committed[w] = 0
<1> DEFINE b == budget_roll_periods(a, now)
<1>1. ASSUME NEW w \in Windows
      PROVE  /\ b.committed[w] = IF now >= a.periodEnd[w] THEN 0 ELSE a.committed[w]
             /\ b.periodEnd[w] = IF now >= a.periodEnd[w] THEN PeriodEnd[w][now]
                                 ELSE a.periodEnd[w]
  BY DEF budget_roll_periods
<1> HIDE DEF b
<1>2. /\ now \in Nat
      /\ \A w \in Windows : /\ a.periodEnd[w] \in Nat /\ a.committed[w] \in Nat
                            /\ PeriodEnd[w][now] \in Nat /\ now < PeriodEnd[w][now]
  <2>1. now \in Nat
    BY DEF Times
  <2>2. \A w \in Windows : a.periodEnd[w] \in Nat /\ a.committed[w] \in Nat
    BY DEF AccountRow
  <2>3. \A w \in Windows : PeriodEnd[w][now] \in Nat /\ now < PeriodEnd[w][now]
    BY CalendarAssumption
  <2> QED BY <2>1, <2>2, <2>3
<1>3. ASSUME NEW w \in Windows, now < a.periodEnd[w]
      PROVE  PeriodEnd[w][now] <= a.periodEnd[w]
  <2>1. PICK t \in Times : a.periodEnd[w] = PeriodEnd[w][t]
    BY <1>2, <1>3 DEF RowInCalendar
  <2> QED BY <1>3, <2>1, CalendarAssumption
<1>4. ASSUME NEW w \in Windows
      PROVE  /\ PeriodEnd[w][now] <= b.periodEnd[w]
             /\ \/ b.periodEnd[w] = a.periodEnd[w] /\ b.committed[w] = a.committed[w]
                \/ b.periodEnd[w] > a.periodEnd[w] /\ b.committed[w] = 0
  BY <1>1, <1>2, <1>3
<1>5. \A w \in Windows : \/ b.periodEnd[w] = 0
                         \/ \E t \in Times : b.periodEnd[w] = PeriodEnd[w][t]
  BY <1>1 DEF RowInCalendar
<1>6. /\ b.periodEnd["daily"] <= b.periodEnd["monthly"]
      /\ b.committed["daily"] <= b.committed["monthly"]
  <2>1. "daily" \in Windows /\ "monthly" \in Windows
    BY DEF Windows
  <2>2. PeriodEnd["daily"][now] <= PeriodEnd["monthly"][now]
    BY CalendarAssumption
  <2>3. /\ a.periodEnd["daily"] <= a.periodEnd["monthly"]
        /\ a.committed["daily"] <= a.committed["monthly"]
    BY DEF RowInCalendar
  <2> QED BY <1>1, <1>2, <1>3, <2>1, <2>2, <2>3
<1>7. RowInCalendar(b)
  BY <1>5, <1>6 DEF RowInCalendar
<1> QED BY <1>4, <1>7 DEF b

\* Steps that settle nothing: accounts stay as they are or roll, or are opened.
LEMMA WindowsRoll ==
  ASSUME TypeOK, TypeOK', WindowInv, NEW now \in Times,
         \A p \in Principals :
           \/ /\ account'[p].committed = account[p].committed
              /\ account'[p].periodEnd = account[p].periodEnd
              /\ HasAccount(p) => HasAccount(p)'
           \/ /\ account'[p].committed = budget_roll_periods(account[p], now).committed
              /\ account'[p].periodEnd = budget_roll_periods(account[p], now).periodEnd
              /\ HasAccount(p)',
         \A r \in Runs : (reservation[r].state = "settled" \/ reservation'[r].state = "settled")
                         => reservation'[r] = reservation[r]
  PROVE  WindowInv'
<1> USE DEF WindowInv
<1>1. ASSUME NEW p \in Principals
      PROVE  /\ RowInCalendar(account'[p])
             /\ \A w \in Windows :
                  \/ /\ account'[p].periodEnd[w] = account[p].periodEnd[w]
                     /\ account'[p].committed[w] = account[p].committed[w]
                  \/ /\ account'[p].periodEnd[w] > account[p].periodEnd[w]
                     /\ account'[p].committed[w] = 0
  <2> DEFINE b == budget_roll_periods(account[p], now)
  <2>1. account[p] \in AccountRow /\ RowInCalendar(account[p])
    BY DEF TypeOK
  <2>2. /\ RowInCalendar(b)
        /\ \A w \in Windows :
             \/ /\ b.periodEnd[w] = account[p].periodEnd[w]
                /\ b.committed[w] = account[p].committed[w]
             \/ b.periodEnd[w] > account[p].periodEnd[w] /\ b.committed[w] = 0
    BY <2>1, RollWindows
  <2> HIDE DEF b
  <2>3. \/ /\ account'[p].committed = account[p].committed
           /\ account'[p].periodEnd = account[p].periodEnd
        \/ account'[p].committed = b.committed /\ account'[p].periodEnd = b.periodEnd
    BY DEF b
  <2> QED BY <2>1, <2>2, <2>3 DEF RowInCalendar
<1>2. \A p \in Principals : RowInCalendar(account[p])'
  BY <1>1 DEF RowInCalendar
<1>3. Unopened'
  BY <1>1 DEF Unopened
<1>4. ASSUME NEW r \in Runs, NEW w \in Windows, reservation[r].state = "settled"
      PROVE  /\ PeriodEnd[w][reservation[r].settledAt] \in Nat
             /\ reservation[r].owner \in Principals
             /\ PeriodEnd[w][reservation[r].settledAt]
                  <= account[reservation[r].owner].periodEnd[w]
  <2>1. reservation[r].settledAt \in Times
    BY DEF TypeOK, ReservationRow
  <2> QED BY <1>4, <2>1, CalendarAssumption DEF SettledInPast
<1>5. \A p \in Principals, w \in Windows : /\ account[p].periodEnd[w] \in Nat
                                           /\ account'[p].periodEnd[w] \in Nat
  BY DEF TypeOK, AccountRow
<1>6. SettledInPast'
  <2> SUFFICES ASSUME NEW r \in Runs, NEW w \in Windows, reservation'[r].state = "settled"
               PROVE  /\ reservation'[r].owner \in Principals
                      /\ PeriodEnd[w][reservation'[r].settledAt]
                           <= account'[reservation'[r].owner].periodEnd[w]
    BY DEF SettledInPast
  <2>1. reservation'[r] = reservation[r] /\ reservation[r].state = "settled"
    OBVIOUS
  <2>2. /\ reservation[r].owner \in Principals
        /\ account'[reservation[r].owner].periodEnd[w]
             >= account[reservation[r].owner].periodEnd[w]
    BY <1>1, <1>4, <1>5, <2>1
  <2> QED BY <1>4, <1>5, <2>1, <2>2
<1>7. WindowSpendCovered'
  <2> SUFFICES ASSUME NEW p \in Principals, NEW w \in Windows
               PROVE  Total(SettledInWindow(p, w)', ActualOf') <= account'[p].committed[w]
    BY DEF WindowSpendCovered
  <2>1. SettledInWindow(p, w)' \in SUBSET Runs
    BY DEF SettledInWindow
  <2>2. CASE /\ account'[p].periodEnd[w] = account[p].periodEnd[w]
             /\ account'[p].committed[w] = account[p].committed[w]
    <3>1. SettledInWindow(p, w)' = SettledInWindow(p, w)
      BY <2>2 DEF SettledInWindow
    <3>2. \A r \in SettledInWindow(p, w)' : ActualOf'[r] = ActualOf[r]
      BY <3>1 DEF SettledInWindow, ActualOf
    <3>3. Total(SettledInWindow(p, w)', ActualOf') = Total(SettledInWindow(p, w)', ActualOf)
      BY <2>1, <3>2, TotalSame
    <3>4. Total(SettledInWindow(p, w), ActualOf) <= account[p].committed[w]
      BY DEF WindowSpendCovered
    <3> QED BY <2>2, <3>1, <3>3, <3>4
  <2>3. CASE /\ account'[p].periodEnd[w] > account[p].periodEnd[w]
             /\ account'[p].committed[w] = 0
    <3>1. ASSUME NEW r \in SettledInWindow(p, w)' PROVE FALSE
      <4>1. /\ r \in Runs /\ reservation'[r].state = "settled" /\ reservation'[r].owner = p
            /\ PeriodEnd[w][reservation'[r].settledAt] = account'[p].periodEnd[w]
        BY DEF SettledInWindow
      <4>2. reservation'[r] = reservation[r]
        BY <4>1
      <4> QED BY <1>4, <1>5, <2>3, <4>1, <4>2
    <3>2. SettledInWindow(p, w)' = {}
      BY <3>1
    <3>3. Total(SettledInWindow(p, w)', ActualOf') = 0
      BY <3>2, TotalEmpty
    <3> QED BY <2>3, <3>3
  <2> QED BY <1>1, <2>2, <2>3
<1> QED BY <1>2, <1>3, <1>6, <1>7

\* A settlement charges the window its own time falls into, or a later one.
LEMMA WindowsSettle ==
  ASSUME LedgerInv, TypeOK', WindowInv, NEW r \in Runs,
         NEW x \in (0..MaxMicros) \cup {Null}, NEW now \in Times, settle_budget(r, x, now)
  PROVE  WindowInv'
<1> USE DEF WindowInv, LedgerInv
<1>1. PICK p \in Principals : /\ reservation[r].owner = p
                              /\ reservation[r].state = "reserved" /\ HasAccount(p)
  BY DEF settle_budget, Settleable, HoldsOwned
<1> DEFINE a == budget_roll_periods(account[p], now)
           c == Charge(r, x)
<1>2. /\ a \in AccountRow /\ a.limit = account[p].limit
      /\ RowInCalendar(a)
      /\ \A w \in Windows :
           /\ PeriodEnd[w][now] <= a.periodEnd[w]
           /\ \/ /\ a.periodEnd[w] = account[p].periodEnd[w]
                 /\ a.committed[w] = account[p].committed[w]
              \/ a.periodEnd[w] > account[p].periodEnd[w] /\ a.committed[w] = 0
  <2>1. account[p] \in AccountRow /\ RowInCalendar(account[p])
    BY DEF TypeOK
  <2> QED BY <2>1, RollRow, RollWindows
<1>3. account' = [account EXCEPT ![p] =
        [a EXCEPT !.reserved = [w \in Windows |-> a.reserved[w] - reservation[r].max],
                  !.committed = [w \in Windows |-> a.committed[w] + c]]]
  BY <1>1 DEF settle_budget
<1>4. c \in 0..MaxMicros
  <2>1. c \in 0..reservation[r].max /\ reservation[r].max \in 0..MaxMicros
    BY ChargeBounds
  <2> QED BY <2>1, ConstantsAssumption
<1>5. /\ \A y \in Runs : y # r => reservation'[y] = reservation[y]
      /\ reservation'[r].state = "settled" /\ reservation'[r].owner = p
      /\ reservation'[r].actual = c /\ reservation'[r].settledAt = now
  BY <1>1 DEF settle_budget, TypeOK, ReservationRow
<1> HIDE DEF a, c
<1>6. /\ \A q \in Principals : q # p => account'[q] = account[q]
      /\ account'[p].limit = account[p].limit
      /\ account'[p].periodEnd = a.periodEnd
      /\ \A w \in Windows : account'[p].committed[w] = a.committed[w] + c
  BY <1>1, <1>2, <1>3 DEF TypeOK, AccountRow
<1>7. /\ c \in Nat
      /\ \A w \in Windows : /\ a.committed[w] \in Nat /\ a.periodEnd[w] \in Nat
                            /\ account[p].periodEnd[w] \in Nat
  BY <1>2, <1>4, ConstantsAssumption DEF TypeOK, AccountRow
<1>8. \A q \in Principals : RowInCalendar(account[q])'
  <2>1. RowInCalendar(account[p])'
    BY <1>2, <1>6, <1>7 DEF RowInCalendar, Windows
  <2>2. \A q \in Principals : q # p => RowInCalendar(account[q])'
    BY <1>6 DEF RowInCalendar
  <2> QED BY <2>1, <2>2
<1>9. Unopened'
  BY <1>1, <1>6 DEF Unopened, HasAccount
<1>10. ASSUME NEW y \in Runs, NEW w \in Windows, reservation[y].state = "settled"
       PROVE  /\ PeriodEnd[w][reservation[y].settledAt] \in Nat
              /\ reservation[y].owner \in Principals
              /\ PeriodEnd[w][reservation[y].settledAt]
                   <= account[reservation[y].owner].periodEnd[w]
  <2>1. reservation[y].settledAt \in Times
    BY DEF TypeOK, ReservationRow
  <2> QED BY <1>10, <2>1, CalendarAssumption DEF SettledInPast
<1>11. SettledInPast'
  <2> SUFFICES ASSUME NEW y \in Runs, NEW w \in Windows, reservation'[y].state = "settled"
               PROVE  /\ reservation'[y].owner \in Principals
                      /\ PeriodEnd[w][reservation'[y].settledAt]
                           <= account'[reservation'[y].owner].periodEnd[w]
    BY DEF SettledInPast
  <2>1. CASE y = r
    BY <1>2, <1>5, <1>6, <2>1
  <2>2. CASE y # r /\ reservation[y].owner = p
    <3>1. /\ reservation'[y] = reservation[y]
          /\ PeriodEnd[w][reservation[y].settledAt] <= account[p].periodEnd[w]
          /\ PeriodEnd[w][reservation[y].settledAt] \in Nat
      BY <1>5, <1>10, <2>2
    <3>2. account'[p].periodEnd[w] \in Nat
          /\ account'[p].periodEnd[w] >= account[p].periodEnd[w]
      BY <1>2, <1>6, <1>7
    <3> QED BY <1>7, <2>2, <3>1, <3>2
  <2>3. CASE y # r /\ reservation[y].owner # p
    BY <1>5, <1>6, <1>10, <2>3
  <2> QED BY <2>1, <2>2, <2>3
<1>12. \A y \in Runs : y # r => ActualOf'[y] = ActualOf[y]
  BY <1>5 DEF ActualOf
<1>13. ASSUME NEW q \in Principals, NEW w \in Windows, q # p
       PROVE  Total(SettledInWindow(q, w)', ActualOf') <= account'[q].committed[w]
  <2>1. /\ SettledInWindow(q, w)' = SettledInWindow(q, w)
        /\ SettledInWindow(q, w) \in SUBSET Runs /\ r \notin SettledInWindow(q, w)
    BY <1>1, <1>5, <1>6, <1>13 DEF SettledInWindow
  <2>2. Total(SettledInWindow(q, w), ActualOf') = Total(SettledInWindow(q, w), ActualOf)
    <3>1. \A y \in SettledInWindow(q, w) : ActualOf'[y] = ActualOf[y]
      BY <1>12, <2>1
    <3> QED BY <2>1, <3>1, TotalSame
  <2> QED BY <1>6, <1>13, <2>1, <2>2 DEF WindowSpendCovered
<1>14. ASSUME NEW w \in Windows
       PROVE  Total(SettledInWindow(p, w)', ActualOf') <= account'[p].committed[w]
  <2> DEFINE old == SettledInWindow(p, w)' \ {r}
  <2>1. old \in SUBSET Runs /\ SettledInWindow(p, w)' \in SUBSET Runs
    BY DEF SettledInWindow
  <2>2. Total(old, ActualOf') = Total(old, ActualOf)
    <3>1. \A y \in old : ActualOf'[y] = ActualOf[y]
      BY <1>12, <2>1
    <3> QED BY <2>1, <3>1, TotalSame
  <2>3. Total(old, ActualOf) <= a.committed[w]
    <3>1. CASE /\ a.periodEnd[w] = account[p].periodEnd[w]
               /\ a.committed[w] = account[p].committed[w]
      <4>1. old = SettledInWindow(p, w)
        BY <1>1, <1>5, <1>6, <3>1 DEF SettledInWindow
      <4> QED BY <3>1, <4>1 DEF WindowSpendCovered
    <3>2. CASE a.periodEnd[w] > account[p].periodEnd[w] /\ a.committed[w] = 0
      <4>1. ASSUME NEW y \in old PROVE FALSE
        <5>1. /\ y \in Runs /\ y # r /\ reservation'[y].state = "settled"
              /\ reservation'[y].owner = p
              /\ PeriodEnd[w][reservation'[y].settledAt] = account'[p].periodEnd[w]
          BY DEF SettledInWindow
        <5>2. reservation'[y] = reservation[y] /\ account'[p].periodEnd[w] = a.periodEnd[w]
          BY <1>5, <1>6, <5>1
        <5> QED BY <1>7, <1>10, <3>2, <5>1, <5>2
      <4>2. old = {}
        BY <4>1
      <4>3. Total(old, ActualOf) = 0
        BY <4>2, TotalEmpty
      <4> QED BY <3>2, <4>3
    <3> QED BY <1>2, <3>1, <3>2
  <2>4. Total(SettledInWindow(p, w)', ActualOf') <= Total(old, ActualOf') + c
    <3>1. ActualOf'[r] = c /\ Total(old, ActualOf') \in Nat
      BY <1>5, <2>1, TotalType DEF ActualOf
    <3>2. CASE r \in SettledInWindow(p, w)'
      <4> DEFINE T == SettledInWindow(p, w)'
      <4>1. T \in SUBSET Runs /\ r \in T
        BY <2>1, <3>2
      <4> HIDE DEF T
      <4>2. Total(T, ActualOf') = Total(T \ {r}, ActualOf') + ActualOf'[r]
        BY <1>4, <3>1, <4>1, TotalRemove
      <4>3. Total(T \ {r}, ActualOf') = Total(old, ActualOf')
        BY DEF T
      <4>4. Total(T, ActualOf') <= Total(old, ActualOf') + c
        BY <1>7, <3>1, <4>2, <4>3
      <4> QED BY <4>4 DEF T
    <3>3. CASE r \notin SettledInWindow(p, w)'
      <4> DEFINE n == Total(old, ActualOf')
      <4>1. old = SettledInWindow(p, w)'
        BY <3>3
      <4>2. n \in Nat
        BY <3>1
      <4> HIDE DEF n
      <4>3. n <= n + c
        BY <1>7, <4>2
      <4> QED BY <4>1, <4>3 DEF n
    <3> QED BY <3>2, <3>3
  <2>5. Total(old, ActualOf) \in Nat /\ Total(SettledInWindow(p, w)', ActualOf') \in Nat
    BY <2>1, TotalType
  <2> HIDE DEF old
  <2> QED BY <1>6, <1>7, <2>2, <2>3, <2>4, <2>5
<1>15. WindowSpendCovered'
  BY <1>13, <1>14 DEF WindowSpendCovered
<1> QED BY <1>8, <1>9, <1>11, <1>15

\* Accounts without a row satisfy the invariant.
LEMMA WindowInit == Init => WindowInv
<1> SUFFICES ASSUME Init PROVE WindowInv
  OBVIOUS
<1>1. \A p \in Principals, w \in Windows :
        account[p].periodEnd[w] = 0 /\ account[p].committed[w] = 0
  BY DEF Init, NoAccount
<1>2. \A r \in Runs : reservation[r].state = "none"
  BY DEF Init, NoReservation
<1>3. \A p \in Principals : RowInCalendar(account[p])
  BY <1>1 DEF RowInCalendar, Windows
<1>4. \A p \in Principals, w \in Windows : SettledInWindow(p, w) = {}
  BY <1>2 DEF SettledInWindow
<1>5. WindowSpendCovered
  BY <1>1, <1>4, TotalEmpty DEF WindowSpendCovered
<1> QED BY <1>1, <1>2, <1>3, <1>5 DEF WindowInv, Unopened, SettledInPast

\* Every step keeps the invariant.
LEMMA WindowStep == LedgerInv /\ WindowInv /\ [Next]_vars => WindowInv'
<1> SUFFICES ASSUME LedgerInv, WindowInv, [Next]_vars PROVE WindowInv'
  OBVIOUS
<1>1. TypeOK /\ TypeOK'
  BY TypeStep DEF LedgerInv
<1>2. StatementTimes \subseteq Times /\ 0 \in Times
  BY ConstantsAssumption DEF StatementTimes, Times
<1>3. ASSUME UNCHANGED <<account, reservation>> PROVE WindowInv'
  BY <1>1, <1>2, <1>3, WindowsRoll DEF HasAccount
<1>4. ASSUME NEW p \in Principals, NEW d \in 1..MaxLimit, NEW m \in 1..MaxLimit,
             NEW now \in StatementTimes, admin_set_budget(p, d, m, now)
      PROVE  WindowInv'
  <2> DEFINE L == [w \in Windows |-> IF w = "daily" THEN d ELSE m]
             b == budget_roll_periods(account[p], now)
  <2>1. now \in Times /\ reservation' = reservation
    BY <1>2, <1>4 DEF admin_set_budget
  <2>2. \A q \in Principals : q # p => account'[q] = account[q]
    BY <1>1, <1>4 DEF TypeOK, admin_set_budget
  <2>3. "daily" \in Windows /\ L["daily"] \in Nat /\ L["daily"] > 0
    BY ConstantsAssumption DEF Windows
  <2>4. CASE HasAccount(p)
    <3>1. account' = [account EXCEPT ![p].limit = L]
      BY <1>4, <2>4 DEF admin_set_budget
    <3> HIDE DEF L
    <3>2. /\ account'[p].limit = L
          /\ account'[p].committed = account[p].committed
          /\ account'[p].periodEnd = account[p].periodEnd
      BY <1>1, <3>1 DEF TypeOK, AccountRow
    <3> QED BY <1>1, <2>1, <2>2, <2>3, <3>2, WindowsRoll DEF HasAccount
  <2>5. CASE ~HasAccount(p)
    <3>1. account' = [account EXCEPT ![p] =
            [NoAccount EXCEPT !.limit = L,
                              !.periodEnd = [w \in Windows |-> PeriodEnd[w][now]]]]
      BY <1>4, <2>5 DEF admin_set_budget
    <3> HIDE DEF L
    <3>2. /\ account'[p].limit = L
          /\ account'[p].committed = [w \in Windows |-> 0]
          /\ account'[p].periodEnd = [w \in Windows |-> PeriodEnd[w][now]]
      BY <1>1, <3>1 DEF TypeOK, NoAccount
    <3>3. now \in Nat /\ \A w \in Windows : account[p].periodEnd[w] = 0
      BY <2>1, <2>5 DEF WindowInv, Unopened, Times
    <3>4. b.committed = [w \in Windows |-> 0] /\ b.periodEnd = [w \in Windows |-> PeriodEnd[w][now]]
      BY <3>3 DEF budget_roll_periods
    <3> HIDE DEF b
    <3>5. account'[p].committed = b.committed /\ account'[p].periodEnd = b.periodEnd
      BY <3>2, <3>4
    <3>6. HasAccount(p)'
      BY <2>3, <3>2 DEF HasAccount
    <3> QED BY <1>1, <2>1, <2>2, <3>5, <3>6, WindowsRoll DEF HasAccount, b
  <2> QED BY <2>4, <2>5
<1>5. ASSUME NEW p \in Principals, NEW r \in Runs, NEW m \in 1..MaxMicros,
             NEW now \in StatementTimes, reserve_budget(p, r, m, now)
      PROVE  WindowInv'
  <2> DEFINE a == budget_roll_periods(account[p], now)
  <2>1. now \in Times /\ HasAccount(p)
    BY <1>2, <1>5 DEF reserve_budget, Reservable
  <2>2. a \in AccountRow /\ a.limit = account[p].limit
    BY <1>1, <2>1, RollRow DEF TypeOK
  <2>3. account' = [account EXCEPT ![p] =
          [a EXCEPT !.reserved = [w \in Windows |-> a.reserved[w] + m]]]
    BY <1>5 DEF reserve_budget
  <2> HIDE DEF a
  <2>4. /\ \A q \in Principals : q # p => account'[q] = account[q]
        /\ account'[p].limit = account[p].limit
        /\ account'[p].committed = a.committed /\ account'[p].periodEnd = a.periodEnd
    BY <1>1, <2>2, <2>3 DEF TypeOK, AccountRow
  <2>5. \A x \in Runs :
          reservation[x].state = "settled" \/ reservation'[x].state = "settled"
          => reservation'[x] = reservation[x]
    BY <1>1, <1>5 DEF reserve_budget, TypeOK
  <2> QED BY <1>1, <2>1, <2>4, <2>5, WindowsRoll DEF HasAccount, a
<1>6. ASSUME NEW r \in Runs, NEW x \in (0..MaxMicros) \cup {Null},
             NEW now \in StatementTimes, settle_budget(r, x, now)
      PROVE  WindowInv'
  BY <1>1, <1>2, <1>6, WindowsSettle
<1>7. ASSUME NEW now \in StatementTimes, NEW S \in SUBSET Expirable(now),
             expire_budget_reservations(S, now)
      PROVE  WindowInv'
  <2>1. now \in Times
    BY <1>2
  <2>2. \A x \in Runs :
          reservation[x].state = "settled" \/ reservation'[x].state = "settled"
          => reservation'[x] = reservation[x]
    BY <1>1, <1>7, ZenonT(60) DEF expire_budget_reservations, Expirable, TypeOK, ReservationRow
  <2>3. ASSUME NEW q \in Principals
        PROVE  \/ /\ account'[q].committed = account[q].committed
                  /\ account'[q].periodEnd = account[q].periodEnd
                  /\ HasAccount(q) => HasAccount(q)'
               \/ /\ account'[q].committed = budget_roll_periods(account[q], now).committed
                  /\ account'[q].periodEnd = budget_roll_periods(account[q], now).periodEnd
                  /\ HasAccount(q)'
    <3> DEFINE H == S \cap OpenHolds(q)
               a == budget_roll_periods(account[q], now)
               t == Total(H, MaxOf)
    <3>1. CASE H = {}
      <4>1. account'[q] = account[q]
        BY <1>7, <3>1 DEF expire_budget_reservations
      <4> QED BY <4>1 DEF HasAccount
    <3>2. CASE H # {}
      <4>1. account'[q] = WithoutHolds(q, H, now)
        BY <1>7, <3>2 DEF expire_budget_reservations
      <4>2. account'[q] = [a EXCEPT !.reserved =
              [w \in Windows |-> IF a.reserved[w] >= t THEN a.reserved[w] - t ELSE 0]]
        BY <4>1 DEF WithoutHolds
      <4>3. a \in AccountRow /\ a.limit = account[q].limit
        BY <1>1, <2>1, RollRow DEF TypeOK
      <4>4. HasAccount(q)
        BY <3>2 DEF OpenHolds, LedgerInv, HoldsOwned
      <4> HIDE DEF a, t
      <4>5. /\ account'[q].limit = account[q].limit
            /\ account'[q].committed = a.committed /\ account'[q].periodEnd = a.periodEnd
        BY <4>2, <4>3 DEF AccountRow
      <4> QED BY <4>4, <4>5 DEF HasAccount, a
    <3> QED BY <3>1, <3>2
  <2> QED BY <1>1, <2>1, <2>2, <2>3, WindowsRoll
<1>8. ASSUME NEW p \in Principals, admin_create_principal(p) \/ DisablePrincipal(p)
      PROVE  WindowInv'
  BY <1>3, <1>8 DEF admin_create_principal, DisablePrincipal
<1>9. CASE Tick \/ UNCHANGED vars
  BY <1>3, <1>9 DEF Tick, vars
<1> QED BY <1>4, <1>5, <1>6, <1>7, <1>8, <1>9 DEF Next

\* The invariant holds of every reachable state.
LEMMA WindowInvariant == Spec => []WindowInv
BY LedgerInvariant, WindowInit, WindowStep, PTL DEF Spec

\* A window never forgets a charge: for every calendar and every lag of the
\* statements' times, what was settled in an account's current period is in its
\* committed column.
THEOREM WindowSpendAlwaysCovered == Spec => []WindowSpendCovered
<1>1. WindowInv => WindowSpendCovered
  BY DEF WindowInv
<1> QED BY <1>1, WindowInvariant, PTL

\* The month has always committed at least what the day has.
THEOREM DayAlwaysWithinMonth == Spec => []DayWithinMonth
<1>1. WindowInv => DayWithinMonth
  BY DEF WindowInv, RowInCalendar, DayWithinMonth
<1> QED BY <1>1, WindowInvariant, PTL

-----------------------------------------------------------------------------
(***************************************************************************)
(* The sweep, one hold after the other.                                    *)
(***************************************************************************)

\* Account rows are equal when their columns are.
LEMMA SameRow ==
  ASSUME NEW a \in AccountRow, NEW b \in AccountRow,
         a.limit = b.limit, a.committed = b.committed,
         a.reserved = b.reserved, a.periodEnd = b.periodEnd
  PROVE  a = b
BY DEF AccountRow

\* Rolling the periods to a time when none is over changes nothing.
LEMMA RollCurrent ==
  ASSUME NEW a \in AccountRow, NEW now \in Times, \A w \in Windows : now < a.periodEnd[w]
  PROVE  budget_roll_periods(a, now) = a
<1> DEFINE C == [w \in Windows |-> IF now >= a.periodEnd[w] THEN 0 ELSE a.committed[w]]
           E == [w \in Windows |-> IF now >= a.periodEnd[w] THEN PeriodEnd[w][now]
                                   ELSE a.periodEnd[w]]
           b == budget_roll_periods(a, now)
<1>1. b = [limit |-> a.limit, committed |-> C, reserved |-> a.reserved, periodEnd |-> E]
  BY DEF budget_roll_periods
<1>2. \A w \in Windows : now \in Int /\ a.periodEnd[w] \in Int /\ ~(now >= a.periodEnd[w])
  BY ConstantsAssumption DEF AccountRow, Times
<1>3. C = a.committed /\ E = a.periodEnd
  BY <1>2 DEF AccountRow
<1>4. b \in AccountRow
  BY RollRow
<1> HIDE DEF C, E, b
<1>5. b.limit = a.limit /\ b.committed = a.committed /\ b.reserved = a.reserved
      /\ b.periodEnd = a.periodEnd
  BY <1>1, <1>3
<1>6. b = a
  BY <1>4, <1>5, SameRow
<1> QED BY <1>6 DEF b

\* Periods that have been rolled to a time are not over at it.
LEMMA RolledCurrent ==
  ASSUME NEW a \in AccountRow, NEW now \in Times, NEW w \in Windows
  PROVE  now < budget_roll_periods(a, now).periodEnd[w]
<1>1. now < PeriodEnd[w][now] /\ PeriodEnd[w][now] \in Int
  BY CalendarAssumption
<1>2. a.periodEnd[w] \in Int /\ now \in Int
  BY ConstantsAssumption DEF AccountRow, Times
<1> QED BY <1>1, <1>2 DEF budget_roll_periods

\* What one round of the sweep's loop leaves of the account row a.
OneLess(a, m) ==
  [a EXCEPT !.reserved = [w \in Windows |->
     IF a.reserved[w] >= m THEN a.reserved[w] - m ELSE 0]]

\* The loop of expire_budget_reservations: each round gives back one hold, and
\* together the rounds give back what WithoutHolds does.
LEMMA SweepOne ==
  ASSUME LedgerInv, NEW p \in Principals, NEW S \in SUBSET OpenHolds(p),
         NEW r \in OpenHolds(p) \ S, NEW now \in Times, NEW b,
         b = IF S = {} THEN account[p] ELSE WithoutHolds(p, S, now)
  PROVE  OneLess(budget_roll_periods(b, now), reservation[r].max)
           = WithoutHolds(p, S \cup {r}, now)
<1> DEFINE a0 == budget_roll_periods(account[p], now)
           m == reservation[r].max
           t == Total(S, MaxOf)
           F == [w \in Windows |-> account[p].reserved[w] - t]
           G == [w \in Windows |-> account[p].reserved[w] - (t + m)]
<1>1. account[p] \in AccountRow /\ m \in Nat /\ m \in 0..MaxMicros /\ MaxOf[r] = m
  BY ConstantsAssumption DEF LedgerInv, TypeOK, ReservationRow, OpenHolds, MaxOf
<1>2. a0 \in AccountRow /\ a0.reserved = account[p].reserved
  BY <1>1, RollRow
<1>3. \A w \in Windows : now < a0.periodEnd[w]
  BY <1>1, RolledCurrent
<1>4. /\ t \in Nat /\ Total(S \cup {r}, MaxOf) = t + m
      /\ \A w \in Windows : account[p].reserved[w] \in Nat
                            /\ account[p].reserved[w] >= t + m
  <2>1. S \cup {r} \in SUBSET Runs /\ S \in SUBSET Runs /\ (S \cup {r}) \ {r} = S
        /\ r \in S \cup {r}
    BY DEF OpenHolds
  <2>2. Total(S \cup {r}, MaxOf) = t + m
    <3> DEFINE V == S \cup {r}
    <3>1. V \in SUBSET Runs /\ r \in V /\ V \ {r} = S
      BY <2>1
    <3> HIDE DEF V
    <3>2. Total(V, MaxOf) = Total(V \ {r}, MaxOf) + MaxOf[r]
      BY <1>1, <3>1, TotalRemove
    <3>3. Total(V, MaxOf) = Total(S, MaxOf) + m
      BY <1>1, <3>1, <3>2
    <3> QED BY <3>3 DEF V
  <2> DEFINE R == OpenHolds(p) \ (S \cup {r})
  <2>3. /\ OpenHolds(p) = (S \cup {r}) \cup R /\ (S \cup {r}) \cap R = {}
        /\ R \in SUBSET Runs
    BY DEF OpenHolds
  <2>4. Total(OpenHolds(p), MaxOf) = Total(S \cup {r}, MaxOf) + Total(R, MaxOf)
    BY <2>1, <2>3, TotalDisjoint
  <2>5. t \in Nat /\ Total(R, MaxOf) \in Nat
    BY <2>1, <2>3, TotalType
  <2>6. \A w \in Windows : account[p].reserved[w] = Total(OpenHolds(p), MaxOf)
    BY DEF LedgerInv, HoldsAccounted
  <2> DEFINE n == Total(OpenHolds(p), MaxOf)
             q == Total(R, MaxOf)
             u == Total(S \cup {r}, MaxOf)
  <2> HIDE DEF n, q, u, t, m, R
  <2>7. u = t + m /\ n = u + q /\ t \in Nat /\ q \in Nat
        /\ \A w \in Windows : account[p].reserved[w] = n
    BY <2>2, <2>4, <2>5, <2>6 DEF n, q, u, t
  <2>8. n \in Nat /\ n >= t + m
    BY <1>1, <2>7
  <2> QED BY <2>2, <2>7, <2>8
<1> HIDE DEF t
<1>5. F \in [Windows -> Nat] /\ G \in [Windows -> Nat]
  BY <1>1, <1>4
<1>6. WithoutHolds(p, S \cup {r}, now) = [a0 EXCEPT !.reserved = G]
  BY <1>1, <1>2, <1>4 DEF WithoutHolds
<1>7. b = [a0 EXCEPT !.reserved = F] \/ (b = account[p] /\ F = account[p].reserved)
  <2>1. CASE S = {}
    <3>1. t = 0
      BY <2>1, TotalEmpty DEF t
    <3>2. account[p].reserved \in [Windows -> Nat] /\ b = account[p]
      BY <1>1, <2>1 DEF AccountRow
    <3> QED BY <3>1, <3>2
  <2>2. CASE S # {}
    BY <1>1, <1>2, <1>4, <2>2 DEF WithoutHolds, t
  <2> QED BY <2>1, <2>2
<1> DEFINE a == budget_roll_periods(b, now)
<1>8. /\ a \in AccountRow /\ a.reserved = F
      /\ a.limit = a0.limit /\ a.committed = a0.committed /\ a.periodEnd = a0.periodEnd
  <2> HIDE DEF F, a0
  <2>1. CASE b = [a0 EXCEPT !.reserved = F]
    <3>1. b \in AccountRow /\ \A w \in Windows : now < b.periodEnd[w]
      BY <1>2, <1>3, <1>5, <2>1 DEF AccountRow
    <3>2. a = b
      BY <3>1, RollCurrent
    <3> QED BY <1>2, <2>1, <3>1, <3>2 DEF AccountRow
  <2>2. CASE b = account[p] /\ F = account[p].reserved
    <3>1. a = a0
      BY <2>2 DEF a0
    <3> QED BY <1>2, <2>2, <3>1
  <2> QED BY <1>7, <2>1, <2>2
<1> HIDE DEF a, a0
<1>9. [w \in Windows |-> IF a.reserved[w] >= m THEN a.reserved[w] - m ELSE 0] = G
  <2>1. ASSUME NEW w \in Windows
        PROVE  (IF a.reserved[w] >= m THEN a.reserved[w] - m ELSE 0)
                 = account[p].reserved[w] - (t + m)
    BY <1>1, <1>4, <1>8, <2>1
  <2> QED BY <2>1
<1> HIDE DEF F, G
<1>10. [a EXCEPT !.reserved = G] = [a0 EXCEPT !.reserved = G]
  <2> DEFINE x == [a EXCEPT !.reserved = G]
             y == [a0 EXCEPT !.reserved = G]
  <2>1. x \in AccountRow /\ y \in AccountRow
    BY <1>2, <1>5, <1>8 DEF AccountRow
  <2>2. x.limit = y.limit /\ x.committed = y.committed /\ x.reserved = y.reserved
        /\ x.periodEnd = y.periodEnd
    BY <1>2, <1>8 DEF AccountRow
  <2> HIDE DEF x, y
  <2>3. x = y
    BY <2>1, <2>2, SameRow
  <2> QED BY <2>3 DEF x, y
<1> QED BY <1>6, <1>9, <1>10 DEF a, OneLess
=============================================================================
