---------------------------- MODULE BudgetLocks -----------------------------
(***************************************************************************)
(* The row locks of the ledger.  Budget takes every SQL function to be one *)
(* atomic step.  Here each of the three that the gateway calls runs as     *)
(* PostgreSQL runs it, under READ COMMITTED: one action for every row it   *)
(* locks with FOR UPDATE, writes that nobody else sees before the commit,  *)
(* and locks that are kept until then.  A statement waits for a row that   *)
(* another one has locked, except the sweep's cursor, which skips it.      *)
(*                                                                         *)
(* The locks, their queues and the detection of deadlocks are PostgreSQL's *)
(* and modelled from how the functions of migration 000012 use them.       *)
(***************************************************************************)
EXTENDS Integers, FiniteSets

CONSTANTS
  Principals, Runs, Null, MaxMicros, MaxLimit, TTL, MaxClock, MaxLag, PeriodEnd,
  Sessions,    \* connections of the gateway's pool, each with one statement
  Limits,      \* the limits <<daily, monthly>> an operator sets
  Served,      \* the runs whose handler lives to settle them
  Actuals,     \* the amounts that settlements ask for
  Prefetch     \* how many rows a PL/pgSQL loop fetches from its cursor at once

VARIABLES
  status, account, reservation, clock,  \* the committed tables and the clock
  stmt,        \* the statement each session runs
  lock         \* the session that has locked a row, or Null

tables == <<status, account, reservation, clock>>
vars == <<tables, stmt, lock>>

Ledger == INSTANCE Budget

\* Nothing bounds how long a statement waits: the lag that Budget allows is as
\* long as the clock runs.
ASSUME LocksAssumption ==
  /\ Ledger!ConstantsAssumption /\ Ledger!CalendarAssumption
  /\ Null \notin Sessions \cup Runs
  /\ Served \subseteq Runs /\ Actuals \subseteq Nat \cup {Null}
  /\ Limits \subseteq (1..MaxLimit) \X (1..MaxLimit)
  /\ MaxLag >= MaxClock

-----------------------------------------------------------------------------

PrincipalRow(p) == <<"principals", p>>
AccountRow(p) == <<"budget_accounts", p>>
ReservationRow(r) == <<"spend_reservations", r>>

Rows == ({"principals", "budget_accounts"} \X Principals)
          \cup ({"spend_reservations"} \X Runs)

\* Where a statement is: the lock it needs next, the loop of the sweep, or its
\* end.
Places == {"idle", "principal", "reservation", "account", "loop", "end"}

\* principal, run and micros are its arguments and now its timestamp; accounts
\* and reservations are the row versions it has written.  The cursor of a sweep
\* has still to visit ahead, has fetched and locked batch, and is at row run.
Idle == [op |-> "none", at |-> "idle", principal |-> Null, run |-> Null,
         micros |-> 0, now |-> 0, ahead |-> {}, batch |-> {},
         accounts |-> <<>>, reservations |-> <<>>]

Init ==
  /\ Ledger!Init
  /\ stmt = [s \in Sessions |-> Idle]
  /\ lock = [x \in Rows |-> Null]

At(s, op, place) == stmt[s].op = op /\ stmt[s].at = place

Free(x) == lock[x] = Null
Mine(s, x) == lock[x] = s

\* The version of p's account that s reads once it has the row's lock: its own,
\* or the last one committed.
Read(s, p) == IF p \in DOMAIN stmt[s].accounts THEN stmt[s].accounts[p]
              ELSE account[p]

\* The row versions f with v as the version of row k.
With(f, k, v) == [x \in DOMAIN f \cup {k} |-> IF x = k THEN v ELSE f[x]]

\* The statement of s is over, by commit or by rollback: its locks are free.
Ends(s) ==
  /\ stmt' = [stmt EXCEPT ![s] = Idle]
  /\ lock' = [x \in Rows |-> IF Mine(s, x) THEN Null ELSE lock[x]]

\* RAISE EXCEPTION: nothing of the statement remains.
Raise(s) == Ends(s) /\ UNCHANGED tables

\* s locks x and goes on with the statement st.
Locks(s, x, st) ==
  /\ lock' = [lock EXCEPT ![x] = s]
  /\ stmt' = [stmt EXCEPT ![s] = st]
  /\ UNCHANGED tables

-----------------------------------------------------------------------------

\* The statement reaches the server, which takes its timestamp.  The run id is
\* new: the handler has just made it.
BeginReserve(s, p, r, m) ==
  /\ At(s, "none", "idle")
  /\ reservation[r].state = "none"
  /\ \A t \in Sessions : stmt[t].run # r
  /\ stmt' = [stmt EXCEPT ![s] = [Idle EXCEPT
       !.op = "reserve", !.at = "principal", !.principal = p, !.run = r,
       !.micros = m, !.now = clock]]
  /\ UNCHANGED <<tables, lock>>

\* Mutant: the principal is read without FOR UPDATE.
ReservePrincipalUnlocked(s) ==
  LET p == stmt[s].principal IN
  /\ At(s, "reserve", "principal") /\ Free(PrincipalRow(p))
  /\ IF status[p] # "active" THEN Raise(s)
     ELSE /\ stmt' = [stmt EXCEPT ![s].at = "account"]
          /\ UNCHANGED <<tables, lock>>

ReservePrincipal(s) ==
  LET p == stmt[s].principal IN
  /\ At(s, "reserve", "principal") /\ Free(PrincipalRow(p))
  /\ IF status[p] # "active" THEN Raise(s)
     ELSE Locks(s, PrincipalRow(p), [stmt[s] EXCEPT !.at = "account"])

\* The account, rolled to the statement's time, takes one more hold.
ReserveAccount(s) ==
  LET st == stmt[s]
      p == st.principal
      a == Ledger!budget_roll_periods(Read(s, p), st.now)
  IN /\ At(s, "reserve", "account") /\ Free(AccountRow(p))
     /\ IF \/ ~Ledger!HasAccount(p)
           \/ \E w \in Ledger!Windows :
                a.committed[w] + a.reserved[w] + st.micros > a.limit[w]
        THEN Raise(s)
        ELSE Locks(s, AccountRow(p), [st EXCEPT
          !.at = "end",
          !.accounts = With(st.accounts, p, [a EXCEPT
            !.reserved = [w \in Ledger!Windows |-> a.reserved[w] + st.micros]]),
          !.reservations = With(st.reservations, st.run,
            [state |-> "reserved", owner |-> p, max |-> st.micros, actual |-> 0,
             expiresAt |-> st.now + TTL, settledAt |-> 0])])

-----------------------------------------------------------------------------

BeginSettle(s, r, actual) ==
  /\ At(s, "none", "idle")
  /\ reservation[r].state # "none"
  /\ stmt' = [stmt EXCEPT ![s] = [Idle EXCEPT
       !.op = "settle", !.at = "reservation", !.run = r, !.micros = actual,
       !.now = clock]]
  /\ UNCHANGED <<tables, lock>>

\* Mutant: the account is locked before the reservation.
SettleAccountFirst(s) ==
  LET r == stmt[s].run
      x == AccountRow(reservation[r].owner)
  IN /\ At(s, "settle", "reservation")
     /\ IF ~Mine(s, x) THEN Free(x) /\ Locks(s, x, stmt[s])
        ELSE /\ Free(ReservationRow(r))
             /\ IF reservation[r].state # "reserved" THEN Raise(s)
                ELSE Locks(s, ReservationRow(r), [stmt[s] EXCEPT
                       !.at = "account", !.principal = reservation[r].owner])

\* The row is read again after the wait for its lock.
SettleReservation(s) ==
  LET r == stmt[s].run IN
  /\ At(s, "settle", "reservation") /\ Free(ReservationRow(r))
  /\ IF reservation[r].state # "reserved" THEN Raise(s)
     ELSE Locks(s, ReservationRow(r), [stmt[s] EXCEPT
            !.at = "account", !.principal = reservation[r].owner])

SettleAccount(s) ==
  LET st == stmt[s]
      p == st.principal
      hold == reservation[st.run]
      a == Ledger!budget_roll_periods(Read(s, p), st.now)
      charge == Ledger!Charge(st.run, st.micros)
  IN /\ At(s, "settle", "account") /\ Free(AccountRow(p))
     /\ IF \/ ~Ledger!HasAccount(p)
           \/ \E w \in Ledger!Windows : a.reserved[w] < hold.max
        THEN Raise(s)
        ELSE Locks(s, AccountRow(p), [st EXCEPT
          !.at = "end",
          !.accounts = With(st.accounts, p, [a EXCEPT
            !.reserved = [w \in Ledger!Windows |-> a.reserved[w] - hold.max],
            !.committed = [w \in Ledger!Windows |-> a.committed[w] + charge]]),
          !.reservations = With(st.reservations, st.run,
            [hold EXCEPT !.state = "settled", !.actual = charge,
                         !.settledAt = st.now])])

-----------------------------------------------------------------------------

\* The cursor opens: its snapshot has the holds that are due now.
BeginExpire(s) ==
  /\ At(s, "none", "idle")
  /\ Ledger!Expirable(clock) # {}
  /\ stmt' = [stmt EXCEPT ![s] = [Idle EXCEPT
       !.op = "expire", !.at = "loop", !.now = clock,
       !.ahead = Ledger!Expirable(clock)]]
  /\ UNCHANGED <<tables, lock>>

\* The rows of S the cursor gets: FOR UPDATE SKIP LOCKED leaves out the locked
\* ones, and those which have changed since the snapshot and are open no more.
Fetchable(S) == {r \in S : /\ Free(ReservationRow(r))
                              /\ reservation[r].state = "reserved"}

\* The cursor scans S, in an order that nothing prescribes, until it has a batch
\* or nothing is left.
ExpireFetch(s, S) ==
  LET got == Fetchable(S) IN
  /\ At(s, "expire", "loop") /\ stmt[s].batch = {}
  /\ S # {} /\ S \subseteq stmt[s].ahead
  /\ \/ Cardinality(got) = Prefetch
     \/ Cardinality(got) < Prefetch /\ S = stmt[s].ahead
  /\ lock' = [x \in Rows |-> IF \E r \in got : x = ReservationRow(r) THEN s
                             ELSE lock[x]]
  /\ stmt' = [stmt EXCEPT ![s].ahead = @ \ S, ![s].batch = got]
  /\ UNCHANGED tables

\* The loop's next row.
ExpireTake(s, r) ==
  /\ At(s, "expire", "loop") /\ r \in stmt[s].batch
  /\ stmt' = [stmt EXCEPT ![s].at = "account", ![s].run = r,
                          ![s].principal = reservation[r].owner,
                          ![s].batch = @ \ {r}]
  /\ UNCHANGED <<tables, lock>>

\* One round of the loop.  Without an account the hold expires all the same.
ExpireAccount(s) ==
  LET st == stmt[s]
      p == st.principal
      hold == reservation[st.run]
      a == Ledger!budget_roll_periods(Read(s, p), st.now)
      left(w) == IF a.reserved[w] >= hold.max THEN a.reserved[w] - hold.max ELSE 0
  IN /\ At(s, "expire", "account")
     /\ Free(AccountRow(p)) \/ Mine(s, AccountRow(p))
     /\ Locks(s, AccountRow(p), [st EXCEPT
          !.at = "loop",
          !.accounts = IF Ledger!HasAccount(p)
            THEN With(st.accounts, p,
                      [a EXCEPT !.reserved = [w \in Ledger!Windows |-> left(w)]])
            ELSE st.accounts,
          !.reservations = With(st.reservations, st.run,
            [hold EXCEPT !.state = "expired", !.settledAt = st.now])])

-----------------------------------------------------------------------------

\* The function returns; a sweep does when its cursor has no more rows.
Finished(s) ==
  \/ stmt[s].at = "end"
  \/ At(s, "expire", "loop") /\ stmt[s].ahead = {} /\ stmt[s].batch = {}

\* The statement is its own transaction: its rows replace the committed ones.
Commit(s) ==
  /\ Finished(s)
  /\ account' = [p \in Principals |-> Read(s, p)]
  /\ reservation' = [r \in Runs |->
       IF r \in DOMAIN stmt[s].reservations THEN stmt[s].reservations[r]
       ELSE reservation[r]]
  /\ Ends(s)
  /\ UNCHANGED <<status, clock>>

\* The row s waits for, if it waits.
Wanted(s) ==
  CASE stmt[s].at = "principal" -> {PrincipalRow(stmt[s].principal)}
    [] stmt[s].at = "reservation" -> {ReservationRow(stmt[s].run)}
    [] stmt[s].at = "account" -> {AccountRow(stmt[s].principal)}
    [] OTHER -> {}

WaitsFor(s) == {t \in Sessions \ {s} : \E x \in Wanted(s) : lock[x] = t}

\* The sessions that are on a cycle of waits, and not those that only wait for one
\* of them: in T each waits for another one and is waited for.
Deadlocked ==
  {s \in Sessions : \E T \in SUBSET Sessions :
     s \in T /\ \A t \in T : /\ WaitsFor(t) \cap T # {}
                             /\ \E u \in T : t \in WaitsFor(u)}

\* PostgreSQL ends a statement of a cycle.
DeadlockVictim(s) == s \in Deadlocked /\ Raise(s)

\* statement_timeout or lock_timeout passes (000006), the caller's context ends
\* or the connection is lost.
Cancel(s) == stmt[s].at # "idle" /\ Raise(s)

\* The operator's statements change one row and wait for nothing else.
Operate ==
  /\ \/ \E p \in Principals :
          \/ Ledger!admin_create_principal(p)
          \/ Free(PrincipalRow(p)) /\ Ledger!DisablePrincipal(p)
     \/ \E p \in Principals, l \in Limits :
          /\ Free(AccountRow(p))
          /\ Ledger!admin_set_budget(p, l[1], l[2], clock)
     \/ Ledger!Tick
  /\ UNCHANGED <<stmt, lock>>

Reserve(s) == ReservePrincipal(s) \/ ReserveAccount(s)
Settle(s) == SettleReservation(s) \/ SettleAccount(s)
Expire(s) ==
  \/ \E S \in SUBSET stmt[s].ahead : ExpireFetch(s, S)
  \/ \E r \in stmt[s].batch : ExpireTake(s, r)
  \/ ExpireAccount(s)

Begin(s) ==
  \/ \E p \in Principals, r \in Runs, m \in 1..MaxMicros : BeginReserve(s, p, r, m)
  \/ \E r \in Served, a \in Actuals : BeginSettle(s, r, a)
  \/ BeginExpire(s)

Next ==
  \/ \E s \in Sessions : Begin(s) \/ Reserve(s) \/ Settle(s) \/ Expire(s)
                           \/ Commit(s) \/ DeadlockVictim(s) \/ Cancel(s)
  \/ Operate

Spec == Init /\ [][Next]_vars

-----------------------------------------------------------------------------

TypeOK ==
  /\ lock \in [Rows -> Sessions \cup {Null}]
  /\ \A s \in Sessions :
       /\ stmt[s].at \in Places
       /\ stmt[s].accounts \in [DOMAIN stmt[s].accounts -> Ledger!AccountRow]
       /\ stmt[s].reservations \in
            [DOMAIN stmt[s].reservations -> Ledger!ReservationRow]

\* The locks make every function atomic: each commit is one step of Budget, with
\* the time the statement began at, and nothing else changes the tables.
ImplementsLedger == Ledger!Spec

\* A request never pays for a deadlock: reserve, settle and the operator's
\* statements lock in an order that no cycle of waits can contain; only a sweep,
\* which locks accounts in the order of its scan, meets another sweep in one.
OnlySweepsDeadlock == \A s \in Deadlocked : stmt[s].op = "expire"
=============================================================================
