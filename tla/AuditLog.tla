------------------------------ MODULE AuditLog ------------------------------
(***************************************************************************)
(* What the audit store promises its callers: one append-only log in which *)
(* an event is stored at most once, a receipt is given only for an event   *)
(* that is stored and names its place, and an error says nothing: the      *)
(* event may be absent, present, or still on its way into the log.         *)
(***************************************************************************)
EXTENDS Naturals, Sequences

CONSTANT Events   \* the events the gateway tries to append, one Append call each

VARIABLES
  log,      \* the stored events in order
  answer    \* what each call has been told: Waiting, Failed or its sequence

logVars == <<log, answer>>

Waiting == [status |-> "waiting", sequence |-> 0]
Failed == [status |-> "error", sequence |-> 0]
Receipt(n) == [status |-> "receipt", sequence |-> n]

Stored == {log[i] : i \in 1..Len(log)}

LogInit ==
  /\ log = <<>>
  /\ answer = [e \in Events |-> Waiting]

Store(e) ==
  /\ e \notin Stored
  /\ log' = Append(log, e)
  /\ UNCHANGED answer

Acknowledge(e) ==
  /\ answer[e] = Waiting
  /\ \E n \in 1..Len(log) : /\ log[n] = e
                            /\ answer' = [answer EXCEPT ![e] = Receipt(n)]
  /\ UNCHANGED log

Refuse(e) ==
  /\ answer[e] = Waiting
  /\ answer' = [answer EXCEPT ![e] = Failed]
  /\ UNCHANGED log

LogNext == \E e \in Events : Store(e) \/ Acknowledge(e) \/ Refuse(e)

LogSpec == LogInit /\ [][LogNext]_logVars
=============================================================================
