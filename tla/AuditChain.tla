----------------------------- MODULE AuditChain -----------------------------
(***************************************************************************)
(* The hash-chained audit store: table audit_events with its triggers and  *)
(* the row audit_chain_head (migrations 000005, 000007-000009), the        *)
(* transaction Repository.Append runs against them, and the checkpoints    *)
(* agentboxctl makes of the chain head.                                    *)
(*                                                                         *)
(* A call of Append and its transaction on the server can lose touch: the  *)
(* caller gives up (its context ends, its connection or process dies) and  *)
(* the server rolls back later, or finishes a COMMIT it has already        *)
(* received.  So the call (answer) and the transaction (tx) are two pieces *)
(* of state.  Rows inserted by a transaction are seen by others only once  *)
(* it commits; the lock on the chain head is held until it ends.           *)
(***************************************************************************)
EXTENDS Integers, Sequences, FiniteSets

CONSTANTS
  Events,      \* the events to append; each has its own event_id and Append call
  Hash(_, _),  \* EventHash: of an event and the previous event's hash
  ZeroHash,    \* the previous hash of the first event
  Operators,   \* runs of "agentboxctl checkpoint"
  None         \* no holder of the chain head's lock

ASSUME ConstantsAssumption == IsFiniteSet(Events) /\ None \notin Events

VARIABLES
  rows,        \* committed rows of audit_events in the order of their commits
  head,        \* the committed row audit_chain_head
  lock,        \* the transaction that holds the chain head FOR UPDATE
  tx,          \* each call's transaction: phase, head it read, row it inserted
  answer,      \* what each call of Append has returned
  op,          \* each operator's phase and the head it read
  checkpoints  \* committed rows of audit_checkpoints

vars == <<rows, head, lock, tx, answer, op, checkpoints>>
appendVars == <<rows, head, lock, tx, answer>>
checkpointVars == <<op, checkpoints>>

-----------------------------------------------------------------------------

Waiting == [status |-> "waiting", sequence |-> 0]
Failed == [status |-> "error", sequence |-> 0]
Receipt(n) == [status |-> "receipt", sequence |-> n]

\* Before the first event the chain head is sequence 0 and the zero hash.
Genesis == [sequence |-> 0, event_hash |-> ZeroHash]
NoRow == [sequence |-> 0, event |-> None, previous |-> ZeroHash,
          event_hash |-> ZeroHash]

Phases == {"none", "locked", "inserted", "committing", "committed", "aborted"}

Init ==
  /\ rows = <<>>
  /\ head = Genesis
  /\ lock = None
  /\ tx = [e \in Events |-> [phase |-> "none", head |-> Genesis, row |-> NoRow]]
  /\ answer = [e \in Events |-> Waiting]
  /\ op = [o \in Operators |-> [phase |-> "idle", head |-> Genesis]]
  /\ checkpoints = {}

\* Append begins its transaction and calls lock_audit_chain_head, which returns
\* once no other transaction holds the row.
LockHead(e) ==
  /\ answer[e] = Waiting /\ tx[e].phase = "none"
  /\ lock = None
  /\ lock' = e
  /\ tx' = [tx EXCEPT ![e].phase = "locked", ![e].head = head]
  /\ UNCHANGED <<rows, head, answer, checkpointVars>>

\* The row of event e as its caller sends it, linked to the head h that it read.
RowAfter(e, h) ==
  [sequence |-> 0, event |-> e, previous |-> h.event_hash,
   event_hash |-> Hash(e, h.event_hash)]

\* The BEFORE trigger rejects a row that is not linked to the head as it is now,
\* and numbers it.
LinkedToHead(row) == row.previous = head.event_hash
Numbered(row) == [row EXCEPT !.sequence = head.sequence + 1]

\* append_audit_event inserts the row: its BEFORE trigger locks the head again.
\* Others see neither the row nor the advanced head before the commit.
InsertEvent(e) ==
  LET row == RowAfter(e, tx[e].head) IN
  /\ answer[e] = Waiting /\ tx[e].phase = "locked"
  /\ lock \in {None, e} /\ lock' = e
  /\ LinkedToHead(row)
  /\ tx' = [tx EXCEPT ![e].phase = "inserted", ![e].row = Numbered(row)]
  /\ UNCHANGED <<rows, head, answer, checkpointVars>>

\* The caller has found the sequence it expected and sends COMMIT.
SendCommit(e) ==
  /\ answer[e] = Waiting /\ tx[e].phase = "inserted"
  /\ tx[e].row.sequence = tx[e].head.sequence + 1
  /\ tx' = [tx EXCEPT ![e].phase = "committing"]
  /\ UNCHANGED <<rows, head, lock, answer, checkpointVars>>

\* Mutant: the AFTER trigger is missing.
HeadNotAdvanced(r) == head

\* The head once the AFTER trigger has run for row r.
HeadAfter(r) == [sequence |-> r.sequence, event_hash |-> r.event_hash]

\* Mutant: the transaction can commit again.
ServerCommitsTwice(e) ==
  /\ tx[e].phase \in {"committing", "committed"}
  /\ rows' = Append(rows, tx[e].row)
  /\ head' = HeadAfter(tx[e].row)
  /\ lock' = None
  /\ tx' = [tx EXCEPT ![e].phase = "committed"]
  /\ UNCHANGED <<answer, checkpointVars>>

\* The server commits: the row, the new head and the end of the lock at once.
ServerCommit(e) ==
  /\ tx[e].phase = "committing"
  /\ rows' = Append(rows, tx[e].row)
  /\ head' = HeadAfter(tx[e].row)
  /\ lock' = None
  /\ tx' = [tx EXCEPT ![e].phase = "committed"]
  /\ UNCHANGED <<answer, checkpointVars>>

\* Mutant: a transaction whose caller has gone is never ended.
AbortWhileCalled(e) ==
  /\ answer[e] = Waiting
  /\ tx[e].phase \in {"locked", "inserted", "committing"}
  /\ lock' = None
  /\ tx' = [tx EXCEPT ![e].phase = "aborted"]
  /\ UNCHANGED <<rows, head, answer, checkpointVars>>

\* The server ends the transaction without it: a rejected statement, a timeout,
\* the connection lost, a restart of the database.
ServerAbort(e) ==
  /\ tx[e].phase \in {"locked", "inserted", "committing"}
  /\ lock' = None
  /\ tx' = [tx EXCEPT ![e].phase = "aborted"]
  /\ UNCHANGED <<rows, head, answer, checkpointVars>>

\* Mutant: the receipt is given once COMMIT is sent.
CommitSent(e) == tx[e].phase \in {"committing", "committed"}

\* tx.Commit has returned without an error.
CommitConfirmed(e) == tx[e].phase = "committed"

\* Append returns its receipt.
ReturnReceipt(e) ==
  /\ answer[e] = Waiting /\ CommitConfirmed(e)
  /\ answer' = [answer EXCEPT ![e] = Receipt(tx[e].row.sequence)]
  /\ UNCHANGED <<rows, head, lock, tx, checkpointVars>>

\* Append returns ErrAppend because the server ended its transaction.
ReturnAborted(e) ==
  /\ answer[e] = Waiting /\ tx[e].phase = "aborted"
  /\ answer' = [answer EXCEPT ![e] = Failed]
  /\ UNCHANGED <<rows, head, lock, tx, checkpointVars>>

\* Append returns ErrAppend at any other point: before it has a transaction
\* (the event is invalid, no connection, the wait for the lock timed out), or
\* cut off while its transaction is open, committing or already committed.
GiveUp(e) ==
  /\ answer[e] = Waiting /\ tx[e].phase # "aborted"
  /\ answer' = [answer EXCEPT ![e] = Failed]
  /\ UNCHANGED <<rows, head, lock, tx, checkpointVars>>

-----------------------------------------------------------------------------

\* What a reader that takes no lock sees of the chain head.
CommittedHead == head

\* runCheckpoint reads the committed head, without a lock and not while the
\* chain is empty.
get_audit_chain_head(o) ==
  /\ op[o].phase = "idle" /\ CommittedHead.sequence > 0
  /\ op' = [op EXCEPT ![o] = [phase |-> "read", head |-> CommittedHead]]
  /\ UNCHANGED <<checkpoints, appendVars>>

\* What store_audit_checkpoint demands of a checkpoint: that its event is there
\* and that no checkpoint has its sequence.
Storable(h) ==
  /\ \E i \in 1..Len(rows) : /\ rows[i].sequence = h.sequence
                             /\ rows[i].event_hash = h.event_hash
  /\ \A c \in checkpoints : c.sequence # h.sequence

\* Mutant: the hash is read again when the checkpoint is stored.
CheckpointOfNow(o) == [op[o].head EXCEPT !.event_hash = head.event_hash]

\* The statement CreateCheckpoint signs: the head as it was read.
CheckpointOf(o) == op[o].head

\* The signed checkpoint is stored, whether or not the operator hears of it.
store_audit_checkpoint(o) ==
  /\ op[o].phase = "read" /\ Storable(op[o].head)
  /\ checkpoints' = checkpoints \cup {CheckpointOf(o)}
  /\ op' = [op EXCEPT ![o].phase = "done"]
  /\ UNCHANGED appendVars

\* The command fails: rejected, or cut off before its statement took effect.
CheckpointFails(o) ==
  /\ op[o].phase \in {"idle", "read"}
  /\ op' = [op EXCEPT ![o].phase = "done"]
  /\ UNCHANGED <<checkpoints, appendVars>>

-----------------------------------------------------------------------------

CallStep(e) == \/ LockHead(e) \/ InsertEvent(e) \/ SendCommit(e)
               \/ ReturnReceipt(e) \/ ReturnAborted(e)
ServerStep(e) == ServerCommit(e) \/ ServerAbort(e)

Next ==
  \/ \E e \in Events : CallStep(e) \/ ServerStep(e) \/ GiveUp(e)
  \/ \E o \in Operators : \/ get_audit_chain_head(o)
                          \/ store_audit_checkpoint(o)
                          \/ CheckpointFails(o)

Spec == Init /\ [][Next]_vars

\* The server ends every transaction: a COMMIT is answered, statement_timeout
\* and the loss of the connection end the others.  A caller takes its next step
\* when it can; nothing makes it give up.
FairSpec ==
  /\ Spec
  /\ \A e \in Events : WF_vars(ServerStep(e)) /\ WF_vars(CallStep(e))

-----------------------------------------------------------------------------

\* VerifyChain (internal/audit/verify.go): contiguous sequences from 1, every
\* row linked to the one before, every hash that of its event.
VerifyChain(records) ==
  \A i \in 1..Len(records) :
    /\ records[i].sequence = i
    /\ records[i].previous = IF i = 1 THEN ZeroHash ELSE records[i-1].event_hash
    /\ records[i].event_hash = Hash(records[i].event, records[i].previous)

TypeOK ==
  /\ Len(rows) <= Cardinality(Events)
  /\ \A i \in 1..Len(rows) : rows[i].event \in Events
  /\ lock \in Events \cup {None}
  /\ \A e \in Events : tx[e].phase \in Phases
  /\ \A e \in Events : answer[e] \in {Waiting, Failed}
                                   \cup {Receipt(n) : n \in 1..Cardinality(Events)}

\* The chain head row is the last event of the table, or genesis.
HeadIsLast ==
  head = IF rows = <<>> THEN Genesis
         ELSE [sequence |-> rows[Len(rows)].sequence,
               event_hash |-> rows[Len(rows)].event_hash]

\* Whatever the interleaving of appends, aborts and late commits, the committed
\* table always verifies: no gap, no fork, no two events after the same one.  And
\* the head names its end, so that the next append keeps it that way.
ChainVerifies == VerifyChain(rows) /\ HeadIsLast

\* Every stored checkpoint names an event of the chain by sequence and hash, so
\* that exporting the rows through it verifies, and one sequence has one.  A head
\* read for a checkpoint does not go stale before it is stored: only an earlier
\* checkpoint of the same sequence can be in its way.
CheckpointsAnchored ==
  /\ \A c \in checkpoints : /\ c.sequence \in 1..Len(rows)
                            /\ rows[c.sequence].event_hash = c.event_hash
  /\ \A c, d \in checkpoints : c.sequence = d.sequence => c = d
  /\ \A o \in Operators : op[o].phase = "read" =>
       Storable(op[o].head) \/ \E c \in checkpoints : c.sequence = op[o].head.sequence

\* Every Append returns, lock_timeout or not: a caller that is cut off in the
\* middle of its transaction holds up the others only until the server notices.
EveryAppendReturns == \A e \in Events : <>(answer[e] # Waiting)

-----------------------------------------------------------------------------

\* The store keeps the promise of AuditLog.
Abstract == INSTANCE AuditLog WITH log <- [i \in 1..Len(rows) |-> rows[i].event]

\* Each committed transaction is one Store of the abstract log, each return of
\* Append an Acknowledge or a Refuse, and everything else is invisible.
ImplementsLog == Abstract!LogSpec
=============================================================================
