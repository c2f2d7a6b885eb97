-------------------------- MODULE AuditChainProofs --------------------------
(***************************************************************************)
(* Theorems about the audit store of module AuditChain, for every set of   *)
(* events and operators and every hash function, colliding ones included.  *)
(***************************************************************************)
EXTENDS AuditChain, FiniteSetTheorems, TLAPS

-----------------------------------------------------------------------------
(***************************************************************************)
(* The inductive invariant.                                                *)
(***************************************************************************)

\* The phases in which a transaction holds the lock of the chain head.
Holding == {"locked", "inserted", "committing"}

\* A transaction's record, its head and its row taken from H and R.
TxRecord(H, R) == [phase : Phases, head : H, row : R]

\* Rows are a sequence, transactions and operators records.  What hashes are is
\* left open.
Shape ==
  /\ \E S : rows \in Seq(S)
  /\ \E H, R : tx \in [Events -> TxRecord(H, R)]
  /\ \E A : answer \in [Events -> A]
  /\ \E H : op \in [Operators -> [phase : {"idle", "read", "done"}, head : H]]

\* The lock is held by the one transaction that is in the middle of its work.
LockHeld ==
  /\ lock \in Events \cup {None}
  /\ \A e \in Events : lock = e <=> tx[e].phase \in Holding

\* The holder's copy of the head is not stale, and its row goes right after it.
HolderCurrent ==
  \A e \in Events :
    /\ tx[e].phase \in Holding => tx[e].head = head
    /\ tx[e].phase \in {"inserted", "committing"} =>
         /\ tx[e].row.sequence = head.sequence + 1
         /\ tx[e].row.event = e
         /\ tx[e].row.previous = head.event_hash
         /\ tx[e].row.event_hash = Hash(e, head.event_hash)

\* The rows are those of the committed transactions, each once.
RowsCommitted ==
  /\ \A e \in Events : tx[e].phase = "committed" =>
       /\ tx[e].row.sequence \in 1..Len(rows)
       /\ rows[tx[e].row.sequence] = tx[e].row
       /\ tx[e].row.event = e
  /\ \A i \in 1..Len(rows) :
       /\ rows[i].event \in Events
       /\ tx[rows[i].event].phase = "committed"
       /\ tx[rows[i].event].row = rows[i]

\* A receipt names the row of a committed transaction.
ReceiptsBacked ==
  \A e \in Events :
    \/ answer[e] \in {Waiting, Failed}
    \/ tx[e].phase = "committed" /\ answer[e] = Receipt(tx[e].row.sequence)

\* Head h is that of some row of the table.
IsHeadOfRow(h) ==
  /\ h.sequence \in 1..Len(rows)
  /\ rows[h.sequence].event_hash = h.event_hash

\* Heads that were read and heads that were signed are of the chain.
HeadsOfRows ==
  /\ \A o \in Operators : op[o].phase = "read" => IsHeadOfRow(op[o].head)
  /\ \A c \in checkpoints : IsHeadOfRow(c)
  /\ \A c, d \in checkpoints : c.sequence = d.sequence => c = d

\* ChainVerifies is not inductive alone: a commit appends a row that was made
\* earlier, and only the lock says that the head has not moved since.
ChainInv ==
  /\ Shape /\ LockHeld /\ HolderCurrent /\ RowsCommitted /\ ReceiptsBacked
  /\ ChainVerifies /\ HeadsOfRows

\* The chain head counts the rows.
LEMMA HeadCounts ==
  ASSUME Shape, ChainVerifies
  PROVE  Len(rows) \in Nat /\ head.sequence = Len(rows)
<1>1. PICK S : rows \in Seq(S)
  BY DEF Shape
<1>2. Len(rows) \in Nat
  BY <1>1
<1>3. CASE rows = <<>>
  BY <1>3 DEF ChainVerifies, HeadIsLast, Genesis
<1>4. CASE rows # <<>>
  <2>1. Len(rows) \in 1..Len(rows)
    BY <1>1, <1>2, <1>4
  <2> QED BY <1>2, <1>4, <2>1 DEF ChainVerifies, HeadIsLast, VerifyChain
<1> QED BY <1>2, <1>3, <1>4

\* Appending a row keeps the earlier rows where they are.
LEMMA AppendedRow ==
  ASSUME NEW S, NEW s \in Seq(S), NEW r
  PROVE  /\ Append(s, r) \in Seq(S \cup {r})
         /\ Len(s) \in Nat /\ Len(Append(s, r)) = Len(s) + 1
         /\ \A i \in 1..Len(s) : Append(s, r)[i] = s[i]
         /\ Append(s, r)[Len(s) + 1] = r
<1>1. s \in Seq(S \cup {r})
  OBVIOUS
<1> QED BY <1>1

\* Before the first call the table is empty and nothing is held.
LEMMA ChainInit == Init => ChainInv
<1> SUFFICES ASSUME Init PROVE ChainInv
  OBVIOUS
<1> USE DEF Init
<1>1. Shape
  <2>1. rows \in Seq({})
    OBVIOUS
  <2>2. tx \in [Events -> TxRecord({Genesis}, {NoRow})]
    BY DEF TxRecord, Phases
  <2>3. answer \in [Events -> {Waiting}]
    OBVIOUS
  <2>4. op \in [Operators -> [phase : {"idle", "read", "done"}, head : {Genesis}]]
    OBVIOUS
  <2> QED BY <2>1, <2>2, <2>3, <2>4 DEF Shape
<1>2. LockHeld
  BY ConstantsAssumption DEF LockHeld, Holding
<1>3. HolderCurrent /\ RowsCommitted /\ ReceiptsBacked
  BY DEF HolderCurrent, RowsCommitted, ReceiptsBacked, Holding
<1>4. ChainVerifies
  BY DEF ChainVerifies, VerifyChain, HeadIsLast
<1>5. HeadsOfRows
  BY DEF HeadsOfRows
<1> QED BY <1>1, <1>2, <1>3, <1>4, <1>5 DEF ChainInv

-----------------------------------------------------------------------------
(***************************************************************************)
(* Every step keeps the invariant.                                         *)
(***************************************************************************)

\* While the table and the chain head stay as they are, so does what is said of
\* them alone.
LEMMA TableUnchanged ==
  ASSUME ChainInv, UNCHANGED <<rows, head>>
  PROVE  /\ ChainVerifies'
         /\ (\E S : rows \in Seq(S))'
         /\ UNCHANGED checkpointVars => HeadsOfRows'
<1>1. ChainVerifies'
  BY DEF ChainInv, ChainVerifies, VerifyChain, HeadIsLast
<1>2. (\E S : rows \in Seq(S))'
  BY DEF ChainInv, Shape
<1>3. ASSUME UNCHANGED checkpointVars PROVE HeadsOfRows'
  BY <1>3 DEF ChainInv, HeadsOfRows, IsHeadOfRow, checkpointVars
<1> QED BY <1>1, <1>2, <1>3

\* A transaction that takes the lock copies the head.
LEMMA ChainLockHead ==
  ASSUME ChainInv, NEW e \in Events, LockHead(e)
  PROVE  ChainInv'
<1> USE DEF ChainInv
<1>0. PICK H, R : tx \in [Events -> TxRecord(H, R)]
  BY DEF Shape
<1>1. /\ \A x \in Events : x # e => tx'[x] = tx[x]
      /\ tx'[e] = [phase |-> "locked", head |-> head, row |-> tx[e].row]
      /\ tx[e].phase = "none" /\ lock = None /\ lock' = e
      /\ UNCHANGED <<rows, head, answer, checkpointVars>>
  BY <1>0 DEF LockHead, TxRecord
<1>2. Shape'
  <2>1. tx' \in [Events -> TxRecord(H \cup {head}, R)]
    BY <1>0, <1>1 DEF LockHead, TxRecord, Phases
  <2> QED BY <1>1, <2>1, TableUnchanged DEF Shape, checkpointVars
<1>3. LockHeld'
  BY <1>1, ConstantsAssumption DEF LockHeld, Holding
<1>4. HolderCurrent'
  BY <1>1 DEF HolderCurrent, Holding
<1>5. RowsCommitted' /\ ReceiptsBacked'
  BY <1>1 DEF RowsCommitted, ReceiptsBacked
<1> QED BY <1>1, <1>2, <1>3, <1>4, <1>5, TableUnchanged

\* The inserted row is linked to the head and numbered after it.
LEMMA ChainInsertEvent ==
  ASSUME ChainInv, NEW e \in Events, InsertEvent(e)
  PROVE  ChainInv'
<1> USE DEF ChainInv
<1> DEFINE row == Numbered(RowAfter(e, tx[e].head))
<1>0. PICK H, R : tx \in [Events -> TxRecord(H, R)]
  BY DEF Shape
<1>1. /\ \A x \in Events : x # e => tx'[x] = tx[x]
      /\ tx'[e] = [phase |-> "inserted", head |-> tx[e].head, row |-> row]
      /\ tx[e].phase = "locked" /\ lock' = e
      /\ UNCHANGED <<rows, head, answer, checkpointVars>>
  BY <1>0 DEF InsertEvent, TxRecord
<1>2. /\ row.sequence = head.sequence + 1 /\ row.event = e
      /\ row.previous = tx[e].head.event_hash
      /\ row.event_hash = Hash(e, tx[e].head.event_hash)
  BY DEF Numbered, RowAfter
<1> HIDE DEF row
<1>3. lock = e /\ tx[e].head = head
  BY <1>1 DEF LockHeld, HolderCurrent, Holding
<1>4. Shape'
  <2>1. tx' \in [Events -> TxRecord(H, R \cup {row})]
    BY <1>0, <1>1 DEF InsertEvent, TxRecord, Phases
  <2> QED BY <1>1, <2>1, TableUnchanged DEF Shape, checkpointVars
<1>5. LockHeld'
  BY <1>1, <1>3 DEF LockHeld, Holding
<1>6. HolderCurrent'
  BY <1>1, <1>2, <1>3 DEF HolderCurrent, Holding
<1>7. RowsCommitted' /\ ReceiptsBacked'
  BY <1>1 DEF RowsCommitted, ReceiptsBacked
<1> QED BY <1>1, <1>4, <1>5, <1>6, <1>7, TableUnchanged

\* Sending COMMIT changes nothing but the phase.
LEMMA ChainSendCommit ==
  ASSUME ChainInv, NEW e \in Events, SendCommit(e)
  PROVE  ChainInv'
<1> USE DEF ChainInv
<1>0. PICK H, R : tx \in [Events -> TxRecord(H, R)]
  BY DEF Shape
<1>1. /\ \A x \in Events : x # e => tx'[x] = tx[x]
      /\ tx'[e] = [phase |-> "committing", head |-> tx[e].head, row |-> tx[e].row]
      /\ tx[e].phase = "inserted"
      /\ UNCHANGED <<rows, head, lock, answer, checkpointVars>>
  BY <1>0 DEF SendCommit, TxRecord
<1>2. Shape'
  <2>1. tx' \in [Events -> TxRecord(H, R)]
    BY <1>0, <1>1 DEF SendCommit, TxRecord, Phases
  <2> QED BY <1>1, <2>1, TableUnchanged DEF Shape, checkpointVars
<1>3. LockHeld'
  BY <1>1 DEF LockHeld, Holding
<1>4. HolderCurrent'
  BY <1>1 DEF HolderCurrent, Holding
<1>5. RowsCommitted' /\ ReceiptsBacked'
  BY <1>1 DEF RowsCommitted, ReceiptsBacked
<1> QED BY <1>1, <1>2, <1>3, <1>4, <1>5, TableUnchanged

\* A transaction that ends without a commit leaves nothing but a free lock.
LEMMA ChainServerAbort ==
  ASSUME ChainInv, NEW e \in Events, ServerAbort(e)
  PROVE  ChainInv'
<1> USE DEF ChainInv
<1>0. PICK H, R : tx \in [Events -> TxRecord(H, R)]
  BY DEF Shape
<1>1. /\ \A x \in Events : x # e => tx'[x] = tx[x]
      /\ tx'[e] = [phase |-> "aborted", head |-> tx[e].head, row |-> tx[e].row]
      /\ tx[e].phase \in Holding /\ lock' = None
      /\ UNCHANGED <<rows, head, answer, checkpointVars>>
  BY <1>0 DEF ServerAbort, TxRecord, Holding
<1>2. Shape'
  <2>1. tx' \in [Events -> TxRecord(H, R)]
    BY <1>0, <1>1 DEF ServerAbort, TxRecord, Phases
  <2> QED BY <1>1, <2>1, TableUnchanged DEF Shape, checkpointVars
<1>3. LockHeld'
  BY <1>1, ConstantsAssumption DEF LockHeld, Holding
<1>4. HolderCurrent'
  BY <1>1 DEF HolderCurrent, Holding
<1>5. RowsCommitted' /\ ReceiptsBacked'
  BY <1>1 DEF RowsCommitted, ReceiptsBacked, Holding
<1> QED BY <1>1, <1>2, <1>3, <1>4, <1>5, TableUnchanged

\* A commit puts the holder's row at the end of the chain and moves the head to
\* it, while no other transaction holds a copy of the head.
LEMMA ChainServerCommit ==
  ASSUME ChainInv, NEW e \in Events, ServerCommit(e)
  PROVE  ChainInv'
<1> USE DEF ChainInv
<1> DEFINE r == tx[e].row
           n == Len(rows)
<1>0. PICK H, R : tx \in [Events -> TxRecord(H, R)]
  BY DEF Shape
<1>1. /\ \A x \in Events : x # e => tx'[x] = tx[x]
      /\ tx'[e] = [phase |-> "committed", head |-> tx[e].head, row |-> r]
      /\ tx[e].phase = "committing" /\ lock' = None
      /\ rows' = Append(rows, r) /\ head' = HeadAfter(r)
      /\ UNCHANGED <<answer, checkpointVars>>
  BY <1>0 DEF ServerCommit, TxRecord
<1>2. /\ r.sequence = head.sequence + 1 /\ r.event = e
      /\ r.previous = head.event_hash
      /\ r.event_hash = Hash(e, head.event_hash)
  BY <1>1 DEF HolderCurrent
<1>3. PICK S : rows \in Seq(S)
  BY DEF Shape
<1>4. n \in Nat /\ head.sequence = n
  BY HeadCounts
<1> HIDE DEF r
<1>5. /\ rows' \in Seq(S \cup {r}) /\ Len(rows') = n + 1
      /\ \A i \in 1..n : rows'[i] = rows[i]
      /\ rows'[n + 1] = r
  BY <1>1, <1>3, AppendedRow
<1> HIDE DEF n
<1>6. 1..(n + 1) = (1..n) \cup {n + 1} /\ n + 1 \notin 1..n
  BY <1>4
<1>7. \A x \in Events : x # e => tx[x].phase \notin Holding
  BY <1>1 DEF LockHeld, Holding
<1>8. Shape'
  <2>1. tx' \in [Events -> TxRecord(H, R)]
    BY <1>0, <1>1 DEF ServerCommit, TxRecord, Phases
  <2> QED BY <1>1, <1>5, <2>1 DEF Shape, checkpointVars
<1>9. LockHeld'
  BY <1>1, <1>7, ConstantsAssumption DEF LockHeld, Holding
<1>10. HolderCurrent'
  BY <1>1, <1>7 DEF HolderCurrent, Holding
<1>11. RowsCommitted'
  <2>1. \A i \in 1..n : rows[i].event # e
    BY <1>1 DEF RowsCommitted, n
  <2>2. ASSUME NEW x \in Events, tx'[x].phase = "committed"
        PROVE  /\ tx'[x].row.sequence \in 1..(n + 1)
               /\ rows'[tx'[x].row.sequence] = tx'[x].row
               /\ tx'[x].row.event = x
    <3>1. CASE x = e
      BY <1>1, <1>2, <1>4, <1>5, <1>6, <3>1
    <3>2. CASE x # e
      BY <1>1, <1>5, <1>6, <2>2, <3>2 DEF RowsCommitted, n
    <3> QED BY <3>1, <3>2
  <2>3. ASSUME NEW i \in 1..(n + 1)
        PROVE  /\ rows'[i].event \in Events
               /\ tx'[rows'[i].event].phase = "committed"
               /\ tx'[rows'[i].event].row = rows'[i]
    <3>1. CASE i = n + 1
      BY <1>1, <1>2, <1>5, <3>1
    <3>2. CASE i \in 1..n
      BY <1>1, <1>5, <2>1, <3>2 DEF RowsCommitted, n
    <3> QED BY <1>6, <3>1, <3>2
  <2> QED BY <1>5, <2>2, <2>3 DEF RowsCommitted
<1>12. ReceiptsBacked'
  BY <1>1 DEF ReceiptsBacked
<1>13. VerifyChain(rows')
  <2> SUFFICES ASSUME NEW i \in 1..(n + 1)
      PROVE  /\ rows'[i].sequence = i
             /\ rows'[i].previous = IF i = 1 THEN ZeroHash ELSE rows'[i-1].event_hash
             /\ rows'[i].event_hash = Hash(rows'[i].event, rows'[i].previous)
    BY <1>5 DEF VerifyChain
  <2>1. CASE i \in 1..n
    <3>1. i # 1 => rows'[i-1] = rows[i-1]
      BY <1>4, <1>5, <2>1
    <3> QED BY <1>5, <2>1, <3>1 DEF ChainVerifies, VerifyChain, n
  <2>2. CASE i = n + 1
    <3>1. head.event_hash = IF i = 1 THEN ZeroHash ELSE rows'[i-1].event_hash
      <4>1. CASE rows = <<>>
        <5>1. n = 0
          BY <4>1 DEF n
        <5> QED BY <2>2, <4>1, <5>1 DEF ChainVerifies, HeadIsLast, Genesis
      <4>2. CASE rows # <<>>
        <5>1. n \in 1..n /\ i # 1 /\ i - 1 = n
          BY <1>3, <1>4, <2>2, <4>2 DEF n
        <5>2. head.event_hash = rows[n].event_hash
          BY <4>2 DEF ChainVerifies, HeadIsLast, n
        <5> QED BY <1>5, <5>1, <5>2
      <4> QED BY <4>1, <4>2
    <3> QED BY <1>2, <1>4, <1>5, <2>2, <3>1
  <2> QED BY <1>6, <2>1, <2>2
<1>14. HeadIsLast'
  <2>1. rows' # <<>>
    BY <1>4, <1>5
  <2> QED BY <1>1, <1>5, <2>1 DEF HeadIsLast, HeadAfter
<1>15. HeadsOfRows'
  <2>1. \A h : IsHeadOfRow(h) => IsHeadOfRow(h)'
    BY <1>5, <1>6 DEF IsHeadOfRow, n
  <2> QED BY <1>1, <2>1 DEF HeadsOfRows, checkpointVars
<1> QED BY <1>8, <1>9, <1>10, <1>11, <1>12, <1>13, <1>14, <1>15 DEF ChainVerifies

\* A return of Append changes what is said of its answer only.
LEMMA ChainReturn ==
  ASSUME ChainInv, NEW e \in Events,
         ReturnReceipt(e) \/ ReturnAborted(e) \/ GiveUp(e)
  PROVE  ChainInv'
<1> USE DEF ChainInv
<1>1. UNCHANGED <<rows, head, lock, tx, checkpointVars>>
  BY DEF ReturnReceipt, ReturnAborted, GiveUp
<1>2. PICK A : answer \in [Events -> A]
  BY DEF Shape
<1>3. /\ \A x \in Events : x # e => answer'[x] = answer[x]
      /\ \/ answer'[e] = Failed
         \/ tx[e].phase = "committed" /\ answer'[e] = Receipt(tx[e].row.sequence)
  BY <1>2 DEF ReturnReceipt, ReturnAborted, GiveUp, CommitConfirmed
<1>4. answer' \in [Events -> A \cup {Failed, Receipt(tx[e].row.sequence)}]
  <2> HIDE DEF Failed, Receipt
  <2> QED BY <1>2 DEF ReturnReceipt, ReturnAborted, GiveUp
<1>5. Shape'
  BY <1>1, <1>4, TableUnchanged DEF Shape, checkpointVars
<1>6. LockHeld' /\ HolderCurrent' /\ RowsCommitted'
  BY <1>1 DEF LockHeld, HolderCurrent, RowsCommitted
<1>7. ReceiptsBacked'
  BY <1>1, <1>3 DEF ReceiptsBacked
<1> QED BY <1>1, <1>5, <1>6, <1>7, TableUnchanged

\* A step of an operator leaves the table alone, and stores only a head that is
\* that of a row and whose sequence no checkpoint has.
LEMMA ChainOperator ==
  ASSUME ChainInv, NEW o \in Operators,
         \/ get_audit_chain_head(o)
         \/ store_audit_checkpoint(o)
         \/ CheckpointFails(o)
  PROVE  ChainInv'
<1> USE DEF ChainInv
<1>1. UNCHANGED <<rows, head, lock, tx, answer>>
  BY DEF get_audit_chain_head, store_audit_checkpoint, CheckpointFails, appendVars
<1>2. PICK H : op \in [Operators -> [phase : {"idle", "read", "done"}, head : H]]
  BY DEF Shape
<1>3. \A h : IsHeadOfRow(h)' <=> IsHeadOfRow(h)
  BY <1>1 DEF IsHeadOfRow
<1>4. Shape'
  <2>1. op' \in [Operators -> [phase : {"idle", "read", "done"}, head : H \cup {head}]]
    BY <1>2 DEF get_audit_chain_head, store_audit_checkpoint, CheckpointFails,
                CommittedHead
  <2> QED BY <1>1, <2>1, TableUnchanged DEF Shape
<1>5. LockHeld' /\ HolderCurrent' /\ RowsCommitted' /\ ReceiptsBacked'
  BY <1>1 DEF LockHeld, HolderCurrent, RowsCommitted, ReceiptsBacked
<1>6. HeadsOfRows'
  <2>1. CASE get_audit_chain_head(o)
    <3>1. /\ \A x \in Operators : x # o => op'[x] = op[x]
          /\ op'[o] = [phase |-> "read", head |-> head]
          /\ head.sequence > 0 /\ UNCHANGED checkpoints
      BY <1>2, <2>1 DEF get_audit_chain_head, CommittedHead
    <3>2. head.sequence = Len(rows) /\ Len(rows) \in Nat
      BY HeadCounts
    <3>3. rows # <<>>
      BY <3>1, <3>2
    <3>4. IsHeadOfRow(head)
      BY <3>1, <3>2, <3>3 DEF IsHeadOfRow, ChainVerifies, HeadIsLast
    <3> QED BY <1>3, <3>1, <3>4 DEF HeadsOfRows
  <2>2. CASE store_audit_checkpoint(o)
    <3>1. /\ \A x \in Operators : x # o => op'[x] = op[x]
          /\ op'[o].phase = "done" /\ op[o].phase = "read"
          /\ checkpoints' = checkpoints \cup {op[o].head}
          /\ \A c \in checkpoints : c.sequence # op[o].head.sequence
      BY <1>2, <2>2 DEF store_audit_checkpoint, CheckpointOf, Storable
    <3>2. IsHeadOfRow(op[o].head)
      BY <3>1 DEF HeadsOfRows
    <3> QED BY <1>3, <3>1, <3>2 DEF HeadsOfRows
  <2>3. CASE CheckpointFails(o)
    <3>1. /\ \A x \in Operators : x # o => op'[x] = op[x]
          /\ op'[o].phase = "done" /\ UNCHANGED checkpoints
      BY <1>2, <2>3 DEF CheckpointFails
    <3> QED BY <1>3, <3>1 DEF HeadsOfRows
  <2> QED BY <2>1, <2>2, <2>3
<1> QED BY <1>1, <1>4, <1>5, <1>6, TableUnchanged

\* Every step keeps the invariant.
LEMMA ChainStep == ChainInv /\ [Next]_vars => ChainInv'
<1> SUFFICES ASSUME ChainInv, [Next]_vars PROVE ChainInv'
  OBVIOUS
<1>1. ASSUME NEW e \in Events, CallStep(e) \/ ServerStep(e) \/ GiveUp(e)
      PROVE  ChainInv'
  BY <1>1, ChainLockHead, ChainInsertEvent, ChainSendCommit, ChainServerCommit,
     ChainServerAbort, ChainReturn DEF CallStep, ServerStep
<1>2. ASSUME NEW o \in Operators,
             \/ get_audit_chain_head(o)
             \/ store_audit_checkpoint(o)
             \/ CheckpointFails(o)
      PROVE  ChainInv'
  BY <1>2, ChainOperator
<1>3. CASE UNCHANGED vars
  <2>1. UNCHANGED <<rows, head, lock, tx, answer, op, checkpoints, checkpointVars>>
    BY <1>3 DEF vars, checkpointVars
  <2>2. Shape'
    BY <2>1 DEF ChainInv, Shape
  <2>3. LockHeld' /\ HolderCurrent' /\ RowsCommitted' /\ ReceiptsBacked'
    BY <2>1 DEF ChainInv, LockHeld, HolderCurrent, RowsCommitted, ReceiptsBacked
  <2> QED BY <2>1, <2>2, <2>3, TableUnchanged DEF ChainInv
<1> QED BY <1>1, <1>2, <1>3 DEF Next

\* The invariant holds of every reachable state.
LEMMA ChainInvariant == Spec => []ChainInv
<1> QED BY ChainInit, ChainStep, PTL DEF Spec

-----------------------------------------------------------------------------
(***************************************************************************)
(* What follows from it.                                                   *)
(***************************************************************************)

\* An interval from 1 has as many members as its end says.
LEMMA CountUpTo == ASSUME NEW n \in Nat PROVE Cardinality(1..n) = n
BY FS_Interval

\* No two rows have the same event, so there are no more rows than events.
LEMMA RowsBounded ==
  ASSUME ChainInv
  PROVE  Cardinality(Events) \in Nat /\ Len(rows) <= Cardinality(Events)
<1> USE DEF ChainInv
<1> DEFINE f == [i \in 1..Len(rows) |-> rows[i].event]
<1>1. Len(rows) \in Nat
  BY HeadCounts
<1>2. f \in [1..Len(rows) -> Events]
  BY DEF RowsCommitted
<1>3. \A i, j \in 1..Len(rows) : rows[i].event = rows[j].event => i = j
  BY DEF RowsCommitted, ChainVerifies, VerifyChain
<1>4. f \in Injection(1..Len(rows), Events)
  BY <1>2, <1>3 DEF Injection, IsInjective
<1>5. Cardinality(1..Len(rows)) <= Cardinality(Events)
  BY <1>4, ConstantsAssumption, FS_Injection
<1>6. Cardinality(1..Len(rows)) = Len(rows)
  BY <1>1, CountUpTo
<1>7. Cardinality(Events) \in Nat
  BY ConstantsAssumption, FS_CardinalityType
<1> QED BY <1>5, <1>6, <1>7

\* The table never has more rows than events, and a receipt's sequence is always
\* one that the table can have.
THEOREM TypeCorrect == Spec => []TypeOK
<1>1. ChainInv => TypeOK
  <2> SUFFICES ASSUME ChainInv PROVE TypeOK
    OBVIOUS
  <2> USE DEF ChainInv
  <2>1. Cardinality(Events) \in Nat /\ Len(rows) <= Cardinality(Events)
    BY RowsBounded
  <2>2. Len(rows) \in Nat
    BY HeadCounts
  <2>3. \A e \in Events : tx[e].phase \in Phases
    BY DEF Shape, TxRecord
  <2>4. ASSUME NEW e \in Events
        PROVE  answer[e] \in {Waiting, Failed}
                                 \cup {Receipt(n) : n \in 1..Cardinality(Events)}
    <3>1. CASE answer[e] \in {Waiting, Failed}
      BY <3>1
    <3>2. CASE tx[e].phase = "committed" /\ answer[e] = Receipt(tx[e].row.sequence)
      <4>1. tx[e].row.sequence \in 1..Cardinality(Events)
        BY <2>1, <2>2, <3>2 DEF RowsCommitted
      <4> QED BY <3>2, <4>1
    <3> QED BY <3>1, <3>2 DEF ReceiptsBacked
  <2> QED BY <2>1, <2>3, <2>4 DEF TypeOK, LockHeld, RowsCommitted
<1> QED BY <1>1, ChainInvariant, PTL

\* Whatever the interleaving of appends, aborts and late commits, the committed
\* table verifies and the chain head names its end.
THEOREM ChainAlwaysVerifies == Spec => []ChainVerifies
<1>1. ChainInv => ChainVerifies
  BY DEF ChainInv
<1> QED BY <1>1, ChainInvariant, PTL

\* Every stored checkpoint names a row of the chain, a sequence has one, and a
\* head that was read stays storable until a checkpoint has its sequence.
THEOREM CheckpointsAlwaysAnchored == Spec => []CheckpointsAnchored
<1>1. ChainInv => CheckpointsAnchored
  <2> SUFFICES ASSUME ChainInv PROVE CheckpointsAnchored
    OBVIOUS
  <2> USE DEF ChainInv
  <2>1. ASSUME NEW o \in Operators, op[o].phase = "read",
               \A c \in checkpoints : c.sequence # op[o].head.sequence
        PROVE  Storable(op[o].head)
    <3>1. IsHeadOfRow(op[o].head)
      BY <2>1 DEF HeadsOfRows
    <3> QED BY <2>1, <3>1 DEF IsHeadOfRow, Storable, ChainVerifies, VerifyChain
  <2> QED BY <2>1 DEF CheckpointsAnchored, HeadsOfRows, IsHeadOfRow
<1> QED BY <1>1, ChainInvariant, PTL

-----------------------------------------------------------------------------
(***************************************************************************)
(* The store implements the abstract log.                                  *)
(***************************************************************************)

\* The abstract log: the events of the rows.
EventLog == [i \in 1..Len(rows) |-> rows[i].event]

\* While the rows stay as they are, so does the abstract log.
LEMMA LogUnchanged == ASSUME UNCHANGED rows PROVE EventLog' = EventLog
BY DEF EventLog

\* A commit appends its event, which was not in the log, to it.
LEMMA CommitIsStore ==
  ASSUME ChainInv, NEW e \in Events, ServerCommit(e)
  PROVE  Abstract!Store(e)
<1> USE DEF ChainInv
<1>1. PICK S : rows \in Seq(S)
  BY DEF Shape
<1>2. /\ tx[e].phase = "committing" /\ rows' = Append(rows, tx[e].row)
      /\ tx[e].row.event = e /\ UNCHANGED answer
  BY DEF ServerCommit, HolderCurrent
<1>3. /\ Len(rows) \in Nat /\ Len(rows') = Len(rows) + 1
      /\ \A i \in 1..Len(rows) : rows'[i] = rows[i]
      /\ rows'[Len(rows) + 1] = tx[e].row
  BY <1>1, <1>2, AppendedRow
<1>4. EventLog \in Seq(Events) /\ Len(EventLog) = Len(rows)
  BY <1>3 DEF EventLog, RowsCommitted
<1>5. \A i \in 1..Len(EventLog) : EventLog[i] # e
  BY <1>2, <1>4 DEF EventLog, RowsCommitted
<1>6. EventLog' = Append(EventLog, e)
  <2> DEFINE a == Append(EventLog, e)
  <2>1. a \in Seq(Events) /\ Len(a) = Len(rows) + 1
    BY <1>4
  <2>2. EventLog' \in Seq(Events) /\ Len(EventLog') = Len(rows) + 1
    <3>1. ASSUME NEW i \in 1..(Len(rows) + 1) PROVE rows'[i].event \in Events
      <4>1. i \in 1..Len(rows) \/ i = Len(rows) + 1
        BY <1>3
      <4> QED BY <1>2, <1>3, <4>1 DEF RowsCommitted
    <3> QED BY <1>3, <3>1 DEF EventLog
  <2>3. ASSUME NEW i \in 1..(Len(rows) + 1) PROVE EventLog'[i] = a[i]
    <3>1. CASE i = Len(rows) + 1
      BY <1>2, <1>3, <1>4, <3>1 DEF EventLog
    <3>2. CASE i \in 1..Len(rows)
      <4>1. a[i] = EventLog[i]
        BY <1>3, <1>4, <3>2
      <4>2. EventLog[i] = rows[i].event /\ EventLog'[i] = rows'[i].event
        BY <1>3, <3>2 DEF EventLog
      <4> QED BY <1>3, <3>2, <4>1, <4>2
    <3>3. i = Len(rows) + 1 \/ i \in 1..Len(rows)
      BY <1>3
    <3> QED BY <3>1, <3>2, <3>3
  <2> HIDE DEF a
  <2>4. EventLog' = a
    BY <2>1, <2>2, <2>3
  <2> QED BY <2>4 DEF a
<1> QED BY <1>2, <1>5, <1>6 DEF Abstract!Store, Abstract!Stored, EventLog

\* A return of Append is an Acknowledge or a Refuse of the log.
LEMMA ReturnIsAnswer ==
  ASSUME ChainInv, NEW e \in Events,
         ReturnReceipt(e) \/ ReturnAborted(e) \/ GiveUp(e)
  PROVE  Abstract!Acknowledge(e) \/ Abstract!Refuse(e)
<1> USE DEF ChainInv
<1>1. answer[e] = Waiting /\ EventLog' = EventLog
  BY LogUnchanged DEF ReturnReceipt, ReturnAborted, GiveUp
<1>2. CASE ReturnReceipt(e)
  <2> DEFINE n == tx[e].row.sequence
  <2>1. n \in 1..Len(rows) /\ rows[n].event = e
    BY <1>2 DEF ReturnReceipt, CommitConfirmed, RowsCommitted
  <2>2. /\ EventLog[n] = e /\ n \in 1..Len(EventLog)
        /\ answer' = [answer EXCEPT ![e] = Receipt(n)]
    <3>1. Len(rows) \in Nat
      BY HeadCounts
    <3> QED BY <1>2, <2>1, <3>1 DEF EventLog, ReturnReceipt
  <2> HIDE DEF n
  <2> QED BY <1>1, <2>2
      DEF Abstract!Acknowledge, Abstract!Waiting, Abstract!Receipt, Waiting, Receipt,
          EventLog
<1>3. CASE ReturnAborted(e) \/ GiveUp(e)
  BY <1>1, <1>3 DEF ReturnAborted, GiveUp, Abstract!Refuse, Abstract!Waiting,
                    Abstract!Failed, Waiting, Failed, EventLog
<1> QED BY <1>2, <1>3

\* Every step is a step of the log or leaves it alone.
LEMMA StepIsLogStep ==
  ASSUME ChainInv, [Next]_vars
  PROVE  [Abstract!LogNext]_(Abstract!logVars)
<1>1. ASSUME NEW e \in Events, ServerCommit(e)
      PROVE  Abstract!LogNext
  BY <1>1, CommitIsStore DEF Abstract!LogNext
<1>2. ASSUME NEW e \in Events, ReturnReceipt(e) \/ ReturnAborted(e) \/ GiveUp(e)
      PROVE  Abstract!LogNext
  BY <1>2, ReturnIsAnswer DEF Abstract!LogNext
<1>3. ASSUME UNCHANGED <<rows, answer>>
      PROVE  UNCHANGED Abstract!logVars
  BY <1>3, LogUnchanged DEF Abstract!logVars, EventLog
<1>4. ASSUME NEW e \in Events,
             LockHead(e) \/ InsertEvent(e) \/ SendCommit(e) \/ ServerAbort(e)
      PROVE  UNCHANGED <<rows, answer>>
  BY <1>4 DEF LockHead, InsertEvent, SendCommit, ServerAbort
<1>5. ASSUME NEW o \in Operators,
             \/ get_audit_chain_head(o)
             \/ store_audit_checkpoint(o)
             \/ CheckpointFails(o)
      PROVE  UNCHANGED <<rows, answer>>
  BY <1>5 DEF get_audit_chain_head, store_audit_checkpoint, CheckpointFails, appendVars
<1>6. CASE UNCHANGED vars
  BY <1>3, <1>6 DEF vars
<1> QED BY <1>1, <1>2, <1>3, <1>4, <1>5, <1>6 DEF Next, CallStep, ServerStep

\* The store implements AuditLog: one append-only log that has every event at
\* most once, with receipts only for what is in it.
THEOREM StoreImplementsLog == Spec => ImplementsLog
<1>1. Init => Abstract!LogInit
  <2> SUFFICES ASSUME Init PROVE Abstract!LogInit
    OBVIOUS
  <2>1. Len(rows) = 0 /\ answer = [e \in Events |-> Waiting]
    BY DEF Init
  <2>2. [i \in 1..Len(rows) |-> rows[i].event] = <<>>
    BY <2>1
  <2> QED BY <2>1, <2>2 DEF Abstract!LogInit, Abstract!Waiting, Waiting
<1>2. ChainInv /\ [Next]_vars => [Abstract!LogNext]_(Abstract!logVars)
  BY StepIsLogStep
<1> QED BY <1>1, <1>2, ChainInvariant, PTL DEF Spec, ImplementsLog, Abstract!LogSpec
=============================================================================
