-------------------------- MODULE AuditExportProofs -------------------------
(***************************************************************************)
(* Theorems about exports of the audit chain (module AuditExport), for     *)
(* every number of events, of commands and of alterations: an export that  *)
(* verifies is the chain that was appended, one that was reported verifies *)
(* and stays, nothing unaltered is refused, and one alteration is located. *)
(***************************************************************************)
EXTENDS AuditExport, FiniteSetTheorems, TLAPS

-----------------------------------------------------------------------------
(***************************************************************************)
(* General facts.                                                          *)
(***************************************************************************)

\* Induction over the numbers, as a least element: the form these proofs use.
LEMMA LeastElement ==
  ASSUME NEW T \in SUBSET Nat, T # {}
  PROVE  \E m \in T : \A k \in T : m <= k
<1> DEFINE Less == {ss \in Nat \X Nat : ss[1] < ss[2]}
<1>1. IsWellFoundedOn(Less, Nat)
  BY NatLessThanWellFounded DEF OpToRel
<1>2. PICK m \in T : \A k \in T : ~(<<k, m>> \in Less)
  <2> HIDE DEF Less
  <2> QED
    BY <1>1, WFMin
<1>3. ASSUME NEW k \in T, k < m PROVE <<k, m>> \in Less
  <2>1. <<k, m>> \in Nat \X Nat
    OBVIOUS
  <2>2. <<k, m>>[1] < <<k, m>>[2]
    BY <1>3
  <2> QED
    BY <2>1, <2>2, Zenon
<1>4. ASSUME NEW k \in T PROVE m <= k
  <2> HIDE DEF Less
  <2>1. k \in Nat /\ m \in Nat
    OBVIOUS
  <2>2. ~(k < m)
    BY <1>2, <1>3
  <2> QED
    BY <2>1, <2>2
<1> QED
  BY <1>4

LEMMA UpTo ==
  ASSUME NEW n \in Nat
  PROVE  IsFiniteSet(1..n) /\ Cardinality(1..n) = n
BY FS_Interval

LEMMA MinIsLeast ==
  ASSUME NEW T \in SUBSET Nat, T # {}
  PROVE  Min(T) \in T /\ \A k \in T : Min(T) <= k
<1>1. PICK m \in T : \A k \in T : m <= k
  BY LeastElement
<1> QED
  BY <1>1 DEF Min

-----------------------------------------------------------------------------
(***************************************************************************)
(* Sequences of records.                                                   *)
(***************************************************************************)

\* A record of an export has its three fields and no other.
IsRecord(r) ==
  r = [sequence |-> r.sequence, event |-> r.event, event_hash |-> r.event_hash]

IsRecords(s) ==
  /\ s \in Seq({s[i] : i \in 1..Len(s)})
  /\ \A i \in 1..Len(s) : IsRecord(s[i])

LEMMA SequenceOfItsOwn ==
  ASSUME NEW E, NEW s \in Seq(E)
  PROVE  s \in Seq({s[i] : i \in 1..Len(s)})
<1> DEFINE F == {s[i] : i \in 1..Len(s)}
<1>1. Len(s) \in Nat /\ s \in [1..Len(s) -> F]
  OBVIOUS
<1> QED
  BY <1>1

LEMMA RecordsAre ==
  ASSUME NEW s, IsRecords(s)
  PROVE  /\ Len(s) \in Nat
         /\ s = [i \in 1..Len(s) |-> s[i]]
         /\ \A i \in 1..Len(s) : IsRecord(s[i])
         /\ \E R : s \in Seq(R) /\ \A r \in R : IsRecord(r)
<1> DEFINE R == {s[i] : i \in 1..Len(s)}
<1>1. s \in Seq(R) /\ \A r \in R : IsRecord(r)
  BY DEF IsRecords
<1> HIDE DEF R
<1>2. Len(s) \in Nat /\ s = [i \in 1..Len(s) |-> s[i]]
  BY <1>1
<1> QED
  BY <1>1, <1>2 DEF IsRecords

LEMMA RecordsIn ==
  ASSUME NEW R, \A r \in R : IsRecord(r), NEW s \in Seq(R)
  PROVE  IsRecords(s)
<1>1. s \in Seq({s[i] : i \in 1..Len(s)})
  BY SequenceOfItsOwn
<1> QED
  BY <1>1 DEF IsRecords

LEMMA RecordsOf ==
  ASSUME NEW n \in Nat, NEW s, s = [i \in 1..n |-> s[i]],
         \A i \in 1..n : IsRecord(s[i])
  PROVE  IsRecords(s) /\ Len(s) = n
<1> DEFINE R == {s[i] : i \in 1..n}
<1>1. s \in [1..n -> R]
  OBVIOUS
<1>2. s \in Seq(R) /\ Len(s) = n
  <2> HIDE DEF R
  <2> QED
    BY <1>1
<1> QED
  BY <1>2 DEF IsRecords

\* One record replaced.
LEMMA RecordReplaced ==
  ASSUME NEW s, IsRecords(s), NEW i \in 1..Len(s), NEW r, IsRecord(r)
  PROVE  IsRecords([s EXCEPT ![i] = r])
<1> DEFINE t == [s EXCEPT ![i] = r]
<1>1. /\ Len(s) \in Nat
      /\ s = [k \in 1..Len(s) |-> s[k]]
      /\ \A k \in 1..Len(s) : IsRecord(s[k])
  BY RecordsAre
<1>2. t = [k \in 1..Len(s) |-> t[k]]
  BY <1>1
<1>3. \A k \in 1..Len(s) : IsRecord(t[k])
  BY <1>1
<1> HIDE DEF t
<1>4. IsRecords(t)
  BY <1>1, <1>2, <1>3, RecordsOf
<1> QED
  BY <1>4 DEF t

\* Two records taken for two others.
LEMMA RecordsExchanged ==
  ASSUME NEW s, IsRecords(s), NEW i \in 1..Len(s), NEW j \in 1..Len(s)
  PROVE  IsRecords([s EXCEPT ![i] = s[j], ![j] = s[i]])
<1> DEFINE t == [s EXCEPT ![i] = s[j], ![j] = s[i]]
<1>1. /\ Len(s) \in Nat
      /\ s = [k \in 1..Len(s) |-> s[k]]
      /\ \A k \in 1..Len(s) : IsRecord(s[k])
  BY RecordsAre
<1>2. t = [k \in 1..Len(s) |-> t[k]]
  BY <1>1
<1>3. \A k \in 1..Len(s) : IsRecord(t[k])
  BY <1>1
<1> HIDE DEF t
<1>4. IsRecords(t)
  BY <1>1, <1>2, <1>3, RecordsOf
<1> QED
  BY <1>4 DEF t

LEMMA RecordRemoved ==
  ASSUME NEW s, IsRecords(s), NEW i \in 1..Len(s)
  PROVE  IsRecords(RemoveAt(s, i))
<1>1. PICK R : s \in Seq(R) /\ \A r \in R : IsRecord(r)
  BY RecordsAre
<1>2. RemoveAt(s, i) \in Seq(R)
  BY <1>1 DEF RemoveAt
<1> QED
  BY <1>1, <1>2, RecordsIn

LEMMA RecordInserted ==
  ASSUME NEW s, IsRecords(s), NEW i \in 1..(Len(s) + 1), NEW j \in 1..Len(s)
  PROVE  IsRecords(InsertAt(s, i, s[j]))
<1>1. PICK R : s \in Seq(R) /\ \A r \in R : IsRecord(r)
  BY RecordsAre
<1>2. Len(s) \in Nat /\ s[j] \in R
  BY <1>1
<1>3. InsertAt(s, i, s[j]) \in Seq(R)
  BY <1>1, <1>2 DEF InsertAt
<1> QED
  BY <1>1, <1>3, RecordsIn

LEMMA RecordAppended ==
  ASSUME NEW s, IsRecords(s), NEW r, IsRecord(r)
  PROVE  IsRecords(Append(s, r))
<1>1. PICK R : s \in Seq(R) /\ \A q \in R : IsRecord(q)
  BY RecordsAre
<1>2. s \in Seq(R \cup {r})
  BY <1>1
<1>3. Append(s, r) \in Seq(R \cup {r})
  BY <1>2
<1> QED
  BY <1>1, <1>3, RecordsIn

\* The alterations of a table or of a copy leave records.
LEMMA ModifiedRecords ==
  ASSUME NEW s, IsRecords(s), NEW t \in Modified(s)
  PROVE  IsRecords(t)
<1>0. PICK i \in 1..Len(s) : \E e \in Variants(s[i].event) : t = [s EXCEPT ![i].event = e]
  BY DEF Modified
<1>1. PICK e \in Variants(s[i].event) : t = [s EXCEPT ![i].event = e]
  BY <1>0
<1> DEFINE r == [s[i] EXCEPT !.event = e]
<1>2. IsRecord(s[i])
  BY RecordsAre
<1>3. IsRecord(r)
  BY <1>2 DEF IsRecord
<1>4. t = [s EXCEPT ![i] = r]
  BY <1>1
<1> HIDE DEF r
<1> QED
  BY <1>3, <1>4, RecordReplaced

LEMMA RehashedRecord ==
  ASSUME NEW s, IsRecords(s), NEW i \in 1..Len(s)
  PROVE  IsRecords([s EXCEPT ![i] = Rehashed(@)])
<1>1. IsRecord(s[i])
  BY RecordsAre
<1>2. IsRecord(Rehashed(s[i]))
  BY <1>1 DEF IsRecord, Rehashed
<1> QED
  BY <1>2, RecordReplaced

LEMMA RechainedRecords ==
  ASSUME NEW s, IsRecords(s)
  PROVE  IsRecords(Rechained(s))
<1> DEFINE relinked(i, previous) == [s[i].event EXCEPT !.previous = previous]
           digest == CHOOSE digest : digest = [i \in 0..Len(s) |->
                       IF i = 0 THEN ZeroDigest ELSE EventHash(relinked(i, digest[i-1]))]
           t == [i \in 1..Len(s) |->
                   [sequence |-> i, event |-> relinked(i, digest[i-1]), event_hash |-> digest[i]]]
<1>1. Rechained(s) = t
  BY DEF Rechained
<1>2. Len(s) \in Nat
  BY RecordsAre
<1> HIDE DEF relinked, digest
<1>3. t = [i \in 1..Len(s) |-> t[i]] /\ \A i \in 1..Len(s) : IsRecord(t[i])
  BY DEF IsRecord
<1> HIDE DEF t
<1> QED
  BY <1>1, <1>2, <1>3, RecordsOf

LEMMA AlteredRecords ==
  ASSUME NEW s, IsRecords(s),
         NEW t \in Modified(s) \cup Deleted(s) \cup Inserted(s) \cup Swapped(s)
  PROVE  IsRecords(t)
<1>1. CASE t \in Modified(s)
  BY <1>1, ModifiedRecords
<1>2. CASE t \in Deleted(s)
  BY <1>2, RecordRemoved DEF Deleted
<1>3. CASE t \in Inserted(s)
  BY <1>3, RecordInserted DEF Inserted
<1>4. CASE t \in Swapped(s)
  BY <1>4, RecordsExchanged DEF Swapped
<1> QED
  BY <1>1, <1>2, <1>3, <1>4

-----------------------------------------------------------------------------
(***************************************************************************)
(* The inductive invariant: the head is the last link of what was          *)
(* appended, a checkpoint names a link of it, and what an export or a copy *)
(* presents with a signature of SigningKey was signed for such a link.     *)
(***************************************************************************)

\* The link after n events.
HashAt(n) == IF n = 0 THEN ZeroDigest ELSE <<appended[n]>>

CheckpointAt(n, zone) ==
  [sequence |-> n, head |-> HashAt(n), key |-> SigningKey, at |-> [rest |-> 0, zone |-> zone],
   signature |-> [key |-> SigningKey,
                  payload |-> [sequence |-> n, head |-> HashAt(n), key |-> SigningKey,
                               at |-> [rest |-> 0, zone |-> "utc"]]]]

Chained ==
  /\ appended \in Seq({appended[i] : i \in 1..Len(appended)})
  /\ head = [sequence |-> Len(appended), event_hash |-> HashAt(Len(appended))]
  /\ \A i \in 1..Len(appended) : appended[i].previous = HashAt(i - 1)

Anchored == checkpoints \subseteq {CheckpointAt(n, "db") : n \in 1..Len(appended)}

\* A checkpoint that was signed, as it is loaded.
IsLoaded(c) == \E d \in checkpoints : c = LoadedCheckpoint(d)

\* A checkpoint somebody presents: signed with another key, or signed here.
Presented(c) ==
  /\ c = [sequence |-> c.sequence, head |-> c.head, key |-> c.key, at |-> c.at,
          signature |-> c.signature]
  /\ \/ c.signature.key # SigningKey
     \/ \E d \in checkpoints : c.signature = LoadedCheckpoint(d).signature

ToolInv(x) ==
  /\ tool[x] = [phase |-> tool[x].phase, checkpoint |-> tool[x].checkpoint,
                records |-> tool[x].records]
  /\ Len(tool[x].records) \in Nat
  /\ tool[x].phase \in {"loaded", "read", "created", "written", "exported"}
       => IsLoaded(tool[x].checkpoint)

FileInv ==
  \/ file = NoFile
  \/ /\ file = [there |-> file.there, whole |-> file.whole,
                content |-> [records |-> file.content.records,
                             checkpoint |-> file.content.checkpoint]]
     /\ IsRecords(file.content.records)
     /\ IsLoaded(file.content.checkpoint)

CopyInv ==
  \/ copy = NoCopy
  \/ /\ copy = [taken |-> copy.taken, whole |-> copy.whole, records |-> copy.records,
                checkpoint |-> copy.checkpoint]
     /\ IsRecords(copy.records)
     /\ Presented(copy.checkpoint)

ExportInv ==
  /\ Chained /\ Anchored /\ IsRecords(rows)
  /\ tool = [x \in Tools |-> tool[x]] /\ \A x \in Tools : ToolInv(x)
  /\ FileInv /\ CopyInv

\* A checkpoint as it is loaded from its row.
LEMMA LoadedForm ==
  ASSUME NEW n
  PROVE  LoadedCheckpoint(CheckpointAt(n, "db")) = CheckpointAt(n, "utc")
<1> DEFINE c == CheckpointAt(n, "db")
           at == [rest |-> 0, zone |-> "utc"]
<1>1. UTC([c.at EXCEPT !.zone = "local"]) = at
  <2>1. c.at = [rest |-> 0, zone |-> "db"]
    BY DEF CheckpointAt
  <2> HIDE DEF c
  <2>2. [c.at EXCEPT !.zone = "local"] = [rest |-> 0, zone |-> "local"]
    BY <2>1
  <2>3. UTC([rest |-> 0, zone |-> "local"]) = at
    BY DEF UTC
  <2> HIDE DEF at
  <2> QED
    BY <2>2, <2>3, Zenon
<1>2. LoadedCheckpoint(c) = [c EXCEPT !.at = at]
  BY <1>1 DEF LoadedCheckpoint
<1>3. [c EXCEPT !.at = at] = CheckpointAt(n, "utc")
  BY DEF CheckpointAt
<1> QED
  BY <1>2, <1>3

LEMMA LoadedIsPresented ==
  ASSUME Anchored, NEW c, IsLoaded(c)
  PROVE  Presented(c)
<1>1. PICK d \in checkpoints : c = LoadedCheckpoint(d)
  BY DEF IsLoaded
<1>2. PICK n \in 1..Len(appended) : d = CheckpointAt(n, "db")
  BY DEF Anchored
<1>3. c = CheckpointAt(n, "utc")
  BY <1>1, <1>2, LoadedForm
<1>4. c = [sequence |-> c.sequence, head |-> c.head, key |-> c.key, at |-> c.at,
           signature |-> c.signature]
  BY <1>3 DEF CheckpointAt
<1> QED
  BY <1>1, <1>4 DEF Presented

-----------------------------------------------------------------------------
(***************************************************************************)
(* What verification establishes.                                          *)
(***************************************************************************)

LEMMA FailureFree ==
  ASSUME NEW records, NEW bad \in SUBSET (Nat \ {0}), FirstFailure(records, bad) = 0
  PROVE  bad = {}
<1> SUFFICES ASSUME bad # {} PROVE FALSE
  OBVIOUS
<1>1. Min(bad) \in Nat \ {0}
  BY MinIsLeast
<1>2. Affected(records[Min(bad)].sequence, Min(bad)) = 0
  BY DEF FirstFailure
<1> QED
  BY <1>1, <1>2 DEF Affected

\* A verdict other than "valid" is none of "valid".
LEMMA ValidSays ==
  ASSUME NEW x, VerifyExport(x).what = "valid"
  PROVE  /\ x.records # <<>> /\ VerifyCheckpoint(x.checkpoint)
         /\ FirstUnreadable(x.records) = 0
         /\ VerifyChain(x.records) = 0
         /\ CheckpointMisses(x) = 0
<1>1. \A s : /\ Verdict("invalid", s).what = "invalid"
             /\ Verdict("checkpoint", s).what = "checkpoint"
             /\ Verdict("chain", s).what = "chain"
  BY DEF Verdict
<1> QED
  BY <1>1 DEF VerifyExport

\* The records of an export that verifies are links of one chain, each hashed as
\* it is, up to what its checkpoint names.
LEMMA ValidChain ==
  ASSUME NEW x, IsRecords(x.records), x.checkpoint.sequence \in Nat \ {0},
         VerifyExport(x).what = "valid"
  PROVE  /\ x.checkpoint.sequence = Len(x.records)
         /\ x.checkpoint.head = x.records[Len(x.records)].event_hash
         /\ \A i \in 1..Len(x.records) :
              /\ x.records[i].sequence = i
              /\ x.records[i].event.previous = PreviousOf(x.records, i)
              /\ Canonical(x.records[i].event) = x.records[i].event
              /\ x.records[i].event_hash = <<x.records[i].event>>
<1> DEFINE records == x.records
           n == Len(records)
<1>1. n \in Nat \ {0}
  BY RecordsAre, ValidSays DEF IsRecords
<1>2. \A i \in 1..n : RecordReadable(records, i)
  <2>1. FirstFailure(records, {i \in 1..n : ~RecordReadable(records, i)}) = 0
    BY ValidSays DEF FirstUnreadable
  <2>2. {i \in 1..n : ~RecordReadable(records, i)} \in SUBSET (Nat \ {0})
    BY <1>1
  <2>3. {i \in 1..n : ~RecordReadable(records, i)} = {}
    BY <2>1, <2>2, FailureFree
  <2> QED
    BY <2>3
<1>3. \A i \in 1..n : LinkVerifies(records, i)
  <2>1. FirstFailure(records, {i \in 1..n : ~LinkVerifies(records, i)}) = 0
    BY ValidSays DEF VerifyChain
  <2>2. {i \in 1..n : ~LinkVerifies(records, i)} \in SUBSET (Nat \ {0})
    BY <1>1
  <2>3. {i \in 1..n : ~LinkVerifies(records, i)} = {}
    BY <2>1, <2>2, FailureFree
  <2> QED
    BY <2>3
<1>4. \A i \in 1..n :
        /\ records[i].sequence = i
        /\ records[i].event.previous = PreviousOf(records, i)
        /\ Canonical(records[i].event) = records[i].event
        /\ records[i].event_hash = <<records[i].event>>
  BY <1>2, <1>3 DEF RecordReadable, LinkVerifies, FromCanonicalJSON, HashFails, EventHash
<1>5. Last(records) = records[n] /\ Last(records).sequence = n
  BY <1>1, <1>4 DEF Last
<1>6. CheckpointMisses(x) = 0
  BY ValidSays
<1> HIDE DEF records, n
<1>7. x.checkpoint.sequence = n /\ x.checkpoint.head = records[n].event_hash
  BY <1>1, <1>5, <1>6 DEF CheckpointMisses, records
<1> QED
  BY <1>4, <1>7 DEF records, n

\* A checkpoint that is presented and verifies is one that was signed: with another
\* sequence, head or instant, or with another key, its signature would not fit it.
LEMMA VerifiedIsLoaded ==
  ASSUME Anchored, NEW c, Presented(c), VerifyCheckpoint(c)
  PROVE  \E d \in checkpoints, n \in 1..Len(appended) :
           c = LoadedCheckpoint(d) /\ c = CheckpointAt(n, "utc")
<1>1. c.signature = Sign(SigningKey, c)
  BY DEF VerifyCheckpoint
<1>2. c.signature.key = SigningKey
  BY <1>1 DEF Sign
<1>3. PICK d \in checkpoints : c.signature = LoadedCheckpoint(d).signature
  BY <1>2 DEF Presented
<1>4. PICK n \in 1..Len(appended) : d = CheckpointAt(n, "db")
  BY DEF Anchored
<1> DEFINE e == CheckpointAt(n, "utc")
<1>5. LoadedCheckpoint(d) = e
  BY <1>4, LoadedForm
<1>6. c.signature = e.signature
  BY <1>3, <1>5
<1>7. Payload(c) = e.signature.payload
  BY <1>1, <1>6 DEF Sign
<1>8. /\ c.sequence = n /\ c.head = HashAt(n) /\ c.key = SigningKey
      /\ c.at = [rest |-> 0, zone |-> "utc"]
  BY <1>7 DEF Payload, CheckpointAt
<1>9. c = e
  BY <1>6, <1>8 DEF Presented, CheckpointAt
<1> QED
  BY <1>5, <1>9

\* From the last record down, each is the event that was appended: it has the hash
\* its successor, or the checkpoint, is linked to.
LEMMA ChainIsGenuine ==
  ASSUME Chained, NEW records, NEW n \in 1..Len(appended), IsRecords(records),
         Len(records) = n, records[n].event_hash = HashAt(n),
         \A i \in 1..n :
           /\ records[i].sequence = i
           /\ records[i].event.previous = PreviousOf(records, i)
           /\ Canonical(records[i].event) = records[i].event
           /\ records[i].event_hash = <<records[i].event>>
  PROVE  records = Genuine(n)
<1>1. Len(appended) \in Nat
  BY DEF Chained
<1>2. \A i \in 1..n : records[i].event_hash = HashAt(i)
  <2> DEFINE T == {k \in 0..(n-1) : records[n - k].event_hash # HashAt(n - k)}
  <2>1. SUFFICES ASSUME T # {} PROVE FALSE
    <3>1. ASSUME NEW i \in 1..n PROVE n - i \in 0..(n-1) /\ n - (n - i) = i
      BY <1>1
    <3> QED
      BY <3>1, <2>1
  <2>2. T \in SUBSET Nat
    BY <1>1
  <2>3. PICK k \in T : \A j \in T : k <= j
    BY <2>1, <2>2, LeastElement
  <2>4. k \in 0..(n-1) /\ records[n - k].event_hash # HashAt(n - k)
    BY <2>3
  <2>5. k # 0
    BY <2>4, <1>1
  <2> DEFINE i == n - (k - 1)
  <2>6. i \in 2..n /\ i - 1 = n - k /\ k - 1 \in 0..(n-1) /\ ~(k <= k - 1)
    BY <2>4, <2>5, <1>1
  <2>7. k - 1 \notin T
    BY <2>3, <2>6
  <2> HIDE DEF T
  <2>8. records[i].event_hash = HashAt(i)
    BY <2>6, <2>7 DEF T
  <2> HIDE DEF i
  <2>9. i \in 1..n /\ i \in 1..Len(appended) /\ i # 0 /\ i # 1 /\ i - 1 # 0
    BY <2>6, <1>1
  <2>10. <<records[i].event>> = <<appended[i]>>
    BY <2>8, <2>9 DEF HashAt
  <2>11. records[i].event.previous = HashAt(i - 1)
    BY <2>9, <2>10 DEF Chained
  <2>12. records[i - 1].event_hash = HashAt(i - 1)
    BY <2>9, <2>11 DEF PreviousOf
  <2> QED
    BY <2>4, <2>6, <2>12
<1>3. \A i \in 1..n : records[i].event = appended[i] /\ records[i].event_hash = EventHash(appended[i])
  <2> SUFFICES ASSUME NEW i \in 1..n
               PROVE  records[i].event = appended[i] /\ records[i].event_hash = EventHash(appended[i])
    OBVIOUS
  <2>1. i # 0 /\ records[i].event_hash = HashAt(i)
    BY <1>1, <1>2
  <2>2. records[i].event_hash = <<appended[i]>>
    BY <2>1, Zenon DEF HashAt
  <2>3. <<records[i].event>> = <<appended[i]>>
    BY <2>2, Zenon
  <2>4. records[i].event = appended[i]
    BY <2>3
  <2> QED
    BY <2>3, <2>4, Zenon DEF EventHash
<1>4. records = [i \in 1..n |-> records[i]] /\ \A i \in 1..n : IsRecord(records[i])
  BY RecordsAre
<1>5. ASSUME NEW i \in 1..n PROVE records[i] = Genuine(n)[i]
  <2> PICK e, h : e = appended[i] /\ h = EventHash(appended[i])
    OBVIOUS
  <2>0. records[i].sequence = i /\ records[i].event = e /\ records[i].event_hash = h
    BY <1>3
  <2>1. records[i] = [sequence |-> i, event |-> e, event_hash |-> h]
    BY <1>4, <2>0, Zenon DEF IsRecord
  <2>2. Genuine(n)[i] = [sequence |-> i, event |-> e, event_hash |-> h]
    BY DEF Genuine
  <2> QED
    BY <2>1, <2>2, Zenon
<1> QED
  BY <1>4, <1>5 DEF Genuine

LEMMA InvMeansGenuine ==
  ASSUME ExportInv
  PROVE  ValidMeansGenuine
<1> SUFFICES ASSUME copy # NoCopy, VerifyExport(copy).what = "valid"
             PROVE  /\ copy.records = Genuine(copy.checkpoint.sequence)
                    /\ copy.checkpoint \in {LoadedCheckpoint(c) : c \in checkpoints}
  BY DEF ValidMeansGenuine
<1>1. IsRecords(copy.records) /\ Presented(copy.checkpoint) /\ Chained /\ Anchored
  BY DEF ExportInv, CopyInv
<1>2. VerifyCheckpoint(copy.checkpoint)
  BY ValidSays
<1>3. PICK d \in checkpoints, n \in 1..Len(appended) :
        copy.checkpoint = LoadedCheckpoint(d) /\ copy.checkpoint = CheckpointAt(n, "utc")
  BY <1>1, <1>2, VerifiedIsLoaded
<1>4. copy.checkpoint.sequence = n /\ copy.checkpoint.head = HashAt(n) /\ n \in Nat \ {0}
  BY <1>1, <1>3 DEF CheckpointAt, Chained
<1>5. /\ n = Len(copy.records)
      /\ HashAt(n) = copy.records[n].event_hash
      /\ \A i \in 1..n :
           /\ copy.records[i].sequence = i
           /\ copy.records[i].event.previous = PreviousOf(copy.records, i)
           /\ Canonical(copy.records[i].event) = copy.records[i].event
           /\ copy.records[i].event_hash = <<copy.records[i].event>>
  BY <1>1, <1>4, ValidChain
<1>6. copy.records = Genuine(n)
  BY <1>1, <1>5, ChainIsGenuine
<1> QED
  BY <1>3, <1>4, <1>6

-----------------------------------------------------------------------------
(***************************************************************************)
(* The invariant is inductive.                                             *)
(***************************************************************************)

\* The canonical form of an event has the link the event has.
LEMMA CanonicalPrevious ==
  ASSUME NEW e, "previous" \in DOMAIN e
  PROVE  Canonical(e).previous = e.previous
BY DEF Canonical

LEMMA LinkedPrevious ==
  ASSUME NEW input, NEW id, input.type \in {"denied", "started", "completed", "failed"}
  PROVE  Canonical(Linked(EventOf(input, id))).previous = head.event_hash
<1> DEFINE built == EventOf(input, id)
<1>1. \A i, p, s, r, h, c, x, at : "previous" \in DOMAIN buildEvent(i, p, s, r, h, c, x, at)
  BY DEF buildEvent
<1>2. "previous" \in DOMAIN built
  BY <1>1 DEF EventOf, DeniedEvent, StartedEvent, CompletedEvent, FailedEvent
<1> HIDE DEF built
<1>3. "previous" \in DOMAIN Linked(built) /\ Linked(built).previous = head.event_hash
  BY <1>2 DEF Linked
<1>4. Canonical(Linked(built)).previous = Linked(built).previous
  BY <1>3, CanonicalPrevious
<1> QED
  BY <1>3, <1>4 DEF built

\* What is kept where nothing is written.
LEMMA ChainKept ==
  ASSUME Chained, UNCHANGED <<appended, head>>
  PROVE  Chained'
BY DEF Chained, HashAt

LEMMA AnchorsKept ==
  ASSUME Anchored, UNCHANGED <<appended, checkpoints>>
  PROVE  Anchored'
BY DEF Anchored, CheckpointAt, HashAt

LEMMA ToolsKept ==
  ASSUME tool = [x \in Tools |-> tool[x]], \A x \in Tools : ToolInv(x),
         tool' = tool, checkpoints \subseteq checkpoints'
  PROVE  (tool = [x \in Tools |-> tool[x]])' /\ \A x \in Tools : ToolInv(x)'
BY DEF ToolInv, IsLoaded

LEMMA FileKept ==
  ASSUME FileInv, file' = file, checkpoints \subseteq checkpoints'
  PROVE  FileInv'
BY DEF FileInv, IsLoaded

LEMMA CopyKept ==
  ASSUME CopyInv, copy' = copy, checkpoints \subseteq checkpoints'
  PROVE  CopyInv'
BY DEF CopyInv, Presented

LEMMA InitInv ==
  ASSUME Init
  PROVE  ExportInv
<1>1. Len(<<>>) = 0 /\ <<>> \in Seq({})
  OBVIOUS
<1>2. IsRecords(<<>>)
  BY <1>1, RecordsIn
<1>3. appended = <<>> /\ head = [sequence |-> 0, event_hash |-> ZeroDigest] /\ checkpoints = {}
  BY DEF Init
<1>4. Chained
  <2>1. appended \in Seq({appended[i] : i \in 1..Len(appended)})
    BY <1>1, <1>3, SequenceOfItsOwn
  <2> QED
    BY <1>1, <1>3, <2>1 DEF Chained, HashAt
<1>5. tool = [x \in Tools |-> tool[x]] /\ \A x \in Tools : ToolInv(x)
  <2> DEFINE t == [phase |-> "idle", checkpoint |-> NoCheckpoint, records |-> <<>>]
  <2>1. tool = [x \in Tools |-> t]
    BY DEF Init
  <2>2. /\ t = [phase |-> t.phase, checkpoint |-> t.checkpoint, records |-> t.records]
        /\ t.phase = "idle" /\ t.records = <<>>
    OBVIOUS
  <2> HIDE DEF t
  <2> QED
    BY <1>1, <2>1, <2>2 DEF ToolInv
<1> QED
  BY <1>2, <1>3, <1>4, <1>5 DEF Init, ExportInv, Anchored, FileInv, CopyInv

LEMMA RecordStep ==
  ASSUME ExportInv, Len(appended) < Len(Inputs),
         NEW input \in Inputs[Len(appended) + 1], Record(input)
  PROVE  ExportInv'
<1> DEFINE e == Linked(EventOf(input, Len(appended) + 1))
<1>0. Len(appended) \in Nat
  BY DEF ExportInv, Chained
<1> PICK n \in Nat : n = Len(appended)
  BY <1>0
<1>1. n \in Nat /\ head.sequence = n /\ head.event_hash = HashAt(n)
  BY DEF ExportInv, Chained
<1>2. UNCHANGED <<checkpoints, tool, file, copy>>
  BY DEF Record, copyVars
<1>3. CASE refused' = TRUE /\ UNCHANGED <<appended, rows, head>>
  BY <1>2, <1>3, ChainKept, AnchorsKept, ToolsKept, FileKept, CopyKept DEF ExportInv
<1>4. CASE /\ rows' = Append(rows, [sequence |-> head.sequence + 1,
                                    event |-> appendArguments(e), event_hash |-> EventHash(e)])
           /\ head' = [sequence |-> head.sequence + 1, event_hash |-> EventHash(e)]
           /\ appended' = Append(appended, Canonical(e))
  <2>1. Canonical(e).previous = HashAt(n)
    <3>1. input.type \in {"denied", "started", "completed", "failed"}
      BY <1>1, InputsAssumption
    <3> QED
      BY <1>1, <3>1, LinkedPrevious
  <2> HIDE DEF e
  <2> DEFINE c == Canonical(e)
             E == {appended[i] : i \in 1..n} \cup {c}
  <2>2. appended \in Seq({appended[i] : i \in 1..n})
    BY DEF ExportInv, Chained
  <2>3. appended \in Seq(E) /\ c \in E
    BY <2>2
  <2>4. /\ appended' \in Seq(E) /\ Len(appended') = n + 1 /\ appended'[n + 1] = c
        /\ \A i \in 1..n : appended'[i] = appended[i]
    <3> HIDE DEF E, c
    <3> QED
      BY <1>4, <2>3 DEF c
  <2> HIDE DEF E
  <2>5. appended' \in Seq({appended'[i] : i \in 1..Len(appended')})
    BY <2>4, SequenceOfItsOwn
  <2>6. \A i \in 0..n : HashAt(i)' = HashAt(i)
    BY <1>1, <2>4 DEF HashAt
  <2>7. HashAt(n + 1)' = <<c>>
    BY <1>1, <2>4 DEF HashAt
  <2>8. head' = [sequence |-> n + 1, event_hash |-> <<c>>]
    BY <1>1, <1>4 DEF EventHash
  <2>9. Chained'
    <3>1. \A i \in 1..(n + 1) : appended'[i].previous = HashAt(i - 1)'
      <4>1. \A i \in 1..n : i - 1 \in 0..n /\ appended[i].previous = HashAt(i - 1)
        BY <1>1 DEF ExportInv, Chained
      <4>2. \A i \in 1..n : appended'[i].previous = HashAt(i - 1)'
        BY <2>4, <2>6, <4>1
      <4>3. appended'[n + 1].previous = HashAt(n)'
        BY <1>1, <2>1, <2>4, <2>6
      <4> QED
        BY <1>1, <4>2, <4>3
    <3> QED
      BY <2>4, <2>5, <2>7, <2>8, <3>1 DEF Chained
  <2>10. Anchored'
    <3>1. \A i \in 1..n : CheckpointAt(i, "db")' = CheckpointAt(i, "db") /\ i \in 1..(n + 1)
      BY <1>1, <2>6 DEF CheckpointAt
    <3>2. \A d \in checkpoints : \E i \in 1..n : d = CheckpointAt(i, "db")
      BY DEF ExportInv, Anchored
    <3>3. \A d \in checkpoints' : \E i \in 1..(n + 1) : d = CheckpointAt(i, "db")'
      BY <1>2, <3>1, <3>2
    <3> QED
      BY <2>4, <3>3 DEF Anchored
  <2>11. IsRecords(rows)'
    BY <1>4, RecordAppended DEF ExportInv, IsRecord
  <2> QED
    BY <1>2, <2>9, <2>10, <2>11, ToolsKept, FileKept, CopyKept DEF ExportInv
<1> QED
  BY <1>3, <1>4 DEF Record

LEMMA CheckpointStep ==
  ASSUME ExportInv, NEW rest \in 0..1, Checkpoint([rest |-> rest, zone |-> "local"])
  PROVE  ExportInv'
<1> DEFINE clock == [rest |-> rest, zone |-> "local"]
           c == CreateCheckpoint(head, clock)
<1>0. Len(appended) \in Nat
  BY DEF ExportInv, Chained
<1> PICK n \in Nat : n = Len(appended)
  BY <1>0
<1>1. n \in Nat /\ head.sequence = n /\ head.event_hash = HashAt(n)
  BY DEF ExportInv, Chained
<1>2. UNCHANGED <<appended, rows, head, tool, file, copy>>
  BY DEF Checkpoint, copyVars
<1>3. CASE refused' = TRUE /\ UNCHANGED checkpoints
  BY <1>2, <1>3, ChainKept, AnchorsKept, ToolsKept, FileKept, CopyKept DEF ExportInv
<1>4. CASE /\ head.sequence > 0
           /\ checkpoints' = checkpoints \cup {[c EXCEPT !.at.zone = "db"]}
  <2>1. Truncate(UTC(clock)) = [rest |-> 0, zone |-> "utc"]
    <3>1. UTC(clock) = [rest |-> rest, zone |-> "utc"]
      BY DEF UTC
    <3>2. Truncate([rest |-> rest, zone |-> "utc"]) = [rest |-> 0, zone |-> "utc"]
      BY DEF Truncate
    <3> QED
      BY <3>1, <3>2, Zenon
  <2> HIDE DEF clock
  <2>2. c = CheckpointAt(n, "utc")
    BY <1>1, <2>1 DEF CreateCheckpoint, CheckpointAt, Sign, Payload
  <2> HIDE DEF c
  <2>3. [c EXCEPT !.at.zone = "db"] = CheckpointAt(n, "db")
    BY <2>2 DEF CheckpointAt
  <2>4. n \in 1..n
    BY <1>1, <1>4
  <2>5. checkpoints \cup {CheckpointAt(n, "db")} \subseteq {CheckpointAt(i, "db") : i \in 1..n}
    BY <2>4 DEF ExportInv, Anchored
  <2>6. \A i, z : CheckpointAt(i, z)' = CheckpointAt(i, z)
    BY <1>2 DEF CheckpointAt, HashAt
  <2>7. Anchored'
    BY <1>2, <1>4, <2>3, <2>5, <2>6 DEF Anchored
  <2> QED
    BY <1>2, <1>4, <2>7, ChainKept, ToolsKept, FileKept, CopyKept DEF ExportInv
<1> QED
  BY <1>3, <1>4 DEF Checkpoint

\* One command moves on, with a checkpoint that is loaded where it has one.
LEMMA ToolMoved ==
  ASSUME tool = [x \in Tools |-> tool[x]], \A x \in Tools : ToolInv(x),
         NEW x \in Tools, NEW v, tool' = [tool EXCEPT ![x] = v],
         v = [phase |-> v.phase, checkpoint |-> v.checkpoint, records |-> v.records],
         Len(v.records) \in Nat,
         v.phase \in {"loaded", "read", "created", "written", "exported"}
           => IsLoaded(v.checkpoint),
         checkpoints' = checkpoints
  PROVE  (tool = [y \in Tools |-> tool[y]])' /\ \A y \in Tools : ToolInv(y)'
<1>1. tool'[x] = v /\ \A y \in Tools : y # x => tool'[y] = tool[y]
  OBVIOUS
<1>2. ToolInv(x)'
  BY <1>1 DEF ToolInv, IsLoaded
<1>3. \A y \in Tools : y # x => ToolInv(y)'
  BY <1>1 DEF ToolInv, IsLoaded
<1>4. (tool = [y \in Tools |-> tool[y]])'
  OBVIOUS
<1> QED
  BY <1>2, <1>3, <1>4

\* The command ends, or goes on with what it has.
LEMMA PhaseMoved ==
  ASSUME tool = [x \in Tools |-> tool[x]], \A x \in Tools : ToolInv(x),
         NEW x \in Tools, NEW phase, tool' = [tool EXCEPT ![x].phase = phase],
         \/ phase = "failed"
         \/ tool[x].phase \in {"loaded", "read", "created", "written", "exported"},
         checkpoints' = checkpoints
  PROVE  (tool = [y \in Tools |-> tool[y]])' /\ \A y \in Tools : ToolInv(y)'
<1> PICK v : v = [tool[x] EXCEPT !.phase = phase]
  OBVIOUS
<1>1. /\ v = [phase |-> v.phase, checkpoint |-> v.checkpoint, records |-> v.records]
      /\ v.phase = phase /\ v.checkpoint = tool[x].checkpoint /\ v.records = tool[x].records
  BY DEF ToolInv
<1>2. tool' = [tool EXCEPT ![x] = v]
  OBVIOUS
<1>3. /\ Len(v.records) \in Nat
      /\ v.phase \in {"loaded", "read", "created", "written", "exported"}
           => IsLoaded(v.checkpoint)
  BY <1>1 DEF ToolInv
<1> QED
  BY <1>1, <1>2, <1>3, ToolMoved

LEMMA Refused ==
  ASSUME tool = [x \in Tools |-> tool[x]], \A x \in Tools : ToolInv(x),
         NEW x \in Tools, Refuse(x), checkpoints' = checkpoints
  PROVE  (tool = [y \in Tools |-> tool[y]])' /\ \A y \in Tools : ToolInv(y)'
<1> PICK u : u = [tool[x] EXCEPT !.phase = "failed"]
  OBVIOUS
<1> PICK v : v = [u EXCEPT !.records = <<>>]
  OBVIOUS
<1>0. u = [phase |-> "failed", checkpoint |-> u.checkpoint, records |-> u.records]
  BY DEF ToolInv
<1>1. /\ v = [phase |-> v.phase, checkpoint |-> v.checkpoint, records |-> v.records]
      /\ v.phase = "failed" /\ v.records = <<>>
  BY <1>0
<1>2. tool' = [tool EXCEPT ![x] = v]
  BY DEF Refuse
<1>3. Len(v.records) \in Nat
  BY <1>1
<1> QED
  BY <1>1, <1>2, <1>3, ToolMoved

LEMMA WholeSet ==
  ASSUME NEW b, NEW h, NEW c, NEW w
  PROVE  [[there |-> b, whole |-> h, content |-> c] EXCEPT !.whole = w]
           = [there |-> b, whole |-> w, content |-> c]
OBVIOUS

\* What is exported are records, with the checkpoint that was loaded.
LEMMA MarshalledFile ==
  ASSUME NEW records, Len(records) \in Nat, NEW c
  PROVE  /\ MarshalExport(records, c)
              = [records |-> MarshalExport(records, c).records, checkpoint |-> c]
         /\ IsRecords(MarshalExport(records, c).records)
<1> DEFINE s == [i \in 1..Len(records) |-> ExportRecord(records[i])]
<1>1. MarshalExport(records, c) = [records |-> s, checkpoint |-> c]
  BY DEF MarshalExport
<1>2. s = [i \in 1..Len(records) |-> s[i]] /\ \A i \in 1..Len(records) : IsRecord(s[i])
  BY DEF IsRecord, ExportRecord
<1> HIDE DEF s
<1>3. IsRecords(s)
  BY <1>2, RecordsOf
<1> QED
  BY <1>1, <1>3

LEMMA ExportStep ==
  ASSUME ExportInv, NEW x \in Tools, Export(x)
  PROVE  ExportInv'
<1>1. UNCHANGED <<appended, rows, head, checkpoints, copy>>
  BY DEF Export, LoadCheckpoint, RecordsThrough, CreateFile, WriteFile, CloseFile, WriteFails,
         ToolDies, dbVars, copyVars
<1>2. Chained' /\ Anchored' /\ IsRecords(rows)' /\ CopyInv'
  BY <1>1, ChainKept, AnchorsKept, CopyKept DEF ExportInv
<1> DEFINE ToolsInv == tool = [y \in Tools |-> tool[y]] /\ \A y \in Tools : ToolInv(y)
<1>3. tool = [y \in Tools |-> tool[y]] /\ (\A y \in Tools : ToolInv(y)) /\ FileInv
  BY DEF ExportInv
<1>4. SUFFICES ToolsInv' /\ FileInv'
  BY <1>2 DEF ExportInv
<1>5. CASE Refuse(x)
  BY <1>1, <1>3, <1>5, Refused, FileKept DEF Refuse
<1>6. CASE \E c \in checkpoints : LoadCheckpoint(x, c) /\ ~Refuse(x)
  <2>1. PICK c \in checkpoints : LoadCheckpoint(x, c) /\ ~Refuse(x)
    BY <1>6
  <2> PICK loaded : loaded = LoadedCheckpoint(c)
    OBVIOUS
  <2>2. /\ tool' = [tool EXCEPT ![x].phase = "loaded", ![x].checkpoint = loaded]
        /\ file' = file
    BY <2>1 DEF LoadCheckpoint
  <2> PICK u : u = [tool[x] EXCEPT !.phase = "loaded"]
    OBVIOUS
  <2> PICK v : v = [u EXCEPT !.checkpoint = loaded]
    OBVIOUS
  <2>3. u = [phase |-> "loaded", checkpoint |-> u.checkpoint, records |-> u.records]
        /\ u.records = tool[x].records
    BY <1>3 DEF ToolInv
  <2>4. /\ v = [phase |-> v.phase, checkpoint |-> v.checkpoint, records |-> v.records]
        /\ v.checkpoint = loaded /\ v.records = tool[x].records
    BY <2>3
  <2>5. tool' = [tool EXCEPT ![x] = v]
    BY <1>3, <2>2
  <2>6. Len(v.records) \in Nat /\ IsLoaded(v.checkpoint)
    BY <1>3, <2>4 DEF ToolInv, IsLoaded
  <2>7. ToolsInv'
    BY <1>1, <1>3, <2>4, <2>5, <2>6, ToolMoved
  <2> QED
    BY <1>1, <1>3, <2>2, <2>7, FileKept
<1>7. CASE RecordsThrough(x) /\ ~Refuse(x)
  <2> PICK records : records = RowsThrough(tool[x].checkpoint.sequence)
    OBVIOUS
  <2>1. /\ tool[x].phase = "loaded" /\ file' = file
        /\ tool' = [tool EXCEPT ![x].phase = "read", ![x].records = records]
    BY <1>7 DEF RecordsThrough, At
  <2>2. Len(records) \in Nat
    <3> PICK n : n = tool[x].checkpoint.sequence
      OBVIOUS
    <3> DEFINE S == {i \in 1..Len(rows) : rows[i].sequence <= n}
               k == Cardinality(S)
    <3>1. Len(rows) \in Nat
      BY RecordsAre DEF ExportInv
    <3>2. IsFiniteSet(S)
      <4>1. S \in SUBSET (1..Len(rows))
        OBVIOUS
      <4>2. IsFiniteSet(1..Len(rows))
        BY <3>1, FS_Interval
      <4> HIDE DEF S
      <4> QED
        BY <4>1, <4>2, FS_Subset
    <3>3. k \in Nat
      BY <3>2, FS_CardinalityType
    <3>4. records = [i \in 1..k |-> scanRecord(rows[i])]
      BY DEF RowsThrough
    <3> HIDE DEF k
    <3> DEFINE R == {scanRecord(rows[i]) : i \in 1..k}
    <3>5. records \in [1..k -> R]
      BY <3>4
    <3> QED
      BY <3>3, <3>5
  <2> PICK u : u = [tool[x] EXCEPT !.phase = "read"]
    OBVIOUS
  <2> PICK v : v = [u EXCEPT !.records = records]
    OBVIOUS
  <2>3. u = [phase |-> "read", checkpoint |-> u.checkpoint, records |-> u.records]
        /\ u.checkpoint = tool[x].checkpoint
    BY <1>3 DEF ToolInv
  <2>4. /\ v = [phase |-> v.phase, checkpoint |-> v.checkpoint, records |-> v.records]
        /\ v.checkpoint = tool[x].checkpoint /\ v.records = records
    BY <2>3
  <2>5. tool' = [tool EXCEPT ![x] = v]
    BY <1>3, <2>1
  <2>6. Len(v.records) \in Nat /\ IsLoaded(v.checkpoint)
    BY <1>3, <2>1, <2>2, <2>4 DEF ToolInv
  <2>7. ToolsInv'
    BY <1>1, <1>3, <2>4, <2>5, <2>6, ToolMoved
  <2> QED
    BY <1>1, <1>3, <2>1, <2>7, FileKept
<1>8. CASE CreateFile(x) /\ ~Refuse(x)
  <2>1. tool[x].phase = "read"
    BY <1>8 DEF CreateFile, At
  <2>2. CASE tool' = [tool EXCEPT ![x].phase = "failed"] /\ file' = file
    BY <1>1, <1>3, <2>2, PhaseMoved, FileKept
  <2>3. CASE /\ tool' = [tool EXCEPT ![x].phase = "created"]
             /\ file' = [there |-> TRUE, whole |-> FALSE,
                         content |-> MarshalExport(tool[x].records, tool[x].checkpoint)]
    <3>1. ToolsInv'
      BY <1>1, <1>3, <2>1, <2>3, PhaseMoved
    <3>2. Len(tool[x].records) \in Nat /\ IsLoaded(tool[x].checkpoint)
      BY <1>3, <2>1 DEF ToolInv
    <3> PICK r, c, b, w, m : /\ r = tool[x].records /\ c = tool[x].checkpoint
                             /\ b = TRUE /\ w = FALSE /\ m = MarshalExport(r, c)
      OBVIOUS
    <3>3. Len(r) \in Nat
      BY <3>2
    <3>4. m = [records |-> m.records, checkpoint |-> c] /\ IsRecords(m.records)
      BY <3>3, MarshalledFile
    <3>5. file' = [there |-> b, whole |-> w, content |-> m]
      BY <2>3
    <3>6. file'.there = b /\ file'.whole = w /\ file'.content = m /\ m.checkpoint = c
      BY <3>4, <3>5
    <3>7. IsLoaded(file.content.checkpoint)'
      BY <1>1, <3>2, <3>6 DEF IsLoaded
    <3>8. file' = [there |-> file'.there, whole |-> file'.whole,
                   content |-> [records |-> file'.content.records,
                                checkpoint |-> file'.content.checkpoint]]
      BY <3>4, <3>5, <3>6
    <3>9. FileInv'
      BY <3>4, <3>6, <3>7, <3>8, Zenon DEF FileInv
    <3> QED
      BY <3>1, <3>9
  <2> QED
    BY <1>8, <2>2, <2>3 DEF CreateFile
<1>9. ASSUME NEW w, file' = [file EXCEPT !.whole = w]
      PROVE  FileInv'
  <2>1. CASE file = NoFile
    <3>1. file' = NoFile
      BY <1>9, <2>1 DEF NoFile
    <3> QED
      BY <3>1 DEF FileInv
  <2>2. CASE file # NoFile
    <3> PICK b, h, c : b = file.there /\ h = file.whole /\ c = file.content
      OBVIOUS
    <3>1. /\ file = [there |-> b, whole |-> h, content |-> c]
          /\ c = [records |-> c.records, checkpoint |-> c.checkpoint]
          /\ IsRecords(c.records) /\ IsLoaded(c.checkpoint)
      BY <1>3, <2>2 DEF FileInv
    <3>2. file' = [there |-> b, whole |-> w, content |-> c]
      <4>1. [[there |-> b, whole |-> h, content |-> c] EXCEPT !.whole = w]
              = [there |-> b, whole |-> w, content |-> c]
        BY WholeSet
      <4> QED
        BY <1>9, <3>1, <4>1, Zenon
    <3> QED
      BY <1>1, <3>1, <3>2 DEF FileInv, IsLoaded
  <2> QED
    BY <2>1, <2>2
<1>10. CASE WriteFile(x)
  BY <1>1, <1>3, <1>9, <1>10, PhaseMoved DEF WriteFile, At
<1>11. CASE CloseFile(x)
  BY <1>1, <1>3, <1>11, PhaseMoved, FileKept DEF CloseFile, At
<1>12. CASE WriteFails(x)
  <2>1. FileInv'
    BY <1>12 DEF WriteFails, FileInv
  <2> QED
    BY <1>1, <1>3, <1>12, <2>1, PhaseMoved DEF WriteFails
<1>13. CASE ToolDies(x)
  <2>1. FileInv'
    BY <1>1, <1>3, <1>9, <1>13, FileKept DEF ToolDies
  <2> QED
    BY <1>1, <1>3, <1>13, <2>1, PhaseMoved DEF ToolDies
<1> QED
  BY <1>5, <1>6, <1>7, <1>8, <1>10, <1>11, <1>12, <1>13 DEF Export

LEMMA AlterRowsStep ==
  ASSUME ExportInv, AlterRows
  PROVE  ExportInv'
<1>1. UNCHANGED <<appended, head, checkpoints, tool, file, copy>>
  BY DEF AlterRows, copyVars
<1>2. IsRecords(rows)
  BY DEF ExportInv
<1>3. IsRecords(rows')
  <2>1. CASE rows' \in Modified(rows) \cup Deleted(rows)
    BY <1>2, <2>1, AlteredRecords
  <2>2. CASE rows' \in {[rows EXCEPT ![i] = Rehashed(@)] : i \in 1..Len(rows)}
    BY <1>2, <2>2, RehashedRecord
  <2>3. CASE rows' = Rechained(rows)
    BY <1>2, <2>3, RechainedRecords
  <2> QED
    BY <2>1, <2>2, <2>3 DEF AlterRows
<1> QED
  BY <1>1, <1>3, ChainKept, AnchorsKept, ToolsKept, FileKept, CopyKept DEF ExportInv

LEMMA TakeCopyStep ==
  ASSUME ExportInv, TakeCopy
  PROVE  ExportInv'
<1>1. UNCHANGED <<appended, rows, head, checkpoints, tool, file>>
  BY DEF TakeCopy, dbVars
<1>2. file # NoFile
  BY DEF TakeCopy, NoFile
<1> PICK t, w, c : t = TRUE /\ w = file.whole /\ c = file.content
  OBVIOUS
<1>3. IsRecords(c.records) /\ IsLoaded(c.checkpoint)
  BY <1>2 DEF ExportInv, FileInv
<1>4. Presented(c.checkpoint)
  BY <1>3, LoadedIsPresented DEF ExportInv
<1>5. copy' = [taken |-> t, whole |-> w, records |-> c.records, checkpoint |-> c.checkpoint]
  BY DEF TakeCopy
<1>6. /\ copy' = [taken |-> copy'.taken, whole |-> copy'.whole, records |-> copy'.records,
                  checkpoint |-> copy'.checkpoint]
      /\ copy'.records = c.records /\ copy'.checkpoint = c.checkpoint
  BY <1>5
<1>7. Presented(copy.checkpoint)'
  BY <1>1, <1>4, <1>6 DEF Presented
<1>8. CopyInv'
  BY <1>3, <1>6, <1>7, Zenon DEF CopyInv
<1> QED
  BY <1>1, <1>8, ChainKept, AnchorsKept, ToolsKept, FileKept DEF ExportInv

\* A checkpoint put in the place of another is signed here, or with another key.
LEMMA CheckpointsPresented ==
  ASSUME Anchored, NEW x, Presented(x.checkpoint), NEW c \in Checkpoints(x)
  PROVE  Presented(c)
<1> PICK d : d = x.checkpoint
  OBVIOUS
<1> DEFINE fitting == [d EXCEPT !.sequence = Len(x.records), !.head = Last(x.records).event_hash]
<1>1. /\ fitting = [sequence |-> Len(x.records), head |-> Last(x.records).event_hash,
                    key |-> d.key, at |-> d.at, signature |-> d.signature]
  <2> PICK n, h : n = Len(x.records) /\ h = Last(x.records).event_hash
    OBVIOUS
  <2> DEFINE u == [d EXCEPT !.sequence = n]
  <2>1. u = [sequence |-> n, head |-> d.head, key |-> d.key, at |-> d.at,
             signature |-> d.signature]
    BY DEF Presented
  <2> HIDE DEF u
  <2>2. [u EXCEPT !.head = h] = [sequence |-> n, head |-> h, key |-> d.key, at |-> d.at,
                                 signature |-> d.signature]
    BY <2>1
  <2> QED
    BY <2>2 DEF u
<1>2. CASE c \in {LoadedCheckpoint(e) : e \in checkpoints}
  BY <1>2, LoadedIsPresented DEF IsLoaded
<1>3. CASE c = fitting
  <2> HIDE DEF fitting
  <2>1. c.signature = d.signature
    BY <1>1, <1>3
  <2> QED
    BY <1>1, <1>3, <2>1 DEF Presented
<1>4. CASE c = [fitting EXCEPT !.signature = Sign(OtherKey, fitting)]
  <2> HIDE DEF fitting
  <2> PICK s : s = Sign(OtherKey, fitting)
    OBVIOUS
  <2>1. s.key # SigningKey
    BY KeysAssumption DEF Sign
  <2>2. c = [sequence |-> Len(x.records), head |-> Last(x.records).event_hash,
             key |-> d.key, at |-> d.at, signature |-> s]
    BY <1>1, <1>4
  <2> QED
    BY <2>1, <2>2 DEF Presented
<1> QED
  BY <1>2, <1>3, <1>4 DEF Checkpoints

LEMMA AlterCopyStep ==
  ASSUME ExportInv, AlterCopy
  PROVE  ExportInv'
<1>1. UNCHANGED <<appended, rows, head, checkpoints, tool, file>>
  BY DEF AlterCopy, dbVars
<1> PICK t, w, s, c : t = copy.taken /\ w = copy.whole /\ s = copy.records /\ c = copy.checkpoint
  OBVIOUS
<1>2. /\ copy = [taken |-> t, whole |-> w, records |-> s, checkpoint |-> c]
      /\ IsRecords(s) /\ Presented(c)
  BY DEF AlterCopy, ExportInv, CopyInv
<1>3. \A r, d : /\ [copy EXCEPT !.records = r] = [taken |-> t, whole |-> w, records |-> r, checkpoint |-> c]
                /\ [copy EXCEPT !.checkpoint = d] = [taken |-> t, whole |-> w, records |-> s, checkpoint |-> d]
  BY <1>2
<1>4. \E r, d : /\ copy' = [taken |-> t, whole |-> w, records |-> r, checkpoint |-> d]
                /\ IsRecords(r) /\ Presented(d)
  <2>1. CASE \E r \in Modified(s) \cup Deleted(s) \cup Inserted(s) \cup Swapped(s) :
               copy' = [copy EXCEPT !.records = r]
    BY <1>2, <1>3, <2>1, AlteredRecords
  <2>2. CASE \E i \in 1..Len(s) : copy' = [copy EXCEPT !.records = [s EXCEPT ![i] = Rehashed(@)]]
    BY <1>2, <1>3, <2>2, RehashedRecord
  <2>3. CASE copy' = [copy EXCEPT !.records = Rechained(s)]
    BY <1>2, <1>3, <2>3, RechainedRecords
  <2>4. CASE \E d \in Checkpoints(copy) : copy' = [copy EXCEPT !.checkpoint = d]
    BY <1>2, <1>3, <2>4, CheckpointsPresented DEF ExportInv
  <2> QED
    BY <2>1, <2>2, <2>3, <2>4 DEF AlterCopy
<1>5. PICK r, d : /\ copy' = [taken |-> t, whole |-> w, records |-> r, checkpoint |-> d]
                  /\ IsRecords(r) /\ Presented(d)
  BY <1>4
<1>6. copy'.records = r /\ copy'.checkpoint = d /\ copy'.taken = t /\ copy'.whole = w
  BY <1>5
<1>7. Presented(copy.checkpoint)'
  BY <1>1, <1>5, <1>6 DEF Presented
<1>8. CopyInv'
  BY <1>5, <1>6, <1>7, Zenon DEF CopyInv
<1> QED
  BY <1>1, <1>8, ChainKept, AnchorsKept, ToolsKept, FileKept DEF ExportInv

LEMMA NextInv ==
  ASSUME ExportInv, [Next]_vars
  PROVE  ExportInv'
<1>1. CASE UNCHANGED vars
  <2>1. UNCHANGED <<appended, rows, head, checkpoints, tool, file, copy>>
    BY <1>1 DEF vars
  <2> QED
    BY <2>1, ChainKept, AnchorsKept, ToolsKept, FileKept, CopyKept DEF ExportInv
<1>2. CASE Len(appended) < Len(Inputs) /\ \E input \in Inputs[Len(appended) + 1] : Record(input)
  BY <1>2, RecordStep
<1>3. CASE \E rest \in 0..1 : Checkpoint([rest |-> rest, zone |-> "local"])
  BY <1>3, CheckpointStep
<1>4. CASE \E x \in Tools : Export(x)
  BY <1>4, ExportStep
<1>5. CASE AlterRows
  BY <1>5, AlterRowsStep
<1>6. CASE TakeCopy
  BY <1>6, TakeCopyStep
<1>7. CASE AlterCopy
  BY <1>7, AlterCopyStep
<1> QED
  BY <1>1, <1>2, <1>3, <1>4, <1>5, <1>6, <1>7 DEF Next

\* The invariant of the chain, its checkpoints, exports and their copies: every
\* checkpoint names a link of the chain as it was appended, and nothing presented
\* has a signature of SigningKey that was not given for such a checkpoint.
THEOREM ExportInvariant == Spec => []ExportInv
<1>1. Init => ExportInv
  BY InitInv
<1>2. ExportInv /\ [Next]_vars => ExportInv'
  BY NextInv
<1> QED
  BY <1>1, <1>2, PTL DEF Spec

\* An export that verifies (VerifyExport in export.go) holds exactly the events that
\* were appended up to a checkpoint that was signed, whatever was altered, how often,
\* by whom, and however many exports and events there are.
THEOREM VerifiedExportsAreGenuine == Spec => []ValidMeansGenuine
BY ExportInvariant, InvMeansGenuine, PTL

-----------------------------------------------------------------------------
(***************************************************************************)
(* Sorting.                                                                *)
(***************************************************************************)

\* Who has fewer elements below comes first.
LEMMA FewerBelow ==
  ASSUME NEW S \in SUBSET Int, IsFiniteSet(S), NEW x \in S, NEW y \in S
  PROVE  /\ Cardinality(Below(S, x)) \in 0..(Cardinality(S) - 1)
         /\ x < y <=> Cardinality(Below(S, x)) < Cardinality(Below(S, y))
<1>0. \A z \in S : z \in Int
  OBVIOUS
<1>1. ASSUME NEW a \in S, NEW b \in S, a < b
      PROVE  Cardinality(Below(S, a)) < Cardinality(Below(S, b))
  <2>1. Below(S, a) \in SUBSET Below(S, b) /\ a \in Below(S, b) /\ a \notin Below(S, a)
    <3>1. \A z \in S : z < a => z < b
      BY <1>0, <1>1
    <3>2. ~(a < a)
      BY <1>0
    <3> QED
      BY <1>1, <3>1, <3>2, Zenon DEF Below
  <2>2. Below(S, b) \in SUBSET S
    BY DEF Below
  <2>3. IsFiniteSet(Below(S, b))
    BY <2>2, FS_Subset
  <2>4. /\ IsFiniteSet(Below(S, a))
        /\ Cardinality(Below(S, a)) <= Cardinality(Below(S, b))
        /\ Cardinality(Below(S, a)) # Cardinality(Below(S, b))
    BY <2>1, <2>3, FS_Subset
  <2>5. Cardinality(Below(S, a)) \in Nat /\ Cardinality(Below(S, b)) \in Nat
    BY <2>3, <2>4, FS_CardinalityType
  <2> QED
    BY <2>4, <2>5
<1>2. \A a \in S : Cardinality(Below(S, a)) \in 0..(Cardinality(S) - 1)
  <2> SUFFICES ASSUME NEW a \in S PROVE Cardinality(Below(S, a)) \in 0..(Cardinality(S) - 1)
    OBVIOUS
  <2>1. Below(S, a) \in SUBSET S /\ a \notin Below(S, a)
    BY <1>0 DEF Below
  <2>2. /\ IsFiniteSet(Below(S, a)) /\ Cardinality(Below(S, a)) <= Cardinality(S)
        /\ Cardinality(Below(S, a)) # Cardinality(S)
    BY <2>1, FS_Subset
  <2>3. Cardinality(Below(S, a)) \in Nat /\ Cardinality(S) \in Nat
    BY <2>2, FS_CardinalityType
  <2> QED
    BY <2>2, <2>3
<1>3. Cardinality(S) \in Nat
  BY FS_CardinalityType
<1>4. CASE x < y
  BY <1>1, <1>2, <1>4
<1>5. CASE x = y
  <2>1. x \in Int /\ Cardinality(Below(S, x)) \in Int
    BY <1>0, <1>2, <1>3
  <2> QED
    BY <1>2, <1>5, <2>1
<1>6. CASE y < x
  <2>1. Cardinality(Below(S, y)) < Cardinality(Below(S, x))
    BY <1>1, <1>6
  <2>2. ~(x < y)
    BY <1>0, <1>6
  <2> QED
    BY <1>2, <1>3, <2>1, <2>2
<1>7. x < y \/ x = y \/ y < x
  BY <1>0
<1> QED
  BY <1>2, <1>4, <1>5, <1>6, <1>7

\* The ascending sequence of a set has its elements, each once, in their order.
LEMMA AscendingOf ==
  ASSUME NEW S \in SUBSET Int, IsFiniteSet(S)
  PROVE  /\ Cardinality(S) \in Nat
         /\ Ascending(S) \in [1..Cardinality(S) -> S]
         /\ \A x \in S : \E i \in 1..Cardinality(S) : Ascending(S)[i] = x
         /\ \A i, j \in 1..Cardinality(S) : i < j => Ascending(S)[i] < Ascending(S)[j]
<1> DEFINE n == Cardinality(S)
           rank == [x \in S |-> Cardinality(Below(S, x)) + 1]
           s == Ascending(S)
<1>1. n \in Nat
  BY FS_CardinalityType
<1>2. \A x \in S : rank[x] \in 1..n /\ rank[x] = Cardinality(Below(S, x)) + 1
  BY <1>1, FewerBelow
<1>3. \A x, y \in S : x < y <=> rank[x] < rank[y]
  <2> SUFFICES ASSUME NEW x \in S, NEW y \in S PROVE x < y <=> rank[x] < rank[y]
    OBVIOUS
  <2>1. /\ x < y <=> Cardinality(Below(S, x)) < Cardinality(Below(S, y))
        /\ Cardinality(Below(S, x)) \in 0..(n - 1) /\ Cardinality(Below(S, y)) \in 0..(n - 1)
    BY FewerBelow
  <2> QED
    BY <1>1, <2>1
<1>4. \A i \in 1..n : \E x \in S : rank[x] = i
  <2>1. rank \in [S -> 1..n]
    BY <1>2
  <2>2. \A x, y \in S : rank[x] = rank[y] => x = y
    <3> SUFFICES ASSUME NEW x \in S, NEW y \in S, rank[x] = rank[y] PROVE x = y
      OBVIOUS
    <3>1. x \in Int /\ y \in Int /\ rank[x] \in Int
      BY <1>2
    <3>2. ~(x < y) /\ ~(y < x)
      BY <1>1, <1>2, <1>3
    <3> QED
      BY <3>1, <3>2
  <2> HIDE DEF rank
  <2>3. rank \in Injection(S, 1..n)
    BY <2>1, <2>2 DEF Injection, IsInjective
  <2>4. IsFiniteSet(1..n) /\ Cardinality(1..n) = n
    BY <1>1, FS_Interval
  <2>5. rank \in Surjection(S, 1..n)
    BY <2>3, <2>4, FS_Injection
  <2> QED
    BY <2>5 DEF Surjection
<1>5. \A i \in 1..n : s[i] \in S /\ rank[s[i]] = i
  <2> SUFFICES ASSUME NEW i \in 1..n PROVE s[i] \in S /\ rank[s[i]] = i
    OBVIOUS
  <2>1. s[i] = CHOOSE x \in S : Cardinality(Below(S, x)) = i - 1
    BY DEF Ascending
  <2>2. PICK x \in S : Cardinality(Below(S, x)) = i - 1
    <3>1. PICK x \in S : rank[x] = i
      BY <1>4
    <3>2. Cardinality(Below(S, x)) \in 0..(n - 1) /\ i = Cardinality(Below(S, x)) + 1
      BY <3>1, FewerBelow
    <3> QED
      BY <1>1, <3>2
  <2>3. s[i] \in S /\ Cardinality(Below(S, s[i])) = i - 1
    BY <2>1, <2>2
  <2> QED
    BY <1>1, <1>2, <2>3
<1>6. s = [i \in 1..n |-> s[i]]
  BY DEF Ascending
<1> HIDE DEF s, rank
<1>7. s \in [1..n -> S]
  BY <1>5, <1>6
<1>8. \A x \in S : \E i \in 1..n : s[i] = x
  <2> SUFFICES ASSUME NEW x \in S PROVE \E i \in 1..n : s[i] = x
    OBVIOUS
  <2>1. PICK i \in 1..n : i = rank[x]
    BY <1>2
  <2>2. PICK y \in S : y = s[i] /\ rank[y] = i
    BY <1>5
  <2>3. ~(rank[x] < rank[y]) /\ ~(rank[y] < rank[x])
    BY <1>1, <2>1, <2>2
  <2>4. ~(x < y) /\ ~(y < x) /\ x \in Int /\ y \in Int
    BY <1>3, <2>3
  <2>5. x = y
    BY <2>4
  <2> QED
    BY <2>2, <2>5
<1>9. \A i, j \in 1..n : i < j => s[i] < s[j]
  BY <1>3, <1>5
<1> QED
  BY <1>1, <1>7, <1>8, <1>9 DEF s

\* Sorted codes of a finite set.
LEMMA SortedSet ==
  ASSUME NEW S \in SUBSET Nat, IsFiniteSet(S)
  PROVE  /\ Ascending(S) \in Seq(Nat) /\ Len(Ascending(S)) = Cardinality(S)
         /\ Range(Ascending(S)) = S
         /\ \A i \in 1..Len(Ascending(S)) : Ascending(S)[i] \in S
         /\ \A i, j \in 1..Len(Ascending(S)) : Ascending(S)[i] = Ascending(S)[j] => i = j
<1> PICK s, n : s = Ascending(S) /\ n = Cardinality(S)
  OBVIOUS
<1>1. S \in SUBSET Int
  OBVIOUS
<1>2. /\ n \in Nat /\ s \in [1..n -> S]
      /\ \A x \in S : \E i \in 1..n : s[i] = x
      /\ \A i, j \in 1..n : i < j => s[i] < s[j]
  BY <1>1, AscendingOf
<1>3. s \in [1..n -> Nat] /\ \A i \in 1..n : s[i] \in S /\ s[i] \in Nat
  BY <1>2
<1>4. s \in Seq(Nat) /\ Len(s) = n /\ DOMAIN s = 1..n
  BY <1>2, <1>3
<1>5. Range(s) = S
  <2>1. Range(s) = {s[i] : i \in 1..n}
    BY <1>4 DEF Range
  <2>2. \A x : x \in S <=> \E i \in 1..n : s[i] = x
    BY <1>2, <1>3
  <2> QED
    BY <2>1, <2>2
<1>6. ASSUME NEW i \in 1..n, NEW j \in 1..n, s[i] = s[j] PROVE i = j
  <2>1. i \in Int /\ j \in Int /\ s[i] \in Nat /\ s[j] \in Nat
    BY <1>2, <1>3
  <2>2. ~(s[i] < s[j]) /\ ~(s[j] < s[i])
    BY <1>6, <2>1
  <2>3. ~(i < j) /\ ~(j < i)
    BY <1>2, <2>2
  <2> QED
    BY <2>1, <2>3
<1> QED
  BY <1>3, <1>4, <1>5, <1>6

LEMMA CodesFinite ==
  ASSUME NEW codes \in Seq(Nat)
  PROVE  /\ Range(codes) \in SUBSET Nat /\ IsFiniteSet(Range(codes))
         /\ Cardinality(Range(codes)) \in Nat /\ Cardinality(Range(codes)) <= Len(codes)
         /\ codes # <<>> => Cardinality(Range(codes)) # 0
<1> PICK n \in Nat : n = Len(codes)
  OBVIOUS
<1> PICK R : R = Range(codes)
  OBVIOUS
<1>1. DOMAIN codes = 1..n /\ codes \in [1..n -> Nat]
  OBVIOUS
<1>2. R \in SUBSET Nat /\ codes \in Surjection(1..n, R)
  BY <1>1 DEF Surjection, Range
<1>3. IsFiniteSet(1..n) /\ Cardinality(1..n) = n
  BY UpTo
<1>4. IsFiniteSet(R) /\ Cardinality(R) <= n
  BY <1>2, <1>3, FS_Surjection
<1>5. ASSUME codes # <<>> PROVE Cardinality(R) # 0
  <2>1. n # 0
    BY <1>5
  <2>2. codes[1] \in R
    BY <1>1, <2>1 DEF Range
  <2> QED
    BY <1>4, <2>2, FS_EmptySet
<1>6. Cardinality(R) \in Nat
  BY <1>4, FS_CardinalityType
<1> QED
  BY <1>2, <1>4, <1>5, <1>6

\* What sortedCopy keeps of a set of codes, which is all but their order.
LEMMA SortedCodes ==
  ASSUME NEW codes \in Seq(Nat)
  PROVE  /\ sortedCopy(codes) \in Seq(Nat) /\ (codes # <<>> => sortedCopy(codes) # <<>>)
         /\ sortedCopy(sortedCopy(codes)) = sortedCopy(codes)
         /\ validCodeSet(codes) => validCodeSet(sortedCopy(codes))
<1> PICK R, s : R = Range(codes) /\ s = sortedCopy(codes)
  OBVIOUS
<1>1. /\ R \in SUBSET Nat /\ IsFiniteSet(R)
      /\ Cardinality(R) \in Nat /\ Cardinality(R) <= Len(codes)
      /\ codes # <<>> => Cardinality(R) # 0
  BY CodesFinite
<1>2. s = Ascending(R)
  BY DEF sortedCopy
<1>3. /\ s \in Seq(Nat) /\ Len(s) = Cardinality(R) /\ Range(s) = R
      /\ \A i \in 1..Len(s) : s[i] \in R
      /\ \A i, j \in 1..Len(s) : s[i] = s[j] => i = j
  BY <1>1, <1>2, SortedSet
<1>4. sortedCopy(s) = s
  BY <1>2, <1>3 DEF sortedCopy
<1>5. codes # <<>> => s # <<>>
  BY <1>1, <1>3
<1>6. ASSUME validCodeSet(codes) PROVE validCodeSet(s)
  <2>1. Len(codes) <= MaxCodes /\ \A i \in 1..Len(codes) : validCode(codes[i])
    BY <1>6 DEF validCodeSet
  <2>2. \A x \in R : validCode(x)
    BY <2>1 DEF Range
  <2>3. Len(s) <= MaxCodes
    BY <1>1, <1>3, <2>1, CategoriesAssumption
  <2> QED
    BY <1>3, <2>2, <2>3 DEF validCodeSet
<1> QED
  BY <1>3, <1>4, <1>5, <1>6

-----------------------------------------------------------------------------
(***************************************************************************)
(* What stands in rows, in files and in a copy: events of one form, files  *)
(* that verify, and a copy that is the file until it is altered.           *)
(***************************************************************************)

EventFields ==
  {"id", "state", "method", "issuer", "reasons", "findings", "costs", "error", "at", "previous"}
FindingFields == {"pii", "counts", "health", "secret"}

\* An event, valid or not.
IsEvent(e) ==
  /\ DOMAIN e = EventFields /\ DOMAIN e.findings = FindingFields /\ DOMAIN e.at = {"rest", "zone"}
  /\ e.reasons \in Seq(Nat) /\ e.reasons # <<>>
  /\ e.findings.pii \in Seq(Nat) /\ e.findings.health \in Seq(Nat) /\ e.findings.secret \in Seq(Nat)

HaveEvents(s) == \A i \in 1..Len(s) : IsEvent(s[i].event)

\* Records and a checkpoint that verify.
Sound(records, c) ==
  /\ Len(records) \in Nat \ {0}
  /\ \A i \in 1..Len(records) :
       /\ records[i].sequence = i
       /\ FromCanonicalJSON(records[i].event)
       /\ records[i].event.previous = PreviousOf(records, i)
       /\ records[i].event_hash = <<records[i].event>>
  /\ c.sequence = Len(records) /\ c.head = records[Len(records)].event_hash
  /\ PayloadValid(c) /\ VerifyCheckpoint(c)

\* The export whose file is at the output path.
Holds(x) == tool[x].phase \in {"created", "written", "exported"}

HasRead(x) ==
  tool[x].phase = "read" \/ Holds(x) => IsRecords(tool[x].records) /\ HaveEvents(tool[x].records)

FileSound == file # NoFile => file.there /\ Sound(file.content.records, file.content.checkpoint)

FileOwned ==
  \A x \in Tools : Holds(x) =>
    /\ file # NoFile
    /\ file.content = MarshalExport(tool[x].records, tool[x].checkpoint)
    /\ ~At(x, "created") => file.whole
    /\ \A y \in Tools : Holds(y) => y = x

\* As long as nobody has altered a row, the rows are the events that were appended,
\* and nothing that was read from them is refused.
RowKept(i) ==
  /\ rows[i].sequence = i /\ rows[i].event_hash = HashAt(i)
  /\ Validate(scanRecord(rows[i]).event) /\ Canonical(scanRecord(rows[i]).event) = appended[i]

Unaltered ==
  /\ rowEdits \in Nat
  /\ rowEdits = 0 =>
       /\ ~refused
       /\ Len(rows) = Len(appended) /\ \A i \in 1..Len(rows) : RowKept(i)
       /\ \A x \in Tools : At(x, "read") => Exportable(tool[x].records, tool[x].checkpoint)

Altered(s) == Modified(s) \cup Deleted(s) \cup Inserted(s) \cup Swapped(s)

\* The copy is the file, or differs from it by what was done to it.
CopyFollows ==
  /\ copy = NoCopy => edits.count = 0 /\ ~edits.rehashed
  /\ DOMAIN edits = {"count", "rehashed"} /\ edits.count \in Nat
  /\ copy # NoCopy =>
       /\ file # NoFile /\ copy.whole = file.whole
       /\ \A x \in Tools : tool[x].phase \in {"idle", "exported", "failed"}
       /\ edits.count = 0 => /\ ~edits.rehashed
                             /\ copy.records = file.content.records
                             /\ copy.checkpoint = file.content.checkpoint
       /\ edits.count = 1 /\ ~edits.rehashed =>
            /\ copy.records \in Altered(file.content.records) \ {file.content.records}
            /\ copy.checkpoint = file.content.checkpoint

StandingInv ==
  /\ ExportInv /\ HaveEvents(rows) /\ \A x \in Tools : HasRead(x)
  /\ FileSound /\ FileOwned /\ Unaltered /\ CopyFollows

\* The parts of a canonical event.
LEMMA CanonicalParts ==
  ASSUME NEW e, DOMAIN e = EventFields, DOMAIN e.findings = FindingFields,
         DOMAIN e.at = {"rest", "zone"}
  PROVE  /\ Canonical(e) = [k \in EventFields |-> Canonical(e)[k]]
         /\ Canonical(e).findings = [k \in FindingFields |-> Canonical(e).findings[k]]
         /\ Canonical(e).at = [rest |-> e.at.rest, zone |-> "utc"]
         /\ Canonical(e).reasons = sortedCopy(e.reasons)
         /\ Canonical(e).findings.pii = sortedCopy(e.findings.pii)
         /\ Canonical(e).findings.health = sortedCopy(e.findings.health)
         /\ Canonical(e).findings.secret = sortedCopy(e.findings.secret)
         /\ Canonical(e).findings.counts = e.findings.counts
         /\ \A k \in EventFields \ {"reasons", "findings", "at"} : Canonical(e)[k] = e[k]
<1> PICK reasons, pii, health, secret :
      /\ reasons = sortedCopy(e.reasons) /\ pii = sortedCopy(e.findings.pii)
      /\ health = sortedCopy(e.findings.health) /\ secret = sortedCopy(e.findings.secret)
  OBVIOUS
<1> DEFINE found == [e.findings EXCEPT !.pii = pii, !.health = health, !.secret = secret]
<1> PICK at : at = UTC(e.at)
  OBVIOUS
<1>1. at = [rest |-> e.at.rest, zone |-> "utc"]
  BY DEF UTC
<1>2. /\ found = [k \in FindingFields |-> found[k]]
      /\ found.pii = pii /\ found.health = health /\ found.secret = secret
      /\ found.counts = e.findings.counts
  BY DEF FindingFields
<1> HIDE DEF found
<1> PICK u : u = [e EXCEPT !.reasons = reasons]
  OBVIOUS
<1> PICK v : v = [u EXCEPT !.findings = found]
  OBVIOUS
<1> PICK w : w = [v EXCEPT !.at = at]
  OBVIOUS
<1>3. Canonical(e) = w
  <2>1. /\ u.findings = e.findings /\ DOMAIN u = EventFields /\ u.at = e.at
    BY DEF EventFields
  <2>2. [u EXCEPT !.findings.pii = pii, !.findings.health = health, !.findings.secret = secret] = v
    BY <2>1 DEF EventFields, FindingFields, found
  <2>3. v.at = e.at
    BY <2>1
  <2> QED
    BY <2>1, <2>2, <2>3 DEF Canonical
<1>4. /\ w = [k \in EventFields |-> w[k]] /\ w.reasons = reasons /\ w.findings = found /\ w.at = at
      /\ \A k \in EventFields \ {"reasons", "findings", "at"} : w[k] = e[k]
  BY DEF EventFields
<1> HIDE DEF EventFields, FindingFields
<1>5. /\ w.findings = [k \in FindingFields |-> w.findings[k]] /\ w.findings.pii = pii
      /\ w.findings.health = health /\ w.findings.secret = secret
      /\ w.findings.counts = e.findings.counts
  <2>1. w.findings = found
    BY <1>4
  <2> QED
    BY <1>2, <2>1
<1>6. w.at = [rest |-> e.at.rest, zone |-> "utc"]
  BY <1>1, <1>4, Zenon
<1>7. /\ w.reasons = sortedCopy(e.reasons) /\ w.findings.pii = sortedCopy(e.findings.pii)
      /\ w.findings.health = sortedCopy(e.findings.health)
      /\ w.findings.secret = sortedCopy(e.findings.secret)
  <2>1. w.reasons = reasons
    BY <1>4
  <2>2. w.findings.pii = pii /\ w.findings.health = health /\ w.findings.secret = secret
    BY <1>5
  <2> QED
    BY <2>1, <2>2, Zenon
<1>8. /\ w = [k \in EventFields |-> w[k]]
      /\ \A k \in EventFields \ {"reasons", "findings", "at"} : w[k] = e[k]
  BY <1>4, Zenon
<1>9. w.findings = [k \in FindingFields |-> w.findings[k]] /\ w.findings.counts = e.findings.counts
  BY <1>5, Zenon
<1>10. /\ Canonical(e) = [k \in EventFields |-> Canonical(e)[k]]
       /\ \A k \in EventFields \ {"reasons", "findings", "at"} : Canonical(e)[k] = e[k]
  BY <1>3, <1>8, Zenon
<1>11. /\ Canonical(e).findings = [k \in FindingFields |-> Canonical(e).findings[k]]
       /\ Canonical(e).findings.counts = e.findings.counts
  BY <1>3, <1>9, Zenon
<1>12. /\ Canonical(e).at = [rest |-> e.at.rest, zone |-> "utc"]
       /\ Canonical(e).reasons = sortedCopy(e.reasons)
       /\ Canonical(e).findings.pii = sortedCopy(e.findings.pii)
       /\ Canonical(e).findings.health = sortedCopy(e.findings.health)
       /\ Canonical(e).findings.secret = sortedCopy(e.findings.secret)
  BY <1>3, <1>6, <1>7, Zenon
<1> QED
  BY <1>10, <1>11, <1>12, Zenon

\* Two events with the same parts have the same canonical form.
LEMMA SameCanonical ==
  ASSUME NEW d, DOMAIN d = EventFields, DOMAIN d.findings = FindingFields,
         DOMAIN d.at = {"rest", "zone"},
         NEW e, DOMAIN e = EventFields, DOMAIN e.findings = FindingFields,
         DOMAIN e.at = {"rest", "zone"},
         sortedCopy(d.reasons) = sortedCopy(e.reasons),
         sortedCopy(d.findings.pii) = sortedCopy(e.findings.pii),
         sortedCopy(d.findings.health) = sortedCopy(e.findings.health),
         sortedCopy(d.findings.secret) = sortedCopy(e.findings.secret),
         d.findings.counts = e.findings.counts, d.at.rest = e.at.rest,
         \A k \in EventFields \ {"reasons", "findings", "at"} : d[k] = e[k]
  PROVE  Canonical(d) = Canonical(e)
<1> PICK c, b : c = Canonical(d) /\ b = Canonical(e)
  OBVIOUS
<1>1. /\ c = [k \in EventFields |-> c[k]]
      /\ c.findings = [k \in FindingFields |-> c.findings[k]]
      /\ c.at = [rest |-> d.at.rest, zone |-> "utc"]
      /\ c.reasons = sortedCopy(d.reasons) /\ c.findings.pii = sortedCopy(d.findings.pii)
      /\ c.findings.health = sortedCopy(d.findings.health)
      /\ c.findings.secret = sortedCopy(d.findings.secret)
      /\ c.findings.counts = d.findings.counts
      /\ \A k \in EventFields \ {"reasons", "findings", "at"} : c[k] = d[k]
  BY CanonicalParts
<1>2. /\ b = [k \in EventFields |-> b[k]]
      /\ b.findings = [k \in FindingFields |-> b.findings[k]]
      /\ b.at = [rest |-> e.at.rest, zone |-> "utc"]
      /\ b.reasons = sortedCopy(e.reasons) /\ b.findings.pii = sortedCopy(e.findings.pii)
      /\ b.findings.health = sortedCopy(e.findings.health)
      /\ b.findings.secret = sortedCopy(e.findings.secret)
      /\ b.findings.counts = e.findings.counts
      /\ \A k \in EventFields \ {"reasons", "findings", "at"} : b[k] = e[k]
  BY CanonicalParts
<1>3. c.findings = b.findings
  <2>1. \A k \in FindingFields : c.findings[k] = b.findings[k]
    BY <1>1, <1>2 DEF FindingFields
  <2> QED
    BY <1>1, <1>2, <2>1
<1>4. c.at = b.at /\ c.reasons = b.reasons
  BY <1>1, <1>2
<1>5. \A k \in EventFields : c[k] = b[k]
  BY <1>1, <1>2, <1>3, <1>4
<1> QED
  BY <1>1, <1>2, <1>5

\* The canonical form of a valid event is one that a reader of the export accepts.
LEMMA CanonicalEvent ==
  ASSUME NEW e, IsEvent(e)
  PROVE  /\ IsEvent(Canonical(e))
         /\ Canonical(Canonical(e)) = Canonical(e)
         /\ Validate(e) => FromCanonicalJSON(Canonical(e))
         /\ Canonical(e).previous = e.previous
<1> DEFINE c == Canonical(e)
<1>1. /\ c = [k \in EventFields |-> c[k]]
      /\ c.findings = [k \in FindingFields |-> c.findings[k]]
      /\ c.at = [rest |-> e.at.rest, zone |-> "utc"]
      /\ c.reasons = sortedCopy(e.reasons) /\ c.findings.pii = sortedCopy(e.findings.pii)
      /\ c.findings.health = sortedCopy(e.findings.health)
      /\ c.findings.secret = sortedCopy(e.findings.secret)
      /\ c.findings.counts = e.findings.counts
      /\ \A k \in EventFields \ {"reasons", "findings", "at"} : c[k] = e[k]
  <2>1. /\ DOMAIN e = EventFields /\ DOMAIN e.findings = FindingFields
        /\ DOMAIN e.at = {"rest", "zone"}
    BY DEF IsEvent
  <2> QED
    BY <2>1, CanonicalParts
<1> HIDE DEF c
<1>2. \A codes \in {e.reasons, e.findings.pii, e.findings.health, e.findings.secret} :
        /\ sortedCopy(codes) \in Seq(Nat) /\ (codes # <<>> => sortedCopy(codes) # <<>>)
        /\ sortedCopy(sortedCopy(codes)) = sortedCopy(codes)
        /\ validCodeSet(codes) => validCodeSet(sortedCopy(codes))
  BY SortedCodes DEF IsEvent
<1>3. /\ DOMAIN c = EventFields /\ DOMAIN c.findings = FindingFields
      /\ DOMAIN c.at = {"rest", "zone"} /\ c.at.rest = e.at.rest /\ c.at.zone = "utc"
  BY <1>1
<1>4. IsEvent(c)
  BY <1>1, <1>2, <1>3 DEF IsEvent
<1>5. Canonical(c) = c
  <2>1. Canonical(c) = c
    <3>1. /\ sortedCopy(c.reasons) = sortedCopy(e.reasons)
          /\ sortedCopy(c.findings.pii) = sortedCopy(e.findings.pii)
          /\ sortedCopy(c.findings.health) = sortedCopy(e.findings.health)
          /\ sortedCopy(c.findings.secret) = sortedCopy(e.findings.secret)
      BY <1>1, <1>2
    <3>2. /\ DOMAIN e = EventFields /\ DOMAIN e.findings = FindingFields
          /\ DOMAIN e.at = {"rest", "zone"}
      BY DEF IsEvent
    <3>3. Canonical(c) = Canonical(e)
      BY <1>1, <1>3, <3>1, <3>2, SameCanonical, Zenon
    <3> QED
      BY <3>3 DEF c
  <2> QED
    BY <2>1
<1>6. c.state = e.state /\ c.method = e.method /\ c.issuer = e.issuer /\ c.costs = e.costs
      /\ c.error = e.error /\ c.previous = e.previous
  BY <1>1 DEF EventFields
<1>7. ASSUME Validate(e) PROVE Validate(c)
  <2>1. /\ e.at.rest = 0 /\ validEventState(e.state) /\ validAuthEvidence(e.method, e.issuer)
        /\ validOptionalNonNegative(e.costs.reserved) /\ validOptionalNonNegative(e.costs.actual)
        /\ validOptionalCode(e.error)
        /\ validCodeSet(e.reasons) /\ validCodeSet(e.findings.pii)
        /\ validCodeSet(e.findings.health) /\ validCodeSet(e.findings.secret)
        /\ validCountMap(e.findings.counts)
    BY <1>7 DEF Validate
  <2>2. /\ validCodeSet(c.reasons) /\ validCodeSet(c.findings.pii)
        /\ validCodeSet(c.findings.health) /\ validCodeSet(c.findings.secret)
    BY <1>1, <1>2, <2>1
  <2> QED
    BY <1>1, <1>3, <1>6, <2>1, <2>2 DEF Validate
<1> QED
  BY <1>3, <1>4, <1>5, <1>6, <1>7 DEF FromCanonicalJSON, c

-----------------------------------------------------------------------------
(***************************************************************************)
(* Exports that verify.                                                    *)
(***************************************************************************)

\* A record of an export that verifies can be read and is linked.
LEMMA SoundRecord ==
  ASSUME NEW records, NEW i, records[i].sequence = i, FromCanonicalJSON(records[i].event),
         records[i].event.previous = PreviousOf(records, i),
         records[i].event_hash = <<records[i].event>>
  PROVE  RecordReadable(records, i) /\ LinkVerifies(records, i)
<1>1. Validate(records[i].event) /\ EventHash(records[i].event) = records[i].event_hash
  BY DEF FromCanonicalJSON, EventHash
<1> QED
  BY <1>1 DEF RecordReadable, LinkVerifies, HashFails

LEMMA SoundVerifies ==
  ASSUME NEW x, x.whole, Sound(x.records, x.checkpoint)
  PROVE  VerifyExport(x) = Verdict("valid", 0)
<1> PICK records, c : records = x.records /\ c = x.checkpoint
  OBVIOUS
<1> PICK n : n = Len(records)
  OBVIOUS
<1>1. /\ n \in Nat \ {0}
      /\ \A i \in 1..n : RecordReadable(records, i) /\ LinkVerifies(records, i)
      /\ records[n].sequence = n
      /\ c.sequence = n /\ c.head = records[n].event_hash
      /\ PayloadValid(c) /\ VerifyCheckpoint(c)
  <2>1. n \in 1..n /\ n \in Nat \ {0}
    BY DEF Sound
  <2> QED
    BY <2>1, SoundRecord DEF Sound
<1>2. FirstUnreadable(records) = 0
  <2>1. {i \in 1..Len(records) : ~RecordReadable(records, i)} = {}
    BY <1>1
  <2> QED
    BY <2>1 DEF FirstUnreadable, FirstFailure
<1>3. VerifyChain(records) = 0
  <2>1. {i \in 1..Len(records) : ~LinkVerifies(records, i)} = {}
    BY <1>1
  <2> QED
    BY <2>1 DEF VerifyChain, FirstFailure
<1>4. CheckpointMisses(x) = 0
  <2>1. Last(x.records) = records[n]
    BY DEF Last
  <2> QED
    BY <1>1, <2>1 DEF CheckpointMisses
<1>5. records # <<>>
  BY <1>1
<1> QED
  BY <1>1, <1>2, <1>3, <1>4, <1>5, Zenon DEF VerifyExport

\* A checkpoint that was signed verifies, however long after.
LEMMA LoadedVerifies ==
  ASSUME Anchored, Len(appended) \in Nat, NEW c, IsLoaded(c)
  PROVE  PayloadValid(c) /\ VerifyCheckpoint(c)
<1>1. PICK d \in checkpoints : c = LoadedCheckpoint(d)
  BY DEF IsLoaded
<1>2. PICK n \in 1..Len(appended) : d = CheckpointAt(n, "db")
  BY DEF Anchored
<1>3. c = CheckpointAt(n, "utc")
  BY <1>1, <1>2, LoadedForm
<1> PICK at : at = [rest |-> 0, zone |-> "utc"]
  OBVIOUS
<1> PICK h : h = HashAt(n)
  OBVIOUS
<1>4. /\ c.sequence = n /\ c.head = h /\ c.key = SigningKey /\ c.at = at
      /\ c.signature = [key |-> SigningKey,
                        payload |-> [sequence |-> n, head |-> h, key |-> SigningKey, at |-> at]]
  BY <1>3 DEF CheckpointAt
<1>5. c.signature = Sign(SigningKey, c)
  BY <1>4 DEF Sign, Payload
<1>6. PayloadValid(c)
  <2>1. n > 0 /\ n # 0
    OBVIOUS
  <2>2. h # <<>>
    BY <2>1 DEF HashAt
  <2> QED
    BY <1>4, <2>1, <2>2 DEF PayloadValid, NonZero, ZeroDigest
<1> QED
  BY <1>4, <1>5, <1>6 DEF VerifyCheckpoint

\* Records that pass VerifyChain.
LEMMA ChainVerified ==
  ASSUME NEW records, Len(records) \in Nat, VerifyChain(records) = 0
  PROVE  \A i \in 1..Len(records) : LinkVerifies(records, i)
<1>1. FirstFailure(records, {i \in 1..Len(records) : ~LinkVerifies(records, i)}) = 0
  BY DEF VerifyChain
<1>2. {i \in 1..Len(records) : ~LinkVerifies(records, i)} \in SUBSET (Nat \ {0})
  OBVIOUS
<1>3. {i \in 1..Len(records) : ~LinkVerifies(records, i)} = {}
  BY <1>1, <1>2, FailureFree
<1> QED
  BY <1>3

\* What MarshalExport has accepted verifies.
LEMMA ExportSound ==
  ASSUME NEW records, IsRecords(records), HaveEvents(records), NEW c, Exportable(records, c),
         Anchored, Len(appended) \in Nat, IsLoaded(c)
  PROVE  /\ MarshalExport(records, c).checkpoint = c
         /\ Sound(MarshalExport(records, c).records, c)
<1> PICK n : n = Len(records)
  OBVIOUS
<1> DEFINE m == [i \in 1..n |-> ExportRecord(records[i])]
<1>1. MarshalExport(records, c).checkpoint = c /\ MarshalExport(records, c).records = m
  BY DEF MarshalExport
<1>2. n \in Nat \ {0}
  <2>1. n \in Nat /\ records # <<>>
    BY RecordsAre DEF Exportable
  <2>2. \E R : records \in Seq(R)
    BY RecordsAre
  <2> QED
    BY <2>1, <2>2
<1>3. Len(m) = n
  BY <1>2
<1>4. \A i \in 1..n : /\ m[i].sequence = records[i].sequence
                      /\ m[i].event = Canonical(records[i].event)
                      /\ m[i].event_hash = records[i].event_hash
  BY DEF ExportRecord
<1> HIDE DEF m
<1>5. ASSUME NEW i \in 1..n
      PROVE  /\ m[i].sequence = i
             /\ FromCanonicalJSON(m[i].event)
             /\ m[i].event.previous = PreviousOf(m, i)
             /\ m[i].event_hash = <<m[i].event>>
  <2> PICK e, h : e = records[i].event /\ h = records[i].event_hash
    OBVIOUS
  <2>1. records[i].sequence = i /\ e.previous = PreviousOf(records, i) /\ ~HashFails(e, h)
    BY <1>2, ChainVerified DEF Exportable, LinkVerifies
  <2>2. Validate(e) /\ <<Canonical(e)>> = h
    BY <2>1 DEF HashFails, EventHash
  <2>3. IsEvent(e)
    BY DEF HaveEvents
  <2>4. FromCanonicalJSON(Canonical(e)) /\ Canonical(e).previous = e.previous
    BY <2>2, <2>3, CanonicalEvent
  <2>5. PreviousOf(m, i) = PreviousOf(records, i)
    <3>1. i # 1 => i - 1 \in 1..n
      BY <1>2
    <3> QED
      BY <1>4, <3>1 DEF PreviousOf
  <2> QED
    BY <1>4, <2>1, <2>2, <2>4, <2>5
<1>6. c.sequence = n /\ c.head = m[n].event_hash
  <2>1. Last(records) = records[n] /\ n \in 1..n
    BY <1>2 DEF Last
  <2> QED
    BY <1>4, <1>5, <2>1 DEF Exportable
<1>7. PayloadValid(c) /\ VerifyCheckpoint(c)
  BY LoadedVerifies
<1>8. Sound(m, c)
  BY <1>2, <1>3, <1>5, <1>6, <1>7 DEF Sound
<1> QED
  BY <1>1, <1>8

-----------------------------------------------------------------------------
(***************************************************************************)
(* The events that the handler builds.                                     *)
(***************************************************************************)

\* A sum of natural numbers is one.
LEMMA NaturalSum ==
  ASSUME NEW f, NEW S, IsFiniteSet(S), \A i \in S : f[i] \in Nat
  PROVE  SumFunctionOnSet(f, S) \in Nat
<1> DEFINE first(s) == CHOOSE x \in s : TRUE
           sum(g, s) == IF s = {} THEN 0 ELSE f[first(s)] + g[s \ {first(s)}]
           Small(n) == {s \in SUBSET S : Cardinality(s) <= n}
           iter == CHOOSE g : g = [s \in SUBSET S |-> sum(g, s)]
<1>1. SumFunctionOnSet(f, S) = iter[S]
  BY DEF SumFunctionOnSet, FoldFunctionOnSet, MapThenFoldSet
<1>2. \A s \in SUBSET S : s # {} => first(s) \in s
  OBVIOUS
<1> HIDE DEF first
<1>3. Cardinality(S) \in Nat
        /\ \A s \in SUBSET S : IsFiniteSet(s) /\ Cardinality(s) \in Nat /\ Cardinality(s) <= Cardinality(S)
  BY FS_Subset, FS_CardinalityType
<1>4. ASSUME NEW s \in SUBSET S, s # {}
      PROVE  /\ s \ {first(s)} \in SUBSET S /\ Cardinality(s) # 0
             /\ Cardinality(s \ {first(s)}) = Cardinality(s) - 1
  <2>1. IsFiniteSet(s) /\ first(s) \in s
    BY <1>2, <1>3, <1>4
  <2>2. Cardinality(s \ {first(s)}) = Cardinality(s) - 1
    BY <2>1, FS_RemoveElement
  <2>3. Cardinality(s) # 0
    BY <1>4, <2>1, FS_EmptySet
  <2> QED
    BY <2>2, <2>3
<1>5. \A n \in Nat : \E g : g = [s \in Small(n) |-> sum(g, s)]
  <2> DEFINE T == {n \in Nat : ~\E g : g = [s \in Small(n) |-> sum(g, s)]}
  <2> SUFFICES ASSUME T # {} PROVE FALSE
    OBVIOUS
  <2>1. PICK n \in T : \A k \in T : n <= k
    BY LeastElement
  <2>2. n \in Nat /\ ~\E g : g = [s \in Small(n) |-> sum(g, s)]
    BY <2>1
  <2>3. CASE n = 0
    <3> DEFINE g == [s \in Small(n) |-> 0]
    <3>1. \A s \in Small(n) : s = {}
      <4> SUFFICES ASSUME NEW s \in Small(n), s # {} PROVE FALSE
        OBVIOUS
      <4>1. s \in SUBSET S /\ Cardinality(s) <= 0
        BY <2>3
      <4>2. Cardinality(s) \in Nat /\ Cardinality(s) # 0
        BY <1>3, <1>4, <4>1
      <4> QED
        BY <4>1, <4>2
    <3>2. g = [s \in Small(n) |-> sum(g, s)]
      BY <3>1
    <3> QED
      BY <2>2, <3>2
  <2>4. CASE n # 0
    <3>1. n - 1 \in Nat /\ ~(n <= n - 1)
      BY <2>2, <2>4
    <3>2. PICK h : h = [s \in Small(n - 1) |-> sum(h, s)]
      BY <2>1, <3>1
    <3> PICK g : g = [s \in Small(n) |-> sum(h, s)]
      OBVIOUS
    <3>3. ASSUME NEW s \in Small(n) PROVE sum(h, s) = sum(g, s)
      <4>1. CASE s = {}
        BY <4>1
      <4>2. CASE s # {}
        <5> PICK t : t = s \ {first(s)}
          OBVIOUS
        <5>1. t \in SUBSET S /\ Cardinality(t) = Cardinality(s) - 1 /\ Cardinality(s) <= n
          BY <1>4, <4>2
        <5>2. t \in Small(n - 1) /\ t \in Small(n)
          BY <1>3, <2>2, <5>1
        <5> HIDE DEF Small
        <5>3. g[t] = sum(h, t) /\ h[t] = sum(h, t)
          <6> HIDE DEF sum
          <6> QED
            BY <3>2, <5>2
        <5> QED
          BY <4>2, <5>3
      <4> QED
        BY <4>1, <4>2
    <3>4. g = [s \in Small(n) |-> sum(g, s)]
      <4> HIDE DEF sum, Small
      <4> QED
        BY <3>3
    <3>5. \E fn : fn = [s \in Small(n) |-> sum(fn, s)]
      <4> HIDE DEF sum, Small
      <4> WITNESS g
      <4> QED
        BY <3>4
    <3> QED
      BY <2>2, <3>5, Zenon
  <2> QED
    BY <2>3, <2>4
<1>6. iter = [s \in SUBSET S |-> sum(iter, s)]
  <2>1. Small(Cardinality(S)) = SUBSET S
    BY <1>3
  <2>2. \E g : g = [s \in SUBSET S |-> sum(g, s)]
    <3> HIDE DEF sum, Small
    <3> QED
      BY <1>3, <1>5, <2>1
  <2> HIDE DEF sum
  <2> QED
    BY <2>2
<1> HIDE DEF iter
<1>7. \A s \in SUBSET S : iter[s] \in Nat
  <2> DEFINE T == {n \in Nat : \E s \in SUBSET S : Cardinality(s) = n /\ iter[s] \notin Nat}
  <2> SUFFICES ASSUME T # {} PROVE FALSE
    <3> SUFFICES ASSUME NEW s \in SUBSET S, iter[s] \notin Nat PROVE T # {}
      OBVIOUS
    <3>1. Cardinality(s) \in T
      BY <1>3
    <3> QED
      BY <3>1
  <2>1. PICK n \in T : \A k \in T : n <= k
    BY LeastElement
  <2>2. n \in Nat
    OBVIOUS
  <2>3. PICK s \in SUBSET S : Cardinality(s) = n /\ iter[s] \notin Nat
    BY <2>1
  <2>4. iter[s] = sum(iter, s)
    BY <1>6
  <2>5. s # {}
    BY <2>3, <2>4
  <2> PICK t : t = s \ {first(s)}
    OBVIOUS
  <2>6. t \in SUBSET S /\ Cardinality(t) = n - 1 /\ n - 1 \in Nat
    BY <1>3, <1>4, <2>2, <2>3, <2>5
  <2>7. iter[t] \in Nat
    <3>1. n - 1 \notin T
      BY <2>1, <2>2, <2>6
    <3> QED
      BY <2>6, <3>1
  <2>8. iter[s] = f[first(s)] + iter[t] /\ f[first(s)] \in Nat
    BY <1>2, <2>4, <2>5
  <2> QED
    BY <2>3, <2>7, <2>8
<1> QED
  BY <1>1, <1>7

\* Categories that were found, sorted.
LEMMA FoundCodes ==
  ASSUME NEW kind \in {PII, Health, Secret}, NEW hit
  PROVE  /\ sortedKeys(hit \cap kind) \in Seq(Nat) /\ validCodeSet(sortedKeys(hit \cap kind))
         /\ IsFiniteSet(hit \cap kind) /\ Cardinality(hit \cap kind) <= MaxCodes
<1> PICK S : S = hit \cap kind
  OBVIOUS
<1>1. kind \in SUBSET (Nat \ {0}) /\ IsFiniteSet(kind) /\ Cardinality(kind) <= MaxCodes
  BY CategoriesAssumption
<1>2. IsFiniteSet(S) /\ Cardinality(S) <= Cardinality(kind)
  BY <1>1, FS_Subset
<1>3. Cardinality(S) \in Nat /\ Cardinality(kind) \in Nat /\ MaxCodes \in Nat
  BY <1>1, <1>2, FS_CardinalityType, CategoriesAssumption
<1>4. S \in SUBSET Nat /\ \A c \in S : c > 0
  <2>1. \A c \in S : c \in Nat \ {0}
    BY <1>1, Zenon
  <2>2. \A c \in Nat \ {0} : c \in Nat /\ c > 0
    OBVIOUS
  <2> QED
    BY <2>1, <2>2
<1>5. Cardinality(S) <= MaxCodes
  BY <1>1, <1>2, <1>3
<1> PICK s : s = sortedKeys(S)
  OBVIOUS
<1>6. /\ s \in Seq(Nat) /\ Len(s) = Cardinality(S)
      /\ \A i \in 1..Len(s) : s[i] \in S
      /\ \A i, j \in 1..Len(s) : s[i] = s[j] => i = j
  BY <1>2, <1>4, SortedSet DEF sortedKeys
<1>7. validCodeSet(s)
  <2>1. Len(s) <= MaxCodes /\ \A i \in 1..Len(s) : s[i] > 0
    BY <1>4, <1>5, <1>6
  <2> QED
    BY <1>6, <2>1, Zenon DEF validCodeSet, validCode
<1> QED
  BY <1>2, <1>5, <1>6, <1>7

\* What the detectors found.
LEMMA Found ==
  ASSUME NEW hits \in Seq(Nat)
  PROVE  /\ DOMAIN result(hits) = FindingFields
         /\ result(hits).pii \in Seq(Nat) /\ validCodeSet(result(hits).pii)
         /\ result(hits).health \in Seq(Nat) /\ validCodeSet(result(hits).health)
         /\ result(hits).secret \in Seq(Nat) /\ validCodeSet(result(hits).secret)
         /\ validCountMap(result(hits).counts)
<1> PICK hit : hit = {CategoryOf[r] : r \in {r \in DOMAIN hits : hits[r] > 0}}
  OBVIOUS
<1> DEFINE rules(c) == {r \in DOMAIN hits : CategoryOf[r] = c}
           counts == [c \in hit \cap PII |-> SumFunctionOnSet(hits, rules(c))]
<1>1. result(hits) = [pii |-> sortedKeys(hit \cap PII), counts |-> counts,
                      health |-> sortedKeys(hit \cap Health), secret |-> sortedKeys(hit \cap Secret)]
  BY DEF result
<1>2. \A c : SumFunctionOnSet(hits, rules(c)) \in Nat
  <2> SUFFICES ASSUME NEW c PROVE SumFunctionOnSet(hits, rules(c)) \in Nat
    OBVIOUS
  <2>1. DOMAIN hits = 1..Len(hits) /\ Len(hits) \in Nat /\ \A r \in DOMAIN hits : hits[r] \in Nat
    OBVIOUS
  <2>2. IsFiniteSet(DOMAIN hits)
    BY <2>1, UpTo
  <2>3. rules(c) \in SUBSET DOMAIN hits
    OBVIOUS
  <2>4. IsFiniteSet(rules(c)) /\ \A r \in rules(c) : hits[r] \in Nat
    BY <2>1, <2>2, <2>3, FS_Subset
  <2> HIDE DEF rules
  <2> QED
    BY <2>4, NaturalSum
<1>3. validCountMap(counts)
  <2>1. DOMAIN counts = hit \cap PII /\ Cardinality(hit \cap PII) <= MaxCodes
    BY FoundCodes
  <2>2. \A c \in hit \cap PII : c > 0
    BY CategoriesAssumption
  <2>3. \A c \in hit \cap PII : counts[c] \in Nat
    BY <1>2
  <2> HIDE DEF counts
  <2>4. \A c \in hit \cap PII : counts[c] >= 0
    BY <2>3
  <2> QED
    BY <2>1, <2>2, <2>4 DEF validCountMap, validCode
<1> HIDE DEF counts
<1>4. /\ DOMAIN result(hits) = FindingFields
      /\ result(hits).pii = sortedKeys(hit \cap PII) /\ result(hits).counts = counts
      /\ result(hits).health = sortedKeys(hit \cap Health)
      /\ result(hits).secret = sortedKeys(hit \cap Secret)
  BY <1>1 DEF FindingFields
<1> QED
  BY <1>3, <1>4, FoundCodes

\* What buildEvent makes is an event, and valid where its arguments are.
LEMMA BuiltEvent ==
  ASSUME NEW id, NEW principal,
         \/ principal.method = "oidc" /\ NonZero(principal.issuer)
         \/ principal.method = "api_key",
         NEW state, validEventState(state), NEW reason \in Nat \ {0}, NEW hits \in Seq(Nat),
         NEW costs, validOptionalNonNegative(costs.reserved), validOptionalNonNegative(costs.actual),
         NEW error, validOptionalCode(error), NEW clock \in [rest : Nat, zone : STRING],
         NEW e, e = buildEvent(id, principal, state, <<reason>>, hits, costs, error, clock)
  PROVE  /\ Buildable(principal) /\ IsEvent(e) /\ Validate(e)
         /\ e.at = [rest |-> 0, zone |-> "utc"]
<1> PICK found, issuer, at, reasons :
      /\ found = result(hits) /\ issuer = IssuerEvidence(principal) /\ at = OccurredAt(clock)
      /\ reasons = <<reason>>
  OBVIOUS
<1>1. at = [rest |-> 0, zone |-> "utc"]
  BY DEF OccurredAt, Truncate, UTC
<1>2. /\ DOMAIN e = EventFields /\ e.state = state /\ e.method = principal.method
      /\ e.issuer = issuer /\ e.reasons = reasons /\ e.findings = found /\ e.costs = costs
      /\ e.error = error /\ e.at = at
  BY DEF buildEvent, EventFields
<1>3. /\ DOMAIN found = FindingFields
      /\ found.pii \in Seq(Nat) /\ validCodeSet(found.pii)
      /\ found.health \in Seq(Nat) /\ validCodeSet(found.health)
      /\ found.secret \in Seq(Nat) /\ validCodeSet(found.secret)
      /\ validCountMap(found.counts)
  BY Found
<1>4. reasons \in Seq(Nat) /\ reasons # <<>> /\ validCodeSet(reasons)
  <2>1. reasons \in Seq(Nat) /\ reasons # <<>> /\ Len(reasons) = 1 /\ reasons[1] = reason
    OBVIOUS
  <2>2. 1..1 = {1} /\ reason > 0 /\ 1 <= MaxCodes
    BY CategoriesAssumption
  <2> QED
    BY <2>1, <2>2 DEF validCodeSet, validCode
<1>5. at.rest = 0 /\ DOMAIN at = {"rest", "zone"}
  BY <1>1
<1>6. IsEvent(e)
  BY <1>2, <1>3, <1>4, <1>5 DEF IsEvent
<1>7. validAuthEvidence(principal.method, issuer) /\ Buildable(principal)
  BY DEF validAuthEvidence, IssuerEvidence, Buildable
<1>8. Validate(e)
  BY <1>2, <1>3, <1>4, <1>5, <1>7, Zenon DEF Validate
<1> QED
  BY <1>1, <1>2, <1>6, <1>7, <1>8

\* Every event the handler makes can be appended.
LEMMA HandlersEvent ==
  ASSUME NEW k \in 1..Len(Inputs), NEW input \in Inputs[k], NEW id, NEW e, e = EventOf(input, id)
  PROVE  /\ Buildable(input.principal) /\ IsEvent(e) /\ Validate(e)
         /\ e.at = [rest |-> 0, zone |-> "utc"]
<1>1. /\ input.type \in {"denied", "started", "completed", "failed"}
      /\ \/ input.principal.method = "oidc" /\ NonZero(input.principal.issuer)
         \/ input.principal.method = "api_key"
      /\ input.reason \in Nat \ {0} /\ input.code \in Nat \ {0}
      /\ input.reserve \in Nat /\ input.charge \in Nat
      /\ input.hits \in Seq(Nat)
      /\ input.clock \in [rest : Nat, zone : STRING]
  BY InputsAssumption
<1> DEFINE Costs(c) == validOptionalNonNegative(c.reserved) /\ validOptionalNonNegative(c.actual)
<1>2. \A state, costs, error :
        /\ validEventState(state) /\ Costs(costs) /\ validOptionalCode(error)
        /\ e = buildEvent(id, input.principal, state, <<input.reason>>, input.hits, costs, error,
                          input.clock)
        => /\ Buildable(input.principal) /\ IsEvent(e) /\ Validate(e)
           /\ e.at = [rest |-> 0, zone |-> "utc"]
  BY <1>1, BuiltEvent
<1>3. \A n \in Nat : /\ validOptionalNonNegative(<<n>>) /\ validOptionalNonNegative(<<>>)
                     /\ validOptionalCode(<<>>) /\ (n # 0 => validOptionalCode(<<n>>))
  BY DEF validOptionalNonNegative, validOptionalCode, validCode
<1>4. /\ Costs([reserved |-> <<>>, actual |-> <<>>])
      /\ Costs([reserved |-> <<input.reserve>>, actual |-> <<>>])
      /\ Costs([reserved |-> <<input.reserve>>, actual |-> <<input.charge>>])
      /\ validOptionalCode(<<>>) /\ validOptionalCode(<<input.code>>)
  BY <1>1, <1>3
<1>5. /\ validEventState(<<"run_denied", "deny", "denied">>)
      /\ validEventState(<<"run_started", "allow", "started">>)
      /\ validEventState(<<"run_completed", "allow", "completed">>)
      /\ validEventState(<<"run_failed", "allow", "failed">>)
  BY DEF validEventState
<1> HIDE DEF Costs
<1>6. CASE input.type = "denied"
  <2>1. e = DeniedEvent(id, input.principal, input.reason, input.hits, input.clock)
    BY <1>6 DEF EventOf
  <2> QED
    BY <1>2, <1>4, <1>5, <2>1 DEF DeniedEvent
<1>7. CASE input.type = "started"
  <2>1. e = StartedEvent(id, input.principal, input.reason, input.hits, input.reserve, input.clock)
    BY <1>7 DEF EventOf
  <2> QED
    BY <1>2, <1>4, <1>5, <2>1 DEF StartedEvent
<1>8. CASE input.type = "completed"
  <2>1. e = CompletedEvent(id, input.principal, input.reason, input.hits, input.reserve,
                           input.charge, input.clock)
    BY <1>8 DEF EventOf
  <2> QED
    BY <1>2, <1>4, <1>5, <2>1 DEF CompletedEvent
<1>9. CASE input.type = "failed"
  <2>1. e = FailedEvent(id, input.principal, input.reason, input.hits, input.reserve,
                        input.charge, input.code, input.clock)
    BY <1>9 DEF EventOf
  <2> QED
    BY <1>2, <1>4, <1>5, <2>1 DEF FailedEvent
<1> QED
  BY <1>1, <1>6, <1>7, <1>8, <1>9

-----------------------------------------------------------------------------
(***************************************************************************)
(* The events of altered rows.                                             *)
(***************************************************************************)

\* What is done to an event but for its reasons and its findings.
LEMMA StillEvent ==
  ASSUME NEW e, IsEvent(e), NEW d, DOMAIN d = EventFields, d.reasons = e.reasons,
         d.findings = e.findings, DOMAIN d.at = {"rest", "zone"}
  PROVE  IsEvent(d)
BY DEF IsEvent

LEMMA VariantEvents ==
  ASSUME NEW e, IsEvent(e), NEW d \in Variants(e)
  PROVE  IsEvent(d)
<1>1. CASE d = [e EXCEPT !.state = <<"run_denied", "deny", "denied">>]
  <2>1. DOMAIN d = EventFields /\ d.reasons = e.reasons /\ d.findings = e.findings /\ d.at = e.at
    BY <1>1 DEF IsEvent, EventFields
  <2> QED
    BY <2>1, StillEvent DEF IsEvent
<1>2. CASE d = [e EXCEPT !.reasons = <<@[1] + 1>>]
  <2> PICK reasons : reasons = <<e.reasons[1] + 1>>
    OBVIOUS
  <2>1. reasons \in Seq(Nat) /\ reasons # <<>>
    <3>1. e.reasons \in Seq(Nat) /\ e.reasons # <<>>
      BY DEF IsEvent
    <3>2. e.reasons[1] \in Nat
      BY <3>1
    <3>3. e.reasons[1] + 1 \in Nat
      BY <3>2
    <3> QED
      BY <3>3
  <2>2. d = [e EXCEPT !.reasons = reasons]
    BY <1>2
  <2>3. /\ DOMAIN d = EventFields /\ d.reasons = reasons /\ d.findings = e.findings
        /\ d.at = e.at
    BY <2>2 DEF IsEvent, EventFields
  <2> QED
    BY <2>1, <2>3 DEF IsEvent
<1>3. CASE d = [e EXCEPT !.findings.pii = Reverse(@)]
  <2> PICK pii : pii = Reverse(e.findings.pii)
    OBVIOUS
  <2>1. pii \in Seq(Nat)
    <3> PICK codes : codes = e.findings.pii
      OBVIOUS
    <3>1. codes \in Seq(Nat)
      BY DEF IsEvent
    <3> PICK n \in Nat : n = Len(codes)
      BY <3>1
    <3>2. \A i \in 1..n : (n - i) + 1 \in 1..n
      OBVIOUS
    <3>3. \A i \in 1..n : codes[i] \in Nat
      BY <3>1
    <3>4. pii = [i \in 1..n |-> codes[(n - i) + 1]]
      BY DEF Reverse
    <3>5. pii \in [1..n -> Nat]
      BY <3>2, <3>3, <3>4
    <3> QED
      BY <3>5
  <2> PICK found : found = [e.findings EXCEPT !.pii = pii]
    OBVIOUS
  <2>2. d = [e EXCEPT !.findings = found]
    BY <1>3
  <2>3. DOMAIN d = EventFields /\ d.reasons = e.reasons /\ d.findings = found /\ d.at = e.at
    BY <2>2 DEF IsEvent, EventFields
  <2>4. /\ DOMAIN found = FindingFields /\ found.pii = pii
        /\ found.health = e.findings.health /\ found.secret = e.findings.secret
    BY DEF IsEvent, FindingFields
  <2> QED
    BY <2>1, <2>3, <2>4 DEF IsEvent
<1>4. CASE d = [e EXCEPT !.at.zone = "local"]
  <2> PICK at : at = [e.at EXCEPT !.zone = "local"]
    OBVIOUS
  <2>1. d = [e EXCEPT !.at = at]
    BY <1>4
  <2>2. DOMAIN d = EventFields /\ d.reasons = e.reasons /\ d.findings = e.findings /\ d.at = at
    BY <2>1 DEF IsEvent, EventFields
  <2>3. DOMAIN at = {"rest", "zone"}
    BY DEF IsEvent
  <2> QED
    BY <2>2, <2>3, StillEvent
<1> QED
  BY <1>1, <1>2, <1>3, <1>4 DEF Variants

\* One record taken out, or put in.
LEMMA Part ==
  ASSUME NEW R, NEW s \in Seq(R), NEW i \in 1..(Len(s) + 1), NEW j \in (i - 1)..Len(s)
  PROVE  /\ SubSeq(s, i, j) \in Seq(R) /\ Len(SubSeq(s, i, j)) = j - i + 1
         /\ \A k \in 1..(j - i + 1) : SubSeq(s, i, j)[k] = s[i + k - 1]
OBVIOUS

LEMMA Joined ==
  ASSUME NEW R, NEW a \in Seq(R), NEW b \in Seq(R)
  PROVE  /\ a \o b \in Seq(R) /\ Len(a \o b) = Len(a) + Len(b)
         /\ \A k \in 1..Len(a) : (a \o b)[k] = a[k]
         /\ \A k \in 1..Len(b) : (a \o b)[Len(a) + k] = b[k]
OBVIOUS

LEMMA Removed ==
  ASSUME NEW s, IsRecords(s), NEW i \in 1..Len(s)
  PROVE  /\ Len(RemoveAt(s, i)) = Len(s) - 1
         /\ \A k \in 1..(Len(s) - 1) : RemoveAt(s, i)[k] = IF k < i THEN s[k] ELSE s[k + 1]
<1>1. PICK R : s \in Seq(R)
  BY RecordsAre
<1>n. PICK n \in Nat : n = Len(s)
  BY <1>1
<1>0. i \in 1..n /\ i - 1 \in Nat /\ n - i \in Nat
  BY <1>n
<1>p. PICK p \in Nat, q \in Nat : p = i - 1 /\ q = n - i
  BY <1>0
<1>a. PICK a, b : a = SubSeq(s, 1, i - 1) /\ b = SubSeq(s, i + 1, n)
  OBVIOUS
<1>2. i \in 1..n /\ i = p + 1 /\ n = p + q + 1
  BY <1>0, <1>p
<1>3. a \in Seq(R) /\ Len(a) = p /\ \A k \in 1..p : a[k] = s[k]
  <2>1. 1 \in 1..(Len(s) + 1) /\ i - 1 \in (1 - 1)..Len(s)
    BY <1>2, <1>n
  <2>2. /\ a \in Seq(R) /\ Len(a) = (i - 1) - 1 + 1
        /\ \A k \in 1..((i - 1) - 1 + 1) : a[k] = s[1 + k - 1]
    BY <1>1, <1>a, <2>1, Part
  <2> QED
    BY <1>2, <2>2
<1>4. b \in Seq(R) /\ Len(b) = q /\ \A k \in 1..q : b[k] = s[p + k + 1]
  <2>1. i + 1 \in 1..(Len(s) + 1) /\ n \in ((i + 1) - 1)..Len(s)
    BY <1>2, <1>n
  <2>2. /\ b \in Seq(R) /\ Len(b) = n - (i + 1) + 1
        /\ \A k \in 1..(n - (i + 1) + 1) : b[k] = s[(i + 1) + k - 1]
    BY <1>1, <1>a, <2>1, Part
  <2>3. n - (i + 1) + 1 = q /\ \A k \in 1..q : (i + 1) + k - 1 = p + k + 1
    BY <1>2
  <2> QED
    BY <2>2, <2>3
<1>t. PICK t : t = RemoveAt(s, i)
  OBVIOUS
<1>5. t = a \o b
  BY <1>a, <1>n, <1>t DEF RemoveAt
<1>6. /\ Len(t) = p + q /\ \A k \in 1..p : t[k] = a[k]
      /\ \A k \in 1..q : t[p + k] = b[k]
  <2>1. a \in Seq(R) /\ b \in Seq(R) /\ p = Len(a) /\ q = Len(b)
    BY <1>3, <1>4
  <2> QED
    BY <1>5, <2>1, Joined
<1>7. ASSUME NEW k \in 1..(p + q) PROVE t[k] = IF k < i THEN s[k] ELSE s[k + 1]
  <2>1. CASE k <= p
    <3>1. k \in 1..p /\ k < i
      BY <1>2, <2>1
    <3> QED
      BY <1>3, <1>6, <2>1, <3>1
  <2>2. CASE ~(k <= p)
    <3>1. PICK j \in 1..q : j = k - p
      BY <2>2
    <3>2. p + j = k /\ p + j + 1 = k + 1 /\ ~(k < i)
      BY <1>2, <2>2, <3>1
    <3> QED
      BY <1>4, <1>6, <3>2
  <2> QED
    BY <2>1, <2>2
<1>8. Len(s) - 1 = p + q
  BY <1>2, <1>n
<1> QED
  BY <1>6, <1>7, <1>8, <1>t

LEMMA Placed ==
  ASSUME NEW s, IsRecords(s), NEW i \in 1..(Len(s) + 1), NEW r
  PROVE  /\ Len(InsertAt(s, i, r)) = Len(s) + 1
         /\ \A k \in 1..(Len(s) + 1) :
              InsertAt(s, i, r)[k] = IF k < i THEN s[k] ELSE IF k = i THEN r ELSE s[k - 1]
<1>1. PICK R : s \in Seq(R) /\ r \in R
  <2>1. PICK Q : s \in Seq(Q)
    BY RecordsAre
  <2>2. s \in Seq(Q \cup {r})
    BY <2>1
  <2> QED
    BY <2>2
<1>n. PICK n \in Nat : n = Len(s)
  BY <1>1
<1>0. i \in 1..(n + 1) /\ i - 1 \in Nat /\ n + 1 - i \in Nat
  BY <1>n
<1>p. PICK p \in Nat, q \in Nat : p = i - 1 /\ q = n + 1 - i
  BY <1>0
<1>a. PICK a, b, m : a = SubSeq(s, 1, i - 1) /\ b = SubSeq(s, i, n) /\ m = <<r>>
  OBVIOUS
<1>2. i \in 1..(n + 1) /\ i = p + 1 /\ n = p + q
  BY <1>0, <1>p
<1>3. a \in Seq(R) /\ Len(a) = p /\ \A k \in 1..p : a[k] = s[k]
  <2>1. 1 \in 1..(Len(s) + 1) /\ i - 1 \in (1 - 1)..Len(s)
    BY <1>2, <1>n
  <2>2. /\ a \in Seq(R) /\ Len(a) = (i - 1) - 1 + 1
        /\ \A k \in 1..((i - 1) - 1 + 1) : a[k] = s[1 + k - 1]
    BY <1>1, <1>a, <2>1, Part
  <2> QED
    BY <1>2, <2>2
<1>4. b \in Seq(R) /\ Len(b) = q /\ \A k \in 1..q : b[k] = s[p + k]
  <2>1. i \in 1..(Len(s) + 1) /\ n \in (i - 1)..Len(s)
    BY <1>2, <1>n
  <2>2. /\ b \in Seq(R) /\ Len(b) = n - i + 1
        /\ \A k \in 1..(n - i + 1) : b[k] = s[i + k - 1]
    BY <1>1, <1>a, <2>1, Part
  <2>3. n - i + 1 = q /\ \A k \in 1..q : i + k - 1 = p + k
    BY <1>2
  <2> QED
    BY <2>2, <2>3
<1>5. m \in Seq(R) /\ Len(m) = 1 /\ m[1] = r
  BY <1>1, <1>a
<1>c. PICK c : c = a \o m
  OBVIOUS
<1>d. PICK d \in Nat, one \in Nat : d = p + 1 /\ one = 1
  OBVIOUS
<1>6. /\ c \in Seq(R) /\ Len(c) = d
      /\ \A k \in 1..p : c[k] = a[k]
      /\ \A k \in 1..one : c[p + k] = m[k]
  <2>1. a \in Seq(R) /\ m \in Seq(R) /\ p = Len(a) /\ one = Len(m) /\ c = a \o m
    BY <1>3, <1>5, <1>c, <1>d
  <2>2. d = p + one
    BY <1>d
  <2>3. /\ c \in Seq(R) /\ Len(c) = p + one
        /\ \A k \in 1..p : c[k] = a[k]
        /\ \A k \in 1..one : c[p + k] = m[k]
    BY <2>1, Joined
  <2> QED
    BY <2>2, <2>3
<1>t. PICK t : t = InsertAt(s, i, r)
  OBVIOUS
<1>7. t = c \o b
  BY <1>a, <1>c, <1>n, <1>t DEF InsertAt
<1>8. /\ Len(t) = d + q
      /\ \A k \in 1..d : t[k] = c[k]
      /\ \A k \in 1..q : t[d + k] = b[k]
  <2>1. c \in Seq(R) /\ b \in Seq(R) /\ d = Len(c) /\ q = Len(b)
    BY <1>4, <1>6
  <2> QED
    BY <1>7, <2>1, Joined
<1>9. ASSUME NEW k \in 1..(n + 1)
      PROVE  t[k] = IF k < i THEN s[k] ELSE IF k = i THEN r ELSE s[k - 1]
  <2>2. CASE k < i
    <3>1. k \in 1..p /\ k \in 1..d
      BY <1>2, <1>d, <2>2
    <3> QED
      BY <1>3, <1>6, <1>8, <2>2, <3>1
  <2>3. CASE k = i
    <3>1. k \in 1..d /\ k = p + 1 /\ 1 \in 1..one /\ ~(k < i)
      BY <1>2, <1>d, <2>3
    <3>2. t[k] = c[k] /\ c[p + 1] = m[1]
      BY <1>6, <1>8, <3>1
    <3> QED
      BY <1>5, <2>3, <3>1, <3>2
  <2>4. CASE k > i
    <3>1. PICK j \in 1..q : j = k - d
      BY <1>2, <1>d, <2>4
    <3>2. p + j = k - 1 /\ d + j = k /\ ~(k < i) /\ k # i
      BY <1>2, <1>d, <2>4, <3>1
    <3> QED
      BY <1>4, <1>8, <3>2
  <2> QED
    BY <1>2, <2>2, <2>3, <2>4
<1>10. d + q = n + 1
  BY <1>2, <1>d
<1> QED
  BY <1>8, <1>9, <1>10, <1>n, <1>t

\* The alterations of a table leave events.
LEMMA RowReplaced ==
  ASSUME NEW s, IsRecords(s), NEW i \in 1..Len(s), NEW r, NEW t, t = [s EXCEPT ![i] = r]
  PROVE  /\ Len(t) = Len(s) /\ t[i] = r
         /\ \A k \in 1..Len(s) : k # i => t[k] = s[k]
<1> PICK n \in Nat : n = Len(s)
  BY RecordsAre
<1>1. s = [k \in 1..n |-> s[k]]
  BY RecordsAre
<1>2. t = [k \in 1..n |-> IF k = i THEN r ELSE s[k]]
  BY <1>1
<1>3. Len(t) = n
  BY <1>2
<1> QED
  BY <1>2, <1>3

LEMMA ModifiedAt ==
  ASSUME NEW s, IsRecords(s), NEW t \in Modified(s)
  PROVE  \E i \in 1..Len(s) : \E e \in Variants(s[i].event) :
           /\ Len(t) = Len(s)
           /\ t[i] = [sequence |-> s[i].sequence, event |-> e, event_hash |-> s[i].event_hash]
           /\ \A k \in 1..Len(s) : k # i => t[k] = s[k]
<1>1. PICK i \in 1..Len(s) : \E e \in Variants(s[i].event) : t = [s EXCEPT ![i].event = e]
  BY DEF Modified
<1>2. PICK e \in Variants(s[i].event) : t = [s EXCEPT ![i].event = e]
  BY <1>1
<1>r. PICK r : r = [s[i] EXCEPT !.event = e]
  OBVIOUS
<1>3. r = [sequence |-> s[i].sequence, event |-> e, event_hash |-> s[i].event_hash]
  <2>1. IsRecord(s[i])
    BY RecordsAre
  <2> QED
    BY <1>r, <2>1 DEF IsRecord
<1>4. t = [s EXCEPT ![i] = r]
  BY <1>2, <1>r
<1>5. Len(t) = Len(s) /\ t[i] = r /\ \A k \in 1..Len(s) : k # i => t[k] = s[k]
  BY <1>4, RowReplaced
<1> QED
  BY <1>3, <1>5

LEMMA ModifiedEvents ==
  ASSUME NEW s, IsRecords(s), HaveEvents(s), NEW t \in Modified(s)
  PROVE  HaveEvents(t)
<1>i. PICK i \in 1..Len(s) : \E e \in Variants(s[i].event) :
        /\ Len(t) = Len(s)
        /\ t[i] = [sequence |-> s[i].sequence, event |-> e, event_hash |-> s[i].event_hash]
        /\ \A k \in 1..Len(s) : k # i => t[k] = s[k]
  BY ModifiedAt
<1>1. PICK e \in Variants(s[i].event) :
        /\ Len(t) = Len(s)
        /\ t[i] = [sequence |-> s[i].sequence, event |-> e, event_hash |-> s[i].event_hash]
        /\ \A k \in 1..Len(s) : k # i => t[k] = s[k]
  BY <1>i, Zenon
<1>2. IsEvent(e)
  BY <1>1, VariantEvents DEF HaveEvents
<1>3. t[i].event = e
  BY <1>1
<1>4. \A k \in 1..Len(s) : k # i => t[k].event = s[k].event
  BY <1>1
<1>5. Len(t) = Len(s)
  BY <1>1
<1> QED
  BY <1>2, <1>3, <1>4, <1>5 DEF HaveEvents

LEMMA DeletedEvents ==
  ASSUME NEW s, IsRecords(s), HaveEvents(s), NEW t \in Deleted(s)
  PROVE  HaveEvents(t)
<1>1. PICK i \in 1..Len(s) : t = RemoveAt(s, i)
  BY DEF Deleted
<1> PICK n \in Nat : n = Len(s)
  BY RecordsAre
<1>2. /\ Len(t) = n - 1
      /\ \A k \in 1..(n - 1) : t[k] = IF k < i THEN s[k] ELSE s[k + 1]
  BY <1>1, Removed
<1>3. \A k \in 1..(n - 1) : k \in 1..n /\ k + 1 \in 1..n
  OBVIOUS
<1> QED
  BY <1>2, <1>3 DEF HaveEvents

LEMMA RehashedEvents ==
  ASSUME NEW s, IsRecords(s), HaveEvents(s), NEW i \in 1..Len(s)
  PROVE  HaveEvents([s EXCEPT ![i] = Rehashed(@)])
<1> PICK r, t : r = Rehashed(s[i]) /\ t = [s EXCEPT ![i] = Rehashed(@)]
  OBVIOUS
<1>1. r.event = s[i].event
  <2>1. IsRecord(s[i])
    BY RecordsAre
  <2> QED
    BY <2>1 DEF IsRecord, Rehashed
<1>2. Len(t) = Len(s) /\ t[i] = r /\ \A k \in 1..Len(s) : k # i => t[k] = s[k]
  BY RowReplaced
<1> QED
  BY <1>1, <1>2 DEF HaveEvents

LEMMA RechainedEvents ==
  ASSUME NEW s, IsRecords(s), HaveEvents(s)
  PROVE  HaveEvents(Rechained(s))
<1> DEFINE relinked(i, previous) == [s[i].event EXCEPT !.previous = previous]
           digest == CHOOSE digest : digest = [i \in 0..Len(s) |->
                       IF i = 0 THEN ZeroDigest ELSE EventHash(relinked(i, digest[i-1]))]
           t == [i \in 1..Len(s) |->
                   [sequence |-> i, event |-> relinked(i, digest[i-1]), event_hash |-> digest[i]]]
<1>1. Rechained(s) = t
  BY DEF Rechained
<1>2. Len(s) \in Nat
  BY RecordsAre
<1>3. ASSUME NEW i \in 1..Len(s), NEW previous PROVE IsEvent(relinked(i, previous))
  <2> PICK e, d : e = s[i].event /\ d = relinked(i, previous)
    OBVIOUS
  <2>1. IsEvent(e)
    BY DEF HaveEvents
  <2>2. d = [e EXCEPT !.previous = previous]
    OBVIOUS
  <2>3. DOMAIN d = EventFields /\ d.reasons = e.reasons /\ d.findings = e.findings /\ d.at = e.at
    BY <2>1, <2>2 DEF IsEvent, EventFields
  <2> QED
    BY <2>1, <2>3, StillEvent DEF IsEvent
<1> HIDE DEF relinked, digest
<1>4. Len(t) = Len(s) /\ \A i \in 1..Len(s) : IsEvent(t[i].event)
  BY <1>2, <1>3
<1> HIDE DEF t
<1> QED
  BY <1>1, <1>4 DEF HaveEvents

\* Where and when an event is read does not matter to what it says.
LEMMA AtReplaced ==
  ASSUME NEW e, IsEvent(e), NEW at, DOMAIN at = {"rest", "zone"},
         NEW d, d = [e EXCEPT !.at = at]
  PROVE  /\ IsEvent(d) /\ d.at = at /\ d.previous = e.previous
         /\ at.rest = e.at.rest => Canonical(d) = Canonical(e)
         /\ Validate(e) /\ at.rest = 0 => Validate(d)
<1>1. /\ DOMAIN d = EventFields /\ d.at = at
      /\ \A k \in EventFields \ {"at"} : d[k] = e[k]
  BY DEF IsEvent, EventFields
<1>2. /\ d.reasons = e.reasons /\ d.findings = e.findings /\ d.state = e.state
      /\ d.method = e.method /\ d.issuer = e.issuer /\ d.costs = e.costs /\ d.error = e.error
      /\ d.previous = e.previous
  BY <1>1 DEF EventFields
<1>3. IsEvent(d)
  BY <1>1, <1>2, StillEvent
<1>4. ASSUME at.rest = e.at.rest PROVE Canonical(d) = Canonical(e)
  <2>1. /\ DOMAIN e = EventFields /\ DOMAIN e.findings = FindingFields
        /\ DOMAIN e.at = {"rest", "zone"}
    BY DEF IsEvent
  <2>2. \A k \in EventFields \ {"reasons", "findings", "at"} : d[k] = e[k]
    BY <1>1
  <2> QED
    BY <1>1, <1>2, <1>4, <2>1, <2>2, SameCanonical
<1>5. ASSUME Validate(e), at.rest = 0 PROVE Validate(d)
  BY <1>1, <1>2, <1>5, Zenon DEF Validate
<1> QED
  BY <1>1, <1>2, <1>3, <1>4, <1>5

\* A row as the export reads it.
LEMMA Scanned ==
  ASSUME NEW r, IsRecord(r), IsEvent(r.event)
  PROVE  /\ IsRecord(scanRecord(r))
         /\ scanRecord(r).sequence = r.sequence /\ scanRecord(r).event_hash = r.event_hash
         /\ scanRecord(r).event = [r.event EXCEPT !.at.zone = "local"]
         /\ IsEvent(scanRecord(r).event)
         /\ scanRecord(r).event.previous = r.event.previous
<1>at. PICK at : at = [r.event.at EXCEPT !.zone = "local"]
  OBVIOUS
<1>d. PICK d : d = [r.event EXCEPT !.at = at]
  OBVIOUS
<1>1. scanRecord(r) = [r EXCEPT !.event = d]
  BY <1>at, <1>d DEF scanRecord
<1>2. scanRecord(r) = [sequence |-> r.sequence, event |-> d, event_hash |-> r.event_hash]
  BY <1>1 DEF IsRecord
<1>3. /\ scanRecord(r).sequence = r.sequence /\ scanRecord(r).event_hash = r.event_hash
      /\ scanRecord(r).event = d
  BY <1>2
<1>4. DOMAIN at = {"rest", "zone"}
  BY <1>at DEF IsEvent
<1>5. IsEvent(d) /\ d.previous = r.event.previous
  BY <1>4, <1>d, AtReplaced
<1>6. d = [r.event EXCEPT !.at.zone = "local"]
  BY <1>at, <1>d
<1> QED
  BY <1>2, <1>3, <1>5, <1>6 DEF IsRecord

-----------------------------------------------------------------------------
(***************************************************************************)
(* The invariant of what stands, step by step.                             *)
(***************************************************************************)

\* What is kept where neither a command nor the copy moves.
LEMMA FilesKept ==
  ASSUME \A x \in Tools : HasRead(x), FileSound, FileOwned, UNCHANGED <<tool, file>>
  PROVE  (\A x \in Tools : HasRead(x)') /\ FileSound' /\ FileOwned'
BY DEF HasRead, FileSound, FileOwned, Holds, At

LEMMA FollowingKept ==
  ASSUME CopyFollows, UNCHANGED <<copy, edits, file, tool>>
  PROVE  CopyFollows'
BY DEF CopyFollows

LEMMA RowsKept ==
  ASSUME Unaltered, UNCHANGED <<rowEdits, refused, rows, appended, tool>>
  PROVE  Unaltered'
BY DEF Unaltered, RowKept, HashAt, At

LEMMA InitStands ==
  ASSUME Init
  PROVE  StandingInv
<1>1. ExportInv
  BY InitInv
<1>2. /\ appended = <<>> /\ rows = <<>> /\ refused = FALSE /\ file = NoFile /\ copy = NoCopy
      /\ edits = [count |-> 0, rehashed |-> FALSE] /\ rowEdits = 0
      /\ \A x \in Tools : tool[x].phase = "idle"
  BY DEF Init
<1>3. \A i \in 1..Len(rows) : FALSE
  BY <1>2
<1>4. HaveEvents(rows) /\ Unaltered
  BY <1>2, <1>3 DEF HaveEvents, Unaltered, At
<1>5. (\A x \in Tools : HasRead(x)) /\ FileSound /\ FileOwned
  BY <1>2 DEF HasRead, FileSound, FileOwned, Holds
<1>6. CopyFollows
  BY <1>2 DEF CopyFollows
<1> QED
  BY <1>1, <1>4, <1>5, <1>6 DEF StandingInv

\* The row of an event, read again, has the event and its hash.
LEMMA RowOfEvent ==
  ASSUME NEW e, IsEvent(e), Validate(e), e.at = [rest |-> 0, zone |-> "utc"], NEW n
  PROVE  LET r == [sequence |-> n, event |-> appendArguments(e), event_hash |-> EventHash(e)]
         IN /\ IsRecord(r) /\ IsEvent(r.event)
            /\ Validate(scanRecord(r).event) /\ Canonical(scanRecord(r).event) = Canonical(e)
<1>r. PICK r : r = [sequence |-> n, event |-> appendArguments(e), event_hash |-> EventHash(e)]
  OBVIOUS
<1>at. PICK db, local : db = [rest |-> 0, zone |-> "db"] /\ local = [rest |-> 0, zone |-> "local"]
  OBVIOUS
<1>1. e.at.rest = 0 /\ db.rest = 0 /\ DOMAIN db = {"rest", "zone"}
  BY <1>at
<1>s. PICK stored : stored = [e EXCEPT !.at = db]
  OBVIOUS
<1>2. IsEvent(stored) /\ stored.at = db /\ Canonical(stored) = Canonical(e) /\ Validate(stored)
  BY <1>1, <1>s, AtReplaced
<1>3. r.event = stored /\ IsRecord(r)
  <2>1. appendArguments(e) = stored
    BY <1>at, <1>s DEF appendArguments
  <2> QED
    BY <1>r, <2>1 DEF IsRecord
<1>4. scanRecord(r).event = [stored EXCEPT !.at = local]
  <2>1. scanRecord(r).event = [stored EXCEPT !.at.zone = "local"]
    BY <1>2, <1>3, Scanned
  <2>2. [db EXCEPT !.zone = "local"] = local
    BY <1>at
  <2>3. [stored EXCEPT !.at.zone = "local"] = [stored EXCEPT !.at = [stored.at EXCEPT !.zone = "local"]]
    OBVIOUS
  <2> QED
    BY <1>2, <2>1, <2>2, <2>3
<1>5. local.rest = 0 /\ DOMAIN local = {"rest", "zone"} /\ stored.at.rest = 0
  BY <1>1, <1>2, <1>at
<1>d. PICK d : d = [stored EXCEPT !.at = local]
  OBVIOUS
<1>6. Validate(d) /\ Canonical(d) = Canonical(stored)
  BY <1>2, <1>5, <1>d, AtReplaced
<1>7. scanRecord(r).event = d
  BY <1>4, <1>d
<1>8. /\ IsRecord(r) /\ IsEvent(r.event)
      /\ Validate(scanRecord(r).event) /\ Canonical(scanRecord(r).event) = Canonical(e)
  BY <1>2, <1>3, <1>6, <1>7
<1> QED
  BY <1>r, <1>8

\* An event that is linked is still one.
LEMMA LinkedEvent ==
  ASSUME NEW built, IsEvent(built), Validate(built), NEW h, NEW e, e = [built EXCEPT !.previous = h]
  PROVE  IsEvent(e) /\ Validate(e) /\ e.at = built.at
<1>1. DOMAIN e = EventFields /\ \A k \in EventFields \ {"previous"} : e[k] = built[k]
  BY DEF IsEvent, EventFields
<1>2. /\ e.reasons = built.reasons /\ e.findings = built.findings /\ e.state = built.state
      /\ e.method = built.method /\ e.issuer = built.issuer /\ e.costs = built.costs
      /\ e.error = built.error /\ e.at = built.at
  BY <1>1 DEF EventFields
<1>3. IsEvent(e)
  BY <1>1, <1>2, StillEvent DEF IsEvent
<1>4. Validate(e)
  BY <1>2, Zenon DEF Validate
<1> QED
  BY <1>2, <1>3, <1>4

LEMMA RecordStands ==
  ASSUME StandingInv, Len(appended) < Len(Inputs),
         NEW input \in Inputs[Len(appended) + 1], Record(input), ExportInv'
  PROVE  StandingInv'
<1>0. Len(appended) \in Nat /\ IsRecords(rows)
  BY DEF StandingInv, ExportInv, Chained
<1>n. PICK n \in Nat : n = Len(appended)
  BY <1>0
<1>1. head.sequence = n /\ head.event_hash = HashAt(n)
  BY <1>n DEF StandingInv, ExportInv, Chained
<1>2. UNCHANGED <<checkpoints, tool, file, copy, edits, rowEdits>>
  BY DEF Record, copyVars
<1>b. PICK built : built = EventOf(input, n + 1)
  OBVIOUS
<1>3. /\ Buildable(input.principal) /\ IsEvent(built) /\ Validate(built)
      /\ built.at = [rest |-> 0, zone |-> "utc"]
  <2>1. n + 1 \in 1..Len(Inputs) /\ input \in Inputs[n + 1]
    BY <1>n, InputsAssumption
  <2> QED
    BY <1>b, <2>1, HandlersEvent
<1>e. PICK e, r : /\ e = [built EXCEPT !.previous = head.event_hash]
                  /\ r = [sequence |-> n + 1, event |-> appendArguments(e),
                          event_hash |-> EventHash(e)]
  OBVIOUS
<1>4. rows' = Append(rows, r) /\ appended' = Append(appended, Canonical(e)) /\ refused' = refused
  <2>1. EventOf(input, Len(appended) + 1) = built
    BY <1>b, <1>n
  <2>2. Linked(built) = e /\ head.sequence + 1 = n + 1
    BY <1>1, <1>e DEF Linked
  <2> QED
    BY <1>3, <1>e, <2>1, <2>2, Zenon DEF Record
<1>5. /\ IsRecord(r) /\ IsEvent(r.event)
      /\ Validate(scanRecord(r).event) /\ Canonical(scanRecord(r).event) = Canonical(e)
  <2>1. IsEvent(e) /\ Validate(e) /\ e.at = [rest |-> 0, zone |-> "utc"]
    BY <1>3, <1>e, LinkedEvent
  <2> QED
    BY <1>e, <2>1, RowOfEvent
<1>m. PICK m \in Nat : m = Len(rows)
  BY <1>0, RecordsAre
<1>6. Len(rows') = m + 1 /\ rows'[m + 1] = r /\ \A i \in 1..m : rows'[i] = rows[i]
  <2>1. PICK R : rows \in Seq(R)
    BY <1>0, RecordsAre
  <2> QED
    BY <1>4, <1>m, <2>1
<1>7. /\ Len(appended') = n + 1 /\ appended'[n + 1] = Canonical(e)
      /\ \A i \in 1..n : appended'[i] = appended[i]
  <2>1. PICK R : appended \in Seq(R)
    BY DEF StandingInv, ExportInv, Chained
  <2> QED
    BY <1>4, <1>n, <2>1
<1>8. HaveEvents(rows)'
  <2>1. \A i \in 1..m : IsEvent(rows'[i].event)
    BY <1>6, <1>m DEF StandingInv, HaveEvents
  <2>2. IsEvent(rows'[m + 1].event)
    BY <1>5, <1>6
  <2> QED
    BY <1>6, <2>1, <2>2 DEF HaveEvents
<1>9. Unaltered'
  <2>1. rowEdits' \in Nat
    BY <1>2 DEF StandingInv, Unaltered
  <2>2. ASSUME rowEdits' = 0
        PROVE  /\ ~refused' /\ Len(rows') = Len(appended')
               /\ \A i \in 1..Len(rows') : RowKept(i)'
               /\ \A x \in Tools : At(x, "read")'
                    => Exportable(tool'[x].records, tool'[x].checkpoint)
    <3>1. /\ ~refused /\ Len(rows) = Len(appended) /\ \A i \in 1..Len(rows) : RowKept(i)
          /\ \A x \in Tools : At(x, "read") => Exportable(tool[x].records, tool[x].checkpoint)
      BY <1>2, <2>2 DEF StandingInv, Unaltered
    <3>2. m = n
      BY <1>m, <1>n, <3>1
    <3>3. ASSUME NEW i \in 1..n PROVE RowKept(i)'
      <4>1. RowKept(i) /\ rows'[i] = rows[i] /\ appended'[i] = appended[i]
        BY <1>6, <1>7, <1>m, <3>1, <3>2
      <4>2. HashAt(i)' = HashAt(i)
        BY <4>1 DEF HashAt
      <4> QED
        BY <4>1, <4>2, Zenon DEF RowKept
    <3>4. RowKept(n + 1)'
      <4>1. rows'[n + 1] = r /\ r.sequence = n + 1 /\ r.event_hash = <<Canonical(e)>>
        BY <1>6, <1>e, <3>2 DEF EventHash
      <4>2. HashAt(n + 1)' = <<Canonical(e)>>
        BY <1>7 DEF HashAt
      <4> QED
        BY <1>5, <1>7, <4>1, <4>2, Zenon DEF RowKept
    <3>5. Len(rows') = n + 1 /\ \A i \in 1..(n + 1) : RowKept(i)'
      <4>1. \A i \in 1..(n + 1) : i \in 1..n \/ i = n + 1
        OBVIOUS
      <4> QED
        BY <1>6, <3>2, <3>3, <3>4, <4>1
    <3> QED
      BY <1>2, <1>4, <1>7, <3>1, <3>5 DEF At
  <2> QED
    BY <2>1, <2>2 DEF Unaltered
<1> QED
  BY <1>2, <1>8, <1>9, FilesKept, FollowingKept DEF StandingInv

\* A checkpoint of the head as it is signed.
LEMMA SignedHead ==
  ASSUME Chained, Len(appended) \in Nat, NEW rest
  PROVE  CreateCheckpoint(head, [rest |-> rest, zone |-> "local"]) = CheckpointAt(Len(appended), "utc")
<1> PICK clock : clock = [rest |-> rest, zone |-> "local"]
  OBVIOUS
<1>1. Truncate(UTC(clock)) = [rest |-> 0, zone |-> "utc"]
  <2>1. UTC(clock) = [rest |-> rest, zone |-> "utc"]
    BY DEF UTC
  <2>2. Truncate([rest |-> rest, zone |-> "utc"]) = [rest |-> 0, zone |-> "utc"]
    BY DEF Truncate
  <2> QED
    BY <2>1, <2>2, Zenon
<1>2. head.sequence = Len(appended) /\ head.event_hash = HashAt(Len(appended))
  BY DEF Chained
<1> QED
  BY <1>1, <1>2 DEF CreateCheckpoint, CheckpointAt, Sign, Payload

LEMMA CheckpointStands ==
  ASSUME StandingInv, NEW rest \in 0..1, Checkpoint([rest |-> rest, zone |-> "local"]), ExportInv'
  PROVE  StandingInv'
<1>1. UNCHANGED <<appended, rows, head, tool, file, copy, edits, rowEdits>>
  BY DEF Checkpoint, copyVars
<1>2. Chained /\ Len(appended) \in Nat
  BY DEF StandingInv, ExportInv, Chained
<1>n. PICK n \in Nat : n = Len(appended)
  BY <1>2
<1>c. PICK c, at : at = [rest |-> 0, zone |-> "utc"] /\ c = CheckpointAt(n, "utc")
  OBVIOUS
<1>3. PayloadValid(c)
  <2>1. n > 0 /\ n # 0
    BY <1>2, <1>n DEF Checkpoint, Chained
  <2>2. c.sequence = n /\ c.head = HashAt(n) /\ c.at = at
    BY <1>c DEF CheckpointAt
  <2>3. HashAt(n) # <<>>
    BY <2>1 DEF HashAt
  <2> QED
    BY <1>c, <2>1, <2>2, <2>3 DEF PayloadValid, NonZero, ZeroDigest
<1>4. refused' = refused
  <2>1. CreateCheckpoint(head, [rest |-> rest, zone |-> "local"]) = c
    BY <1>2, <1>c, <1>n, SignedHead
  <2> QED
    BY <1>3, <2>1 DEF Checkpoint
<1>5. HaveEvents(rows)'
  BY <1>1 DEF StandingInv
<1> QED
  BY <1>1, <1>4, <1>5, FilesKept, FollowingKept, RowsKept DEF StandingInv

LEMMA AlterRowsStands ==
  ASSUME StandingInv, AlterRows, ExportInv'
  PROVE  StandingInv'
<1>1. UNCHANGED <<appended, tool, file, copy, edits>> /\ rowEdits' = rowEdits + 1
  BY DEF AlterRows, copyVars
<1>2. IsRecords(rows) /\ HaveEvents(rows)
  BY DEF StandingInv, ExportInv
<1>3. HaveEvents(rows')
  <2>1. CASE rows' \in Modified(rows)
    BY <1>2, <2>1, ModifiedEvents
  <2>2. CASE rows' \in Deleted(rows)
    BY <1>2, <2>2, DeletedEvents
  <2>3. CASE rows' \in {[rows EXCEPT ![i] = Rehashed(@)] : i \in 1..Len(rows)}
    BY <1>2, <2>3, RehashedEvents
  <2>4. CASE rows' = Rechained(rows)
    BY <1>2, <2>4, RechainedEvents
  <2> QED
    BY <2>1, <2>2, <2>3, <2>4 DEF AlterRows
<1>4. Unaltered'
  <2>1. rowEdits \in Nat
    BY DEF StandingInv, Unaltered
  <2>2. rowEdits' \in Nat /\ rowEdits' # 0
    BY <1>1, <2>1
  <2> QED
    BY <2>2 DEF Unaltered
<1> QED
  BY <1>1, <1>3, <1>4, FilesKept, FollowingKept DEF StandingInv

LEMMA TakeCopyStands ==
  ASSUME StandingInv, TakeCopy, ExportInv'
  PROVE  StandingInv'
<1>1. UNCHANGED <<appended, rows, refused, tool, file, edits, rowEdits>>
  BY DEF TakeCopy, dbVars
<1>2. file # NoFile /\ copy = NoCopy
  BY DEF TakeCopy, NoFile
<1>3. /\ copy'.whole = file.whole /\ copy'.records = file.content.records
      /\ copy'.checkpoint = file.content.checkpoint
  BY DEF TakeCopy
<1>4. edits.count = 0 /\ ~edits.rehashed /\ DOMAIN edits = {"count", "rehashed"}
  BY <1>2 DEF StandingInv, CopyFollows
<1>5. \A x \in Tools : tool[x].phase \in {"idle", "exported", "failed"}
  BY DEF TakeCopy
<1>6. CopyFollows'
  <2>1. edits' = edits /\ edits'.count = 0 /\ 0 # 1
    BY <1>1, <1>4
  <2> QED
    BY <1>1, <1>2, <1>3, <1>4, <1>5, <2>1 DEF CopyFollows
<1> QED
  BY <1>1, <1>6, FilesKept, RowsKept DEF StandingInv

LEMMA AlterCopyStands ==
  ASSUME StandingInv, AlterCopy, ExportInv'
  PROVE  StandingInv'
<1>1. UNCHANGED <<appended, rows, refused, tool, file, rowEdits>>
  BY DEF AlterCopy, dbVars
<1>2. copy # NoCopy /\ CopyFollows
  BY DEF AlterCopy, StandingInv
<1>p. PICK t, w, s, c : t = copy.taken /\ w = copy.whole /\ s = copy.records /\ c = copy.checkpoint
  OBVIOUS
<1>3. copy = [taken |-> t, whole |-> w, records |-> s, checkpoint |-> c]
  BY <1>2, <1>p DEF StandingInv, ExportInv, CopyInv
<1>4. \A r, d : /\ [copy EXCEPT !.records = r] = [taken |-> t, whole |-> w, records |-> r, checkpoint |-> c]
                /\ [copy EXCEPT !.checkpoint = d] = [taken |-> t, whole |-> w, records |-> s, checkpoint |-> d]
  BY <1>3
<1>b. PICK b : b = edits.rehashed
  OBVIOUS
<1>m. PICK m \in Nat : m = edits.count
  BY <1>2 DEF CopyFollows
<1>5. \/ /\ edits'.count = m + 1 /\ edits'.rehashed = b
         /\ copy'.whole = w /\ copy'.checkpoint = c
         /\ copy'.records \in Altered(s) \ {s}
      \/ edits'.count = m + 1 /\ edits'.rehashed /\ copy'.whole = w
  <2>1. CASE /\ \E r \in Modified(s) \cup Deleted(s) \cup Inserted(s) \cup Swapped(s) :
                  r # s /\ copy' = [copy EXCEPT !.records = r]
             /\ edits' = [edits EXCEPT !.count = m + 1]
    <3>1. PICK r \in Altered(s) : r # s /\ copy' = [copy EXCEPT !.records = r]
      BY <2>1 DEF Altered
    <3>2. copy' = [taken |-> t, whole |-> w, records |-> r, checkpoint |-> c]
      BY <1>4, <3>1
    <3>3. edits'.count = m + 1 /\ edits'.rehashed = b
      <4>1. DOMAIN edits = {"count", "rehashed"}
        BY <1>2 DEF CopyFollows
      <4> QED
        BY <1>b, <1>m, <2>1, <4>1
    <3> QED
      BY <3>1, <3>2, <3>3
  <2>2. CASE /\ \E r, d : \/ copy' = [copy EXCEPT !.records = r]
                          \/ copy' = [copy EXCEPT !.checkpoint = d]
             /\ edits' = [count |-> m + 1, rehashed |-> TRUE]
    <3>1. copy'.whole = w
      BY <1>4, <2>2
    <3>2. edits'.count = m + 1 /\ edits'.rehashed
      BY <2>2
    <3> QED
      BY <3>1, <3>2
  <2>3. \/ /\ \E r \in Modified(s) \cup Deleted(s) \cup Inserted(s) \cup Swapped(s) :
                  r # s /\ copy' = [copy EXCEPT !.records = r]
           /\ edits' = [edits EXCEPT !.count = m + 1]
        \/ /\ copy' \in {[copy EXCEPT !.records[i] = Rehashed(@)] : i \in 1..Len(s)}
                        \cup {[copy EXCEPT !.records = Rechained(s)]}
                        \cup {[copy EXCEPT !.checkpoint = d] : d \in Checkpoints(copy)}
           /\ edits' = [count |-> m + 1, rehashed |-> TRUE]
    BY <1>m, <1>p DEF AlterCopy
  <2>4. \A i : [copy EXCEPT !.records[i] = Rehashed(@)]
                 = [copy EXCEPT !.records = [s EXCEPT ![i] = Rehashed(@)]]
    BY <1>p
  <2>5. (copy' \in {[copy EXCEPT !.records[i] = Rehashed(@)] : i \in 1..Len(s)}
                        \cup {[copy EXCEPT !.records = Rechained(s)]}
                        \cup {[copy EXCEPT !.checkpoint = d] : d \in Checkpoints(copy)})
        => \E r, d : \/ copy' = [copy EXCEPT !.records = r]
                     \/ copy' = [copy EXCEPT !.checkpoint = d]
    BY <2>4
  <2> QED
    BY <2>1, <2>2, <2>3, <2>5
<1>6. DOMAIN edits' = {"count", "rehashed"}
  <2>1. DOMAIN edits = {"count", "rehashed"}
    BY <1>2 DEF CopyFollows
  <2> QED
    BY <2>1 DEF AlterCopy
<1>7. copy' # NoCopy
  <2>1. copy'.whole = w /\ DOMAIN copy' = {"taken", "whole", "records", "checkpoint"}
    BY <1>3, <1>5 DEF AlterCopy
  <2> QED
    BY <2>1 DEF NoCopy
<1>8. CopyFollows'
  <2>1. edits'.count \in Nat /\ edits'.count # 0
    BY <1>5
  <2>2. /\ file # NoFile /\ w = file.whole
        /\ \A x \in Tools : tool[x].phase \in {"idle", "exported", "failed"}
    BY <1>2, <1>p DEF CopyFollows
  <2>3. ASSUME edits'.count = 1, ~edits'.rehashed
        PROVE  /\ copy'.records \in Altered(file.content.records) \ {file.content.records}
               /\ copy'.checkpoint = file.content.checkpoint
    <3>1. m = 0
      BY <1>5, <2>3
    <3>2. s = file.content.records /\ c = file.content.checkpoint
      BY <1>2, <1>m, <1>p, <3>1 DEF CopyFollows
    <3> QED
      BY <1>5, <2>3, <3>2
  <2>4. copy'.whole = w
    BY <1>5
  <2> QED
    BY <1>1, <1>6, <1>7, <2>1, <2>2, <2>3, <2>4 DEF CopyFollows
<1> QED
  BY <1>1, <1>8, FilesKept, RowsKept DEF StandingInv

\* The rows that an export reads.
LEMMA RowsRead ==
  ASSUME IsRecords(rows), HaveEvents(rows), NEW n, NEW records, records = RowsThrough(n)
  PROVE  /\ IsRecords(records) /\ HaveEvents(records)
         /\ Len(records) = Cardinality({i \in 1..Len(rows) : rows[i].sequence <= n})
         /\ \A i \in 1..Len(records) : i \in 1..Len(rows) /\ records[i] = scanRecord(rows[i])
<1> DEFINE S == {i \in 1..Len(rows) : rows[i].sequence <= n}
<1>m. PICK m \in Nat : m = Len(rows)
  BY RecordsAre
<1>1. IsFiniteSet(S) /\ Cardinality(S) \in Nat /\ Cardinality(S) <= m
  <2>1. IsFiniteSet(1..m) /\ Cardinality(1..m) = m
    BY UpTo
  <2>2. S \in SUBSET (1..m)
    BY <1>m
  <2> HIDE DEF S
  <2> QED
    BY <2>1, <2>2, FS_Subset, FS_CardinalityType
<1>k. PICK k \in Nat : k = Cardinality(S)
  BY <1>1
<1>2. records = [i \in 1..k |-> scanRecord(rows[i])]
  BY <1>k DEF RowsThrough
<1> HIDE DEF S
<1>3. \A i \in 1..k : i \in 1..m
  BY <1>1, <1>k
<1>4. Len(records) = k /\ \A i \in 1..k : records[i] = scanRecord(rows[i])
  BY <1>2
<1>5. \A i \in 1..k : IsRecord(records[i]) /\ IsEvent(records[i].event)
  <2>1. \A i \in 1..m : IsRecord(rows[i]) /\ IsEvent(rows[i].event)
    BY <1>m, RecordsAre DEF HaveEvents
  <2>2. \A i \in 1..m : IsRecord(scanRecord(rows[i])) /\ IsEvent(scanRecord(rows[i]).event)
    BY <2>1, Scanned
  <2> QED
    BY <1>3, <1>4, <2>2
<1>6. IsRecords(records)
  <2>1. records = [i \in 1..k |-> records[i]]
    BY <1>2
  <2> QED
    BY <1>5, <2>1, RecordsOf
<1>7. HaveEvents(records)
  BY <1>4, <1>5 DEF HaveEvents
<1> QED
  BY <1>3, <1>4, <1>6, <1>7, <1>k, <1>m DEF S

\* Rows that nobody has altered can be exported through any checkpoint.
LEMMA KeptExportable ==
  ASSUME Chained, Anchored, IsRecords(rows), HaveEvents(rows),
         Len(rows) = Len(appended), \A i \in 1..Len(rows) : RowKept(i),
         NEW c, IsLoaded(c), NEW records, records = RowsThrough(c.sequence)
  PROVE  Exportable(records, c)
<1>1. Len(rows) \in Nat
  BY RecordsAre
<1>m. PICK m \in Nat : m = Len(rows)
  BY <1>1
<1>2. PayloadValid(c)
  BY <1>1, LoadedVerifies
<1>3. PICK n \in 1..m : c = CheckpointAt(n, "utc")
  <2>1. PICK d \in checkpoints : c = LoadedCheckpoint(d)
    BY DEF IsLoaded
  <2>2. PICK n \in 1..m : d = CheckpointAt(n, "db")
    BY <1>m DEF Anchored
  <2> QED
    BY <2>1, <2>2, LoadedForm
<1>4. c.sequence = n /\ c.head = HashAt(n)
  BY <1>3 DEF CheckpointAt
<1>5. Len(records) = n
  <2>1. {i \in 1..Len(rows) : rows[i].sequence <= n} = 1..n
    <3>1. \A i \in 1..m : rows[i].sequence = i
      BY <1>m DEF RowKept
    <3>2. \A i : i \in 1..m /\ i <= n <=> i \in 1..n
      BY <1>3
    <3> QED
      BY <1>m, <3>1, <3>2
  <2>2. Cardinality(1..n) = n
    BY UpTo
  <2> QED
    BY <1>4, <2>1, <2>2, RowsRead
<1>6. \A i \in 1..n : i \in 1..m /\ records[i] = scanRecord(rows[i])
  BY <1>5, <1>m, RowsRead
<1>7. ASSUME NEW i \in 1..n
      PROVE  /\ records[i].sequence = i /\ records[i].event_hash = HashAt(i)
             /\ records[i].event.previous = HashAt(i - 1)
             /\ ~HashFails(records[i].event, records[i].event_hash)
  <2>r. PICK r, e : r = rows[i] /\ e = scanRecord(rows[i]).event
    OBVIOUS
  <2>1. i \in 1..m /\ records[i] = scanRecord(r)
    BY <1>6, <2>r
  <2>2. r.sequence = i /\ r.event_hash = HashAt(i) /\ Validate(e) /\ Canonical(e) = appended[i]
    BY <1>m, <2>1, <2>r DEF RowKept
  <2>3. IsRecord(r) /\ IsEvent(r.event)
    BY <1>m, <2>1, <2>r, RecordsAre DEF HaveEvents
  <2>4. /\ scanRecord(r).sequence = i /\ scanRecord(r).event_hash = HashAt(i) /\ IsEvent(e)
    BY <2>2, <2>3, <2>r, Scanned
  <2>5. e.previous = appended[i].previous
    BY <2>2, <2>4, CanonicalEvent
  <2>6. appended[i].previous = HashAt(i - 1)
    BY <1>m, <2>1 DEF Chained
  <2>7. HashAt(i) = <<Canonical(e)>>
    BY <2>2 DEF HashAt
  <2>8. ~HashFails(e, HashAt(i))
    BY <2>2, <2>7 DEF HashFails, EventHash
  <2> QED
    BY <2>1, <2>4, <2>5, <2>6, <2>8, <2>r
<1>8. \A i \in 1..n : LinkVerifies(records, i)
  <2> SUFFICES ASSUME NEW i \in 1..n PROVE LinkVerifies(records, i)
    OBVIOUS
  <2>1. PreviousOf(records, i) = HashAt(i - 1)
    <3>1. CASE i = 1
      BY <3>1 DEF PreviousOf, HashAt
    <3>2. CASE i # 1
      <4>1. i - 1 \in 1..n
        BY <3>2
      <4> QED
        BY <1>7, <3>2, <4>1 DEF PreviousOf
    <3> QED
      BY <3>1, <3>2
  <2> QED
    BY <1>7, <2>1 DEF LinkVerifies
<1>9. VerifyChain(records) = 0
  <2>1. {i \in 1..Len(records) : ~LinkVerifies(records, i)} = {}
    BY <1>5, <1>8
  <2> QED
    BY <2>1 DEF VerifyChain, FirstFailure
<1>10. Last(records) = records[n] /\ n \in 1..n
  BY <1>5 DEF Last
<1>11. records # <<>>
  BY <1>5
<1> QED
  BY <1>2, <1>4, <1>7, <1>9, <1>10, <1>11 DEF Exportable

\* What one command does leaves the others as they are.
LEMMA OneMoves ==
  ASSUME StandingInv, NEW x \in Tools, NEW v, tool' = [tool EXCEPT ![x] = v],
         v.phase \in {"read", "created", "written", "exported"}
           => IsRecords(v.records) /\ HaveEvents(v.records)
  PROVE  /\ tool'[x] = v /\ \A y \in Tools : y # x => tool'[y] = tool[y]
         /\ \A y \in Tools : HasRead(y)'
<1>1. tool = [y \in Tools |-> tool[y]]
  BY DEF StandingInv, ExportInv
<1>2. tool'[x] = v /\ \A y \in Tools : y # x => tool'[y] = tool[y]
  BY <1>1
<1>3. HasRead(x)'
  BY <1>2 DEF HasRead, Holds
<1>4. \A y \in Tools : y # x => HasRead(y)'
  BY <1>2 DEF HasRead, Holds, StandingInv
<1> QED
  BY <1>2, <1>3, <1>4

LEMMA PhaseTo ==
  ASSUME StandingInv, NEW x \in Tools, NEW phase, tool' = [tool EXCEPT ![x].phase = phase]
  PROVE  \E v : /\ tool' = [tool EXCEPT ![x] = v] /\ v.phase = phase
                /\ v.checkpoint = tool[x].checkpoint /\ v.records = tool[x].records
<1>v. PICK v : v = [tool[x] EXCEPT !.phase = phase]
  OBVIOUS
<1>1. tool[x] = [phase |-> tool[x].phase, checkpoint |-> tool[x].checkpoint,
                 records |-> tool[x].records]
  BY DEF StandingInv, ExportInv, ToolInv
<1>2. v.phase = phase /\ v.checkpoint = tool[x].checkpoint /\ v.records = tool[x].records
  BY <1>1, <1>v
<1>3. tool' = [tool EXCEPT ![x] = v]
  BY <1>v
<1> QED
  BY <1>2, <1>3

LEMMA ToFailed ==
  ASSUME StandingInv, NEW x \in Tools, tool' = [tool EXCEPT ![x].phase = "failed"]
  PROVE  \E v : /\ tool' = [tool EXCEPT ![x] = v] /\ v.phase = "failed"
                /\ v.checkpoint = tool[x].checkpoint /\ v.records = tool[x].records
<1>p. PICK phase : phase = "failed"
  OBVIOUS
<1>1. tool' = [tool EXCEPT ![x].phase = phase]
  BY <1>p
<1>v. PICK v : /\ tool' = [tool EXCEPT ![x] = v] /\ v.phase = phase
               /\ v.checkpoint = tool[x].checkpoint /\ v.records = tool[x].records
  BY <1>1, PhaseTo
<1> QED
  BY <1>p, <1>v

LEMMA RefusedTo ==
  ASSUME StandingInv, NEW x \in Tools, Refuse(x)
  PROVE  \E v : tool' = [tool EXCEPT ![x] = v] /\ v.phase = "failed"
<1>u. PICK u : u = [tool[x] EXCEPT !.phase = "failed"]
  OBVIOUS
<1>v. PICK v : v = [u EXCEPT !.records = <<>>]
  OBVIOUS
<1>1. tool[x] = [phase |-> tool[x].phase, checkpoint |-> tool[x].checkpoint,
                 records |-> tool[x].records]
  BY DEF StandingInv, ExportInv, ToolInv
<1>2. u = [phase |-> "failed", checkpoint |-> tool[x].checkpoint, records |-> tool[x].records]
  BY <1>1, <1>u
<1>3. v.phase = "failed"
  BY <1>2, <1>v
<1>4. tool' = [tool EXCEPT ![x] = v]
  BY <1>u, <1>v DEF Refuse
<1> QED
  BY <1>3, <1>4

\* A command that has not opened the file, or leaves it alone from now on.
LEMMA FileLeft ==
  ASSUME StandingInv, NEW x \in Tools, NEW v, tool' = [tool EXCEPT ![x] = v],
         v.phase \in {"loaded", "read", "failed"}, file' = file
  PROVE  (\A y \in Tools : Holds(y)' => Holds(y) /\ y # x) /\ FileSound' /\ FileOwned'
<1>1. tool'[x] = v /\ \A y \in Tools : y # x => tool'[y] = tool[y]
  BY DEF StandingInv, ExportInv
<1>2. ~Holds(x)'
  BY <1>1 DEF Holds
<1>3. \A y \in Tools : y # x => Holds(y)' = Holds(y) /\ At(y, "created")' = At(y, "created")
  BY <1>1 DEF Holds, At
<1>4. FileOwned'
  BY <1>1, <1>2, <1>3 DEF FileOwned, StandingInv
<1>5. FileSound'
  BY DEF FileSound, StandingInv
<1> QED
  BY <1>2, <1>3, <1>4, <1>5

\* Nothing is refused where nothing was altered.
LEMMA StillUnaltered ==
  ASSUME StandingInv, NEW x \in Tools, NEW v, tool' = [tool EXCEPT ![x] = v],
         UNCHANGED <<rows, appended, rowEdits>>,
         rowEdits = 0 => refused' = refused,
         v.phase = "read" /\ rowEdits = 0 => Exportable(v.records, v.checkpoint)
  PROVE  Unaltered'
<1>1. tool'[x] = v /\ \A y \in Tools : y # x => tool'[y] = tool[y]
  BY DEF StandingInv, ExportInv
<1>2. Unaltered
  BY DEF StandingInv
<1>3. \A i : RowKept(i)' = RowKept(i)
  BY DEF RowKept, HashAt
<1>4. \A y \in Tools : At(y, "read")' /\ rowEdits = 0 => Exportable(tool'[y].records, tool'[y].checkpoint)
  <2>1. \A y \in Tools : At(y, "read") /\ rowEdits = 0 => Exportable(tool[y].records, tool[y].checkpoint)
    BY <1>2 DEF Unaltered
  <2> QED
    BY <1>1, <2>1 DEF At
<1> QED
  BY <1>2, <1>3, <1>4 DEF Unaltered

\* The invariant but for what no command touches.
LEMMA ExportParts ==
  ASSUME StandingInv, NEW x \in Tools, Export(x), ExportInv',
         (\A y \in Tools : HasRead(y)'), FileSound', FileOwned', Unaltered'
  PROVE  StandingInv'
<1>1. UNCHANGED <<rows, copy, edits>>
  BY DEF Export, LoadCheckpoint, RecordsThrough, CreateFile, WriteFile, CloseFile, WriteFails,
         ToolDies, dbVars, copyVars
<1>2. copy = NoCopy
  <2>1. copy = NoCopy \/ tool[x].phase \notin {"idle", "exported", "failed"}
    BY DEF Export, LoadCheckpoint, RecordsThrough, CreateFile, WriteFile, CloseFile, WriteFails,
           ToolDies, At
  <2> QED
    BY <2>1 DEF StandingInv, CopyFollows
<1>3. CopyFollows'
  BY <1>1, <1>2 DEF StandingInv, CopyFollows
<1>4. HaveEvents(rows)'
  BY <1>1 DEF StandingInv
<1> QED
  BY <1>3, <1>4 DEF StandingInv

LEMMA LoadStands ==
  ASSUME StandingInv, NEW x \in Tools, NEW c \in checkpoints, LoadCheckpoint(x, c), ExportInv'
  PROVE  StandingInv'
<1>1. UNCHANGED <<rows, appended, rowEdits>>
  BY DEF LoadCheckpoint, dbVars
<1>l. PICK loaded : loaded = LoadedCheckpoint(c)
  OBVIOUS
<1>2. PayloadValid(loaded)
  <2>1. Len(appended) \in Nat /\ Anchored /\ IsLoaded(loaded)
    BY <1>l DEF StandingInv, ExportInv, Chained, IsLoaded
  <2> QED
    BY <2>1, LoadedVerifies
<1>3. /\ tool' = [tool EXCEPT ![x].phase = "loaded", ![x].checkpoint = loaded]
      /\ refused' = refused /\ file' = file
  BY <1>2, <1>l DEF LoadCheckpoint
<1>u. PICK u : u = [tool[x] EXCEPT !.phase = "loaded"]
  OBVIOUS
<1>v. PICK v : v = [u EXCEPT !.checkpoint = loaded]
  OBVIOUS
<1>4. tool' = [tool EXCEPT ![x] = v] /\ v.phase = "loaded"
  <2>1. tool[x] = [phase |-> tool[x].phase, checkpoint |-> tool[x].checkpoint,
                   records |-> tool[x].records]
    BY DEF StandingInv, ExportInv, ToolInv
  <2>2. u = [phase |-> "loaded", checkpoint |-> tool[x].checkpoint, records |-> tool[x].records]
    BY <1>u, <2>1
  <2>3. v.phase = "loaded"
    BY <1>v, <2>2
  <2>4. tool = [y \in Tools |-> tool[y]]
    BY DEF StandingInv, ExportInv
  <2>5. tool' = [tool EXCEPT ![x] = v]
    BY <1>3, <1>u, <1>v, <2>4
  <2> QED
    BY <2>3, <2>5
<1>5. \A y \in Tools : HasRead(y)'
  BY <1>4, OneMoves
<1>6. FileSound' /\ FileOwned'
  BY <1>3, <1>4, FileLeft
<1>7. Unaltered'
  BY <1>1, <1>3, <1>4, StillUnaltered
<1>8. Export(x)
  BY DEF Export
<1> QED
  BY <1>5, <1>6, <1>7, <1>8, ExportParts

LEMMA ReadStands ==
  ASSUME StandingInv, NEW x \in Tools, RecordsThrough(x), ExportInv'
  PROVE  StandingInv'
<1>1. UNCHANGED <<rows, appended, rowEdits>> /\ tool[x].phase = "loaded"
  BY DEF RecordsThrough, dbVars, At
<1>r. PICK c, records : c = tool[x].checkpoint /\ records = RowsThrough(c.sequence)
  OBVIOUS
<1>2. Export(x)
  BY DEF Export
<1>3. ASSUME rowEdits = 0 PROVE Exportable(records, c)
  <2>1. Chained /\ Anchored /\ IsRecords(rows) /\ HaveEvents(rows)
    BY DEF StandingInv, ExportInv
  <2>2. Len(rows) = Len(appended) /\ \A i \in 1..Len(rows) : RowKept(i)
    BY <1>3 DEF StandingInv, Unaltered
  <2>3. IsLoaded(c)
    BY <1>1, <1>r DEF StandingInv, ExportInv, ToolInv
  <2> QED
    BY <1>r, <2>1, <2>2, <2>3, KeptExportable
<1>4. CASE Refuse(x) /\ ~(VerifyChain(records) = 0 /\ records # <<>> /\ Last(records).sequence = c.sequence)
  <2>1. rowEdits # 0
    BY <1>3, <1>4 DEF Exportable
  <2>v. PICK v : tool' = [tool EXCEPT ![x] = v] /\ v.phase = "failed"
    BY <1>4, RefusedTo
  <2>2. \A y \in Tools : HasRead(y)'
    BY <2>v, OneMoves
  <2>3. FileSound' /\ FileOwned'
    BY <1>4, <2>v, FileLeft DEF Refuse
  <2>4. Unaltered'
    BY <1>1, <2>1, <2>v, StillUnaltered
  <2> QED
    BY <1>2, <2>2, <2>3, <2>4, ExportParts
<1>5. CASE /\ tool' = [tool EXCEPT ![x].phase = "read", ![x].records = records]
           /\ UNCHANGED <<refused, file>>
  <2>u. PICK u : u = [tool[x] EXCEPT !.phase = "read"]
    OBVIOUS
  <2>v. PICK v : v = [u EXCEPT !.records = records]
    OBVIOUS
  <2>1. /\ tool' = [tool EXCEPT ![x] = v] /\ v.phase = "read"
        /\ v.records = records /\ v.checkpoint = c
    <3>1. tool[x] = [phase |-> tool[x].phase, checkpoint |-> c, records |-> tool[x].records]
      BY <1>r DEF StandingInv, ExportInv, ToolInv
    <3>2. u = [phase |-> "read", checkpoint |-> c, records |-> tool[x].records]
      BY <2>u, <3>1
    <3>3. v.phase = "read" /\ v.records = records /\ v.checkpoint = c
      BY <2>v, <3>2
    <3>4. tool = [y \in Tools |-> tool[y]]
      BY DEF StandingInv, ExportInv
    <3>5. tool' = [tool EXCEPT ![x] = v]
      BY <1>5, <2>u, <2>v, <3>4
    <3> QED
      BY <3>3, <3>5
  <2>2. IsRecords(records) /\ HaveEvents(records)
    BY <1>r, RowsRead DEF StandingInv, ExportInv
  <2>3. \A y \in Tools : HasRead(y)'
    BY <2>1, <2>2, OneMoves
  <2>4. FileSound' /\ FileOwned'
    BY <1>5, <2>1, FileLeft
  <2>5. Unaltered'
    BY <1>1, <1>3, <1>5, <2>1, StillUnaltered
  <2> QED
    BY <1>2, <2>3, <2>4, <2>5, ExportParts
<1> QED
  BY <1>4, <1>5, <1>r DEF RecordsThrough

LEMMA CreateStands ==
  ASSUME StandingInv, NEW x \in Tools, CreateFile(x), ExportInv'
  PROVE  StandingInv'
<1>1. UNCHANGED <<rows, appended, rowEdits>> /\ tool[x].phase = "read"
  BY DEF CreateFile, dbVars, At
<1>r. PICK c, records : c = tool[x].checkpoint /\ records = tool[x].records
  OBVIOUS
<1>2. Export(x)
  BY DEF Export
<1>3. rowEdits = 0 => Exportable(records, c)
  BY <1>1, <1>r DEF StandingInv, Unaltered, At
<1>4. IsRecords(records) /\ HaveEvents(records)
  BY <1>1, <1>r DEF StandingInv, HasRead
<1>5. CASE Refuse(x) /\ ~Exportable(records, c)
  <2>v. PICK v : tool' = [tool EXCEPT ![x] = v] /\ v.phase = "failed"
    BY <1>5, RefusedTo
  <2>1. \A y \in Tools : HasRead(y)'
    BY <2>v, OneMoves
  <2>2. FileSound' /\ FileOwned'
    BY <1>5, <2>v, FileLeft DEF Refuse
  <2>3. Unaltered'
    BY <1>1, <1>3, <1>5, <2>v, StillUnaltered
  <2> QED
    BY <1>2, <2>1, <2>2, <2>3, ExportParts
<1>6. CASE tool' = [tool EXCEPT ![x].phase = "failed"] /\ UNCHANGED <<refused, file>>
  <2>v. PICK v : /\ tool' = [tool EXCEPT ![x] = v] /\ v.phase = "failed"
                 /\ v.checkpoint = tool[x].checkpoint /\ v.records = tool[x].records
    BY <1>6, ToFailed
  <2>1. \A y \in Tools : HasRead(y)'
    BY <2>v, OneMoves
  <2>2. FileSound' /\ FileOwned'
    BY <1>6, <2>v, FileLeft
  <2>3. Unaltered'
    BY <1>1, <1>6, <2>v, StillUnaltered
  <2> QED
    BY <1>2, <2>1, <2>2, <2>3, ExportParts
<1>7. CASE /\ Exportable(records, c) /\ ~file.there
           /\ tool' = [tool EXCEPT ![x].phase = "created"]
           /\ file' = [there |-> TRUE, whole |-> FALSE, content |-> MarshalExport(records, c)]
           /\ refused' = refused
  <2>p. PICK phase : phase = "created"
    OBVIOUS
  <2>t. tool' = [tool EXCEPT ![x].phase = phase]
    BY <1>7, <2>p
  <2>u. PICK v : /\ tool' = [tool EXCEPT ![x] = v] /\ v.phase = phase
                 /\ v.checkpoint = tool[x].checkpoint /\ v.records = tool[x].records
    BY <2>t, PhaseTo
  <2>v. /\ tool' = [tool EXCEPT ![x] = v] /\ v.phase = "created"
        /\ v.checkpoint = tool[x].checkpoint /\ v.records = tool[x].records
    BY <2>p, <2>u
  <2>1. \A y \in Tools : HasRead(y)'
    BY <1>4, <1>r, <2>v, OneMoves
  <2>2. Unaltered'
    BY <1>1, <1>7, <2>v, StillUnaltered
  <2>m. PICK m : m = MarshalExport(records, c)
    OBVIOUS
  <2>3. file'.there /\ file'.content = m
    BY <1>7, <2>m
  <2>4. m.checkpoint = c /\ Sound(m.records, c)
    <3>1. Anchored /\ Len(appended) \in Nat
      BY DEF StandingInv, ExportInv, Chained
    <3>2. IsLoaded(c)
      BY <1>1, <1>r DEF StandingInv, ExportInv, ToolInv
    <3> QED
      BY <1>4, <1>7, <2>m, <3>1, <3>2, ExportSound
  <2>5. FileSound'
    BY <2>3, <2>4 DEF FileSound
  <2>6. file' # NoFile
    BY <2>3 DEF NoFile
  <2>7. \A y \in Tools : ~Holds(y)
    <3>1. file = NoFile
      BY <1>7 DEF StandingInv, FileSound
    <3> QED
      BY <3>1 DEF StandingInv, FileOwned
  <2>8. tool'[x] = v /\ \A y \in Tools : y # x => tool'[y] = tool[y]
    BY <1>4, <1>r, <2>v, OneMoves
  <2>9. \A y \in Tools : Holds(y)' => y = x
    BY <2>7, <2>8 DEF Holds
  <2>10. FileOwned'
    <3>1. file'.content = MarshalExport(tool'[x].records, tool'[x].checkpoint)
      BY <1>r, <2>3, <2>8, <2>m, <2>v
    <3>2. At(x, "created")'
      BY <2>8, <2>v DEF At
    <3> QED
      BY <2>6, <2>9, <3>1, <3>2 DEF FileOwned
  <2> QED
    BY <1>2, <2>1, <2>2, <2>5, <2>10, ExportParts
<1> QED
  BY <1>5, <1>6, <1>7, <1>r DEF CreateFile, PathExists

\* A command that has the file moves on with it.
LEMMA HolderMoved ==
  ASSUME StandingInv, NEW x \in Tools, Holds(x), NEW phase \in {"written", "exported", "failed"},
         tool' = [tool EXCEPT ![x].phase = phase],
         \/ file' = NoFile
         \/ file'.there = file.there /\ file'.content = file.content,
         phase # "failed" => file'.there = file.there /\ file'.whole,
         UNCHANGED <<rows, appended, rowEdits, refused>>
  PROVE  (\A y \in Tools : HasRead(y)') /\ FileSound' /\ FileOwned' /\ Unaltered'
<1>v. PICK v : /\ tool' = [tool EXCEPT ![x] = v] /\ v.phase = phase
               /\ v.checkpoint = tool[x].checkpoint /\ v.records = tool[x].records
  BY PhaseTo
<1>1. IsRecords(v.records) /\ HaveEvents(v.records)
  BY <1>v DEF StandingInv, HasRead
<1>2. /\ tool'[x] = v /\ \A y \in Tools : y # x => tool'[y] = tool[y]
      /\ \A y \in Tools : HasRead(y)'
  BY <1>1, <1>v, OneMoves
<1>3. Unaltered'
  BY <1>v, StillUnaltered
<1>4. /\ file # NoFile /\ file.there
      /\ file.content = MarshalExport(tool[x].records, tool[x].checkpoint)
      /\ Sound(file.content.records, file.content.checkpoint)
      /\ \A y \in Tools : Holds(y) => y = x
  BY DEF StandingInv, FileOwned, FileSound
<1>5. FileSound'
  BY <1>4 DEF FileSound
<1>6. \A y \in Tools : Holds(y)' => y = x
  BY <1>2, <1>4 DEF Holds
<1>7. FileOwned'
  <2>1. CASE phase = "failed"
    <3>1. ~Holds(x)'
      BY <1>2, <1>v, <2>1 DEF Holds
    <3> QED
      BY <1>6, <3>1 DEF FileOwned
  <2>2. CASE phase # "failed"
    <3>1. file'.there /\ file'.whole
      BY <1>4, <2>2, Zenon
    <3>2. file'.content = MarshalExport(tool'[x].records, tool'[x].checkpoint)
      <4>1. file' # NoFile
        BY <3>1 DEF NoFile
      <4> QED
        BY <1>2, <1>4, <1>v, <4>1
    <3>3. file' # NoFile
      BY <3>1 DEF NoFile
    <3> QED
      BY <1>6, <3>1, <3>2, <3>3 DEF FileOwned
  <2> QED
    BY <2>1, <2>2
<1> QED
  BY <1>2, <1>3, <1>5, <1>7

LEMMA HolderStands ==
  ASSUME StandingInv, NEW x \in Tools, ExportInv',
         WriteFile(x) \/ CloseFile(x) \/ WriteFails(x) \/ ToolDies(x)
  PROVE  StandingInv'
<1>1. UNCHANGED <<rows, appended, rowEdits, refused>>
  BY DEF WriteFile, CloseFile, WriteFails, ToolDies, dbVars
<1>2. Export(x)
  BY DEF Export
<1>3. Holds(x) => /\ file.there /\ file # NoFile /\ (tool[x].phase # "created" => file.whole)
                  /\ file = [there |-> file.there, whole |-> file.whole, content |-> file.content]
  BY DEF StandingInv, FileOwned, FileSound, At, ExportInv, FileInv
<1>4. ASSUME Holds(x), NEW w
      PROVE  LET f == [file EXCEPT !.whole = w]
             IN f.there = file.there /\ f.content = file.content /\ f.whole = w
  BY <1>3, <1>4
<1>5. CASE WriteFile(x)
  <2>1. Holds(x) /\ tool' = [tool EXCEPT ![x].phase = "written"]
    BY <1>5 DEF WriteFile, At, Holds
  <2>2. file'.there = file.there /\ file'.content = file.content /\ file'.whole
    BY <1>4, <1>5, <2>1 DEF WriteFile
  <2> QED
    BY <1>1, <1>2, <2>1, <2>2, HolderMoved, ExportParts
<1>6. CASE CloseFile(x)
  <2>1. Holds(x) /\ tool' = [tool EXCEPT ![x].phase = "exported"] /\ tool[x].phase = "written"
    BY <1>6 DEF CloseFile, At, Holds
  <2>2. file'.there = file.there /\ file'.content = file.content /\ file'.whole
    BY <1>3, <1>6, <2>1 DEF CloseFile
  <2> QED
    BY <1>1, <1>2, <2>1, <2>2, HolderMoved, ExportParts
<1>7. CASE WriteFails(x)
  <2>1. Holds(x) /\ tool' = [tool EXCEPT ![x].phase = "failed"] /\ file' = NoFile
    BY <1>7 DEF WriteFails, At, Holds
  <2> QED
    BY <1>1, <1>2, <2>1, HolderMoved, ExportParts
<1>8. CASE ToolDies(x)
  <2>1. tool' = [tool EXCEPT ![x].phase = "failed"]
    BY <1>8 DEF ToolDies
  <2>2. CASE Holds(x)
    <3>1. file'.there = file.there /\ file'.content = file.content
      BY <1>4, <1>8, <2>2 DEF ToolDies
    <3> QED
      BY <1>1, <1>2, <2>1, <2>2, <3>1, HolderMoved, ExportParts
  <2>3. CASE ~Holds(x)
    <3>1. file' = file
      BY <1>8, <2>3 DEF ToolDies, At, Holds
    <3>v. PICK v : /\ tool' = [tool EXCEPT ![x] = v] /\ v.phase = "failed"
                   /\ v.checkpoint = tool[x].checkpoint /\ v.records = tool[x].records
      BY <2>1, ToFailed
    <3>2. \A y \in Tools : HasRead(y)'
      BY <3>v, OneMoves
    <3>3. FileSound' /\ FileOwned'
      BY <3>1, <3>v, FileLeft
    <3>4. Unaltered'
      BY <1>1, <3>v, StillUnaltered
    <3> QED
      BY <1>2, <3>2, <3>3, <3>4, ExportParts
  <2> QED
    BY <2>2, <2>3
<1> QED
  BY <1>5, <1>6, <1>7, <1>8

LEMMA NextStands ==
  ASSUME StandingInv, [Next]_vars
  PROVE  StandingInv'
<1>0. ExportInv'
  BY NextInv DEF StandingInv
<1>1. CASE UNCHANGED vars
  <2>1. UNCHANGED <<appended, rows, refused, tool, file, copy, edits, rowEdits>>
    BY <1>1 DEF vars
  <2>2. HaveEvents(rows)'
    BY <2>1 DEF StandingInv
  <2> QED
    BY <1>0, <2>1, <2>2, FilesKept, FollowingKept, RowsKept DEF StandingInv
<1>2. CASE Len(appended) < Len(Inputs) /\ \E input \in Inputs[Len(appended) + 1] : Record(input)
  BY <1>0, <1>2, RecordStands
<1>3. CASE \E rest \in 0..1 : Checkpoint([rest |-> rest, zone |-> "local"])
  BY <1>0, <1>3, CheckpointStands
<1>4. CASE \E x \in Tools : Export(x)
  BY <1>0, <1>4, LoadStands, ReadStands, CreateStands, HolderStands DEF Export
<1>5. CASE AlterRows
  BY <1>0, <1>5, AlterRowsStands
<1>6. CASE TakeCopy
  BY <1>0, <1>6, TakeCopyStands
<1>7. CASE AlterCopy
  BY <1>0, <1>7, AlterCopyStands
<1> QED
  BY <1>1, <1>2, <1>3, <1>4, <1>5, <1>6, <1>7 DEF Next

\* The invariant of what stands: the file is owned by the one command that made it
\* and verifies, unaltered rows are the events that were appended, and the copy is the
\* file until it is altered.
THEOREM StandingInvariant == Spec => []StandingInv
<1>1. Init => StandingInv
  BY InitStands
<1>2. StandingInv /\ [Next]_vars => StandingInv'
  BY NextStands
<1> QED
  BY <1>1, <1>2, PTL DEF Spec

\* A run of runExport that has reported success has left an export, whole, at the
\* output path, and VerifyExport accepts it, whatever other runs with that path did.
THEOREM ReportedExportsAlwaysStand == Spec => []ReportedExportsStand
<1>1. StandingInv => ReportedExportsStand
  <2> SUFFICES ASSUME StandingInv, NEW x \in Tools, At(x, "exported")
               PROVE  /\ file.there /\ file.whole
                      /\ file.content = MarshalExport(tool[x].records, tool[x].checkpoint)
                      /\ VerifyExport([whole |-> TRUE, records |-> file.content.records,
                                       checkpoint |-> file.content.checkpoint]).what = "valid"
    BY DEF ReportedExportsStand
  <2>1. /\ file # NoFile /\ file.whole
        /\ file.content = MarshalExport(tool[x].records, tool[x].checkpoint)
    BY DEF StandingInv, FileOwned, Holds, At
  <2>2. file.there /\ Sound(file.content.records, file.content.checkpoint)
    BY <2>1 DEF StandingInv, FileSound
  <2>e. PICK e : e = [whole |-> TRUE, records |-> file.content.records,
                      checkpoint |-> file.content.checkpoint]
    OBVIOUS
  <2>3. e.whole /\ Sound(e.records, e.checkpoint)
    BY <2>2, <2>e
  <2>4. VerifyExport(e).what = "valid"
    BY <2>3, SoundVerifies DEF Verdict
  <2> QED
    BY <2>1, <2>2, <2>4, <2>e
<1> QED
  BY <1>1, StandingInvariant, PTL

\* No event that the handler builds is refused by Append, no checkpoint of the head is
\* one that cannot be signed or loaded, and no export of unaltered rows is refused.
THEOREM NothingEverRefused == Spec => []NothingRefused
<1>1. StandingInv => NothingRefused
  BY DEF StandingInv, Unaltered, NothingRefused
<1> QED
  BY <1>1, StandingInvariant, PTL

-----------------------------------------------------------------------------
(***************************************************************************)
(* One alteration is located.                                              *)
(***************************************************************************)

Located(original, x) ==
  VerifyExport(x) =
    IF x.records = <<>> THEN Verdict("invalid", 0)
    ELSE Verdict("chain", Min(AffectedSequences(original, x.records) \cup {Len(original) + 1}))

\* The failure that is reported is that of the first bad record.
LEMMA FirstOfBad ==
  ASSUME NEW records, NEW bad \in SUBSET (Nat \ {0}), NEW b \in bad, \A k \in bad : b <= k
  PROVE  FirstFailure(records, bad) = Affected(records[b].sequence, b)
<1>1. Min(bad) \in bad /\ \A k \in bad : Min(bad) <= k
  BY MinIsLeast
<1>m. PICK m \in Nat : m = Min(bad)
  BY <1>1
<1>2. m <= b /\ b <= m /\ b \in Nat
  BY <1>1, <1>m
<1>3. Min(bad) = b
  BY <1>2, <1>m
<1> QED
  BY <1>3 DEF FirstFailure

\* A record that cannot be read is reported before anything else about records.
LEMMA UnreadableFound ==
  ASSUME NEW x, x.whole, PayloadValid(x.checkpoint), VerifyCheckpoint(x.checkpoint),
         NEW t, t = x.records, Len(t) \in Nat, NEW b \in 1..Len(t), ~RecordReadable(t, b),
         \A k \in 1..(b - 1) : RecordReadable(t, k),
         NEW f, f = Affected(t[b].sequence, b), f # 0
  PROVE  VerifyExport(x) = Verdict("chain", f)
<1>n. PICK n \in Nat : n = Len(t)
  OBVIOUS
<1>s. PICK bad : bad = {i \in 1..n : ~RecordReadable(t, i)}
  OBVIOUS
<1>1. bad \in SUBSET (Nat \ {0}) /\ b \in bad
  BY <1>n, <1>s
<1>2. ASSUME NEW k \in bad PROVE b <= k
  <2>1. k \in 1..n /\ k \notin 1..(b - 1)
    BY <1>s
  <2> QED
    BY <1>n, <2>1
<1>3. FirstUnreadable(t) = f
  <2>1. FirstFailure(t, bad) = f
    BY <1>1, <1>2, FirstOfBad
  <2> QED
    BY <1>n, <1>s, <2>1 DEF FirstUnreadable
<1>4. x.records # <<>>
  BY <1>n
<1> QED
  BY <1>3, <1>4 DEF VerifyExport

\* One that can be read, but is not the one that was linked, is reported next.
LEMMA UnlinkedFound ==
  ASSUME NEW x, x.whole, PayloadValid(x.checkpoint), VerifyCheckpoint(x.checkpoint),
         NEW t, t = x.records, Len(t) \in Nat, NEW b \in 1..Len(t), ~LinkVerifies(t, b),
         \A k \in 1..Len(t) : RecordReadable(t, k), \A k \in 1..(b - 1) : LinkVerifies(t, k),
         NEW f, f = Affected(t[b].sequence, b), f # 0
  PROVE  VerifyExport(x) = Verdict("chain", f)
<1>n. PICK n \in Nat : n = Len(t)
  OBVIOUS
<1>s. PICK bad : bad = {i \in 1..n : ~LinkVerifies(t, i)}
  OBVIOUS
<1>1. bad \in SUBSET (Nat \ {0}) /\ b \in bad
  BY <1>n, <1>s
<1>2. ASSUME NEW k \in bad PROVE b <= k
  <2>1. k \in 1..n /\ k \notin 1..(b - 1)
    BY <1>s
  <2> QED
    BY <1>n, <2>1
<1>3. VerifyChain(t) = f
  <2>1. FirstFailure(t, bad) = f
    BY <1>1, <1>2, FirstOfBad
  <2> QED
    BY <1>n, <1>s, <2>1 DEF VerifyChain
<1>4. FirstUnreadable(t) = 0
  <2>1. {i \in 1..Len(t) : ~RecordReadable(t, i)} = {}
    OBVIOUS
  <2> QED
    BY <2>1 DEF FirstUnreadable, FirstFailure
<1>5. x.records # <<>>
  BY <1>n
<1> QED
  BY <1>3, <1>4, <1>5 DEF VerifyExport

\* A sequence of the original that its own record claims, and no other.
LEMMA Unaffected ==
  ASSUME NEW original, NEW t, NEW s \in 1..Len(t), t[s] = original[s],
         \A k \in 1..Len(t) : t[k].sequence = s <=> k = s
  PROVE  s \notin AffectedSequences(original, t)
<1>1. {k \in 1..Len(t) : t[k].sequence = s} = {s}
  OBVIOUS
<1> QED
  BY <1>1 DEF AffectedSequences

\* What it takes for an alteration to be located.
LEMMA FoundAt ==
  ASSUME NEW original, NEW n \in Nat, n = Len(original), NEW x, x.records # <<>>,
         NEW f \in 1..n, VerifyExport(x) = Verdict("chain", f),
         f \in AffectedSequences(original, x.records),
         \A s \in 1..(f - 1) : s \notin AffectedSequences(original, x.records)
  PROVE  Located(original, x)
<1>t. PICK T : T = AffectedSequences(original, x.records) \cup {n + 1}
  OBVIOUS
<1>1. T \in SUBSET Nat /\ f \in T
  BY <1>t DEF AffectedSequences
<1>2. ASSUME NEW k \in T PROVE f <= k
  <2>1. k \in 1..(n + 1) /\ k \notin 1..(f - 1)
    BY <1>t, <1>2 DEF AffectedSequences
  <2> QED
    BY <2>1
<1>3. Min(T) = f
  <2>1. Min(T) \in T /\ \A k \in T : Min(T) <= k
    BY <1>1, MinIsLeast
  <2>m. PICK m \in Nat : m = Min(T)
    BY <1>1, <2>1
  <2>2. m <= f /\ f <= m
    BY <1>1, <1>2, <2>1, <2>m
  <2> QED
    BY <2>2, <2>m
<1> QED
  BY <1>3, <1>t DEF Located

\* Records of an export that verifies, by name.
LEMMA SoundParts ==
  ASSUME NEW original, NEW c, Sound(original, c), NEW n, n = Len(original)
  PROVE  /\ n \in Nat \ {0} /\ PayloadValid(c) /\ VerifyCheckpoint(c) /\ c.sequence = n
         /\ \A k \in 1..n : /\ original[k].sequence = k /\ RecordReadable(original, k)
                            /\ LinkVerifies(original, k)
                            /\ original[k].event_hash = <<original[k].event>>
BY SoundRecord DEF Sound

LEMMA ModifiedLocated ==
  ASSUME NEW original, IsRecords(original), NEW x, x.whole, Sound(original, x.checkpoint),
         x.records \in Modified(original)
  PROVE  Located(original, x)
<1>n. PICK n, t : n = Len(original) /\ t = x.records
  OBVIOUS
<1>1. /\ n \in Nat \ {0} /\ PayloadValid(x.checkpoint) /\ VerifyCheckpoint(x.checkpoint)
      /\ \A k \in 1..n : /\ original[k].sequence = k /\ RecordReadable(original, k)
                         /\ LinkVerifies(original, k)
                         /\ original[k].event_hash = <<original[k].event>>
  BY <1>n, SoundParts
<1>i. PICK i \in 1..n : \E e \in Variants(original[i].event) :
        /\ Len(t) = n
        /\ t[i] = [sequence |-> original[i].sequence, event |-> e, event_hash |-> original[i].event_hash]
        /\ \A k \in 1..n : k # i => t[k] = original[k]
  <2>1. t \in Modified(original)
    BY <1>n
  <2>2. \E i \in 1..Len(original) : \E e \in Variants(original[i].event) :
           /\ Len(t) = Len(original)
           /\ t[i] = [sequence |-> original[i].sequence, event |-> e,
                      event_hash |-> original[i].event_hash]
           /\ \A k \in 1..Len(original) : k # i => t[k] = original[k]
    BY <2>1, ModifiedAt
  <2> QED
    BY <1>n, <2>2, Zenon
<1>2. PICK e \in Variants(original[i].event) :
        /\ Len(t) = n
        /\ t[i] = [sequence |-> original[i].sequence, event |-> e, event_hash |-> original[i].event_hash]
        /\ \A k \in 1..n : k # i => t[k] = original[k]
  BY <1>i, Zenon
<1>3. /\ t[i].sequence = i /\ t[i].event = e /\ t[i].event_hash = <<original[i].event>>
      /\ e # original[i].event
  BY <1>1, <1>2 DEF Variants
<1>4. \A k \in 1..n : k # i => t[k] = original[k] /\ t[k].sequence = k /\ RecordReadable(t, k)
  BY <1>1, <1>2 DEF RecordReadable
<1>5. Affected(t[i].sequence, i) = i /\ i # 0 /\ \A k \in 1..(i - 1) : k \in 1..n /\ k # i
  BY <1>1, <1>3 DEF Affected
<1>6. VerifyExport(x) = Verdict("chain", i)
  <2>1. CASE ~RecordReadable(t, i)
    <3>1. \A k \in 1..(i - 1) : RecordReadable(t, k)
      BY <1>4, <1>5
    <3>2. Len(t) \in Nat /\ i \in 1..Len(t)
      BY <1>1, <1>2
    <3>3. PayloadValid(x.checkpoint) /\ VerifyCheckpoint(x.checkpoint) /\ t = x.records
      BY <1>1, <1>n
    <3>4. i = Affected(t[i].sequence, i) /\ i # 0
      BY <1>5
    <3> QED
      BY <2>1, <3>1, <3>2, <3>3, <3>4, UnreadableFound
  <2>2. CASE RecordReadable(t, i)
    <3>1. \A k \in 1..n : RecordReadable(t, k)
      BY <1>4, <2>2
    <3>2. ~LinkVerifies(t, i)
      <4>1. Canonical(e) = e
        BY <1>3, <2>2 DEF RecordReadable, FromCanonicalJSON
      <4>2. EventHash(e) # t[i].event_hash
        BY <1>3, <4>1 DEF EventHash
      <4> QED
        BY <1>3, <4>2 DEF LinkVerifies, HashFails
    <3>3. \A k \in 1..(i - 1) : LinkVerifies(t, k)
      <4> SUFFICES ASSUME NEW k \in 1..(i - 1) PROVE LinkVerifies(t, k)
        OBVIOUS
      <4>1. k \in 1..n /\ t[k] = original[k]
        BY <1>4, <1>5
      <4>2. PreviousOf(t, k) = PreviousOf(original, k)
        <5>1. k # 1 => k - 1 \in 1..n /\ k - 1 # i
          BY <1>1, <4>1
        <5> QED
          BY <1>2, <5>1 DEF PreviousOf
      <4>3. LinkVerifies(original, k)
        BY <1>1, <4>1
      <4> QED
        BY <4>1, <4>2, <4>3 DEF LinkVerifies
    <3>4. /\ PayloadValid(x.checkpoint) /\ VerifyCheckpoint(x.checkpoint) /\ t = x.records
          /\ Len(t) \in Nat /\ i \in 1..Len(t)
      BY <1>1, <1>2, <1>n
    <3>5. i = Affected(t[i].sequence, i) /\ i # 0
      BY <1>5
    <3>6. \A k \in 1..Len(t) : RecordReadable(t, k)
      BY <1>2, <3>1
    <3> QED
      BY <3>2, <3>3, <3>4, <3>5, <3>6, UnlinkedFound
  <2> QED
    BY <2>1, <2>2
<1>7. i \in AffectedSequences(original, t)
  <2>1. t[i] # original[i]
    BY <1>3
  <2> QED
    BY <1>n, <2>1 DEF AffectedSequences
<1>8. \A s \in 1..(i - 1) : s \notin AffectedSequences(original, t)
  <2> SUFFICES ASSUME NEW s \in 1..(i - 1) PROVE s \notin AffectedSequences(original, t)
    OBVIOUS
  <2>1. s \in 1..Len(t) /\ t[s] = original[s]
    BY <1>2, <1>4, <1>5
  <2>2. \A k \in 1..Len(t) : t[k].sequence = s <=> k = s
    BY <1>2, <1>3, <1>4
  <2> QED
    BY <2>1, <2>2, Unaffected
<1>9. t # <<>>
  BY <1>1, <1>2
<1> QED
  BY <1>1, <1>6, <1>7, <1>8, <1>9, <1>n, FoundAt

LEMMA DeletedLocated ==
  ASSUME NEW original, IsRecords(original), NEW x, x.whole, Sound(original, x.checkpoint),
         x.records \in Deleted(original)
  PROVE  Located(original, x)
<1>n. PICK n, t : n = Len(original) /\ t = x.records
  OBVIOUS
<1>1. /\ n \in Nat \ {0} /\ PayloadValid(x.checkpoint) /\ VerifyCheckpoint(x.checkpoint)
      /\ x.checkpoint.sequence = n
      /\ \A k \in 1..n : /\ original[k].sequence = k /\ RecordReadable(original, k)
                         /\ LinkVerifies(original, k)
  BY <1>n, SoundParts
<1>2. PICK i \in 1..n : t = RemoveAt(original, i)
  BY <1>n DEF Deleted
<1>3. /\ Len(t) = n - 1
      /\ \A k \in 1..(n - 1) : t[k] = IF k < i THEN original[k] ELSE original[k + 1]
  <2>1. i \in 1..Len(original)
    BY <1>n
  <2>2. /\ Len(RemoveAt(original, i)) = Len(original) - 1
        /\ \A k \in 1..(Len(original) - 1) :
             RemoveAt(original, i)[k] = IF k < i THEN original[k] ELSE original[k + 1]
    BY <2>1, Removed
  <2> QED
    BY <1>2, <1>n, <2>2
<1>4. \A k \in 1..(n - 1) : k < i => k \in 1..n /\ t[k] = original[k] /\ t[k].sequence = k
  BY <1>1, <1>3
<1>5. \A k \in 1..(n - 1) : ~(k < i) => k + 1 \in 1..n /\ t[k] = original[k + 1] /\ t[k].sequence = k + 1
  BY <1>1, <1>3
<1>6. CASE n = 1
  <2>1. t = <<>>
    <3>1. Len(t) = 0 /\ \E R : t \in Seq(R)
      <4>1. IsRecords(t)
        BY <1>2, <1>n, RecordRemoved
      <4> QED
        BY <1>3, <1>6, <4>1, RecordsAre
    <3> QED
      BY <3>1
  <2> QED
    BY <1>n, <2>1 DEF Located, VerifyExport
<1>7. CASE n # 1
  <2>m. PICK m \in Nat : m = n - 1
    BY <1>1
  <2>1. t # <<>> /\ Len(t) = m /\ m # 0
    BY <1>1, <1>3, <1>7, <2>m
  <2>2. \A k \in 1..m : k < i => RecordReadable(t, k) /\ LinkVerifies(t, k)
    <3> SUFFICES ASSUME NEW k \in 1..m, k < i PROVE RecordReadable(t, k) /\ LinkVerifies(t, k)
      OBVIOUS
    <3>1. k \in 1..n /\ t[k] = original[k]
      BY <1>4, <2>m
    <3>2. RecordReadable(original, k) /\ LinkVerifies(original, k)
      BY <1>1, <3>1
    <3>3. PreviousOf(t, k) = PreviousOf(original, k)
      <4>1. k # 1 => k - 1 \in 1..m /\ k - 1 < i
        OBVIOUS
      <4> QED
        BY <1>4, <2>m, <4>1 DEF PreviousOf
    <3> QED
      BY <3>1, <3>2, <3>3 DEF RecordReadable, LinkVerifies
  <2>3. VerifyExport(x) = Verdict("chain", i)
    <3>1. CASE i \in 1..m
      <4>1. t[i].sequence = i + 1
        BY <1>5, <2>m, <3>1
      <4>2. ~RecordReadable(t, i) /\ Affected(t[i].sequence, i) = i /\ i # 0
        BY <4>1 DEF RecordReadable, Affected
      <4>3. \A k \in 1..(i - 1) : RecordReadable(t, k)
        <5>1. \A k \in 1..(i - 1) : k \in 1..m /\ k < i
          BY <3>1
        <5> QED
          BY <2>2, <5>1
      <4> QED
        BY <1>1, <1>n, <2>1, <3>1, <4>2, <4>3, UnreadableFound
    <3>2. CASE i \notin 1..m
      <4>1. i = n /\ \A k \in 1..m : k < i
        BY <1>1, <2>m, <3>2
      <4>2. FirstUnreadable(t) = 0
        <5>1. {k \in 1..Len(t) : ~RecordReadable(t, k)} = {}
          BY <2>1, <2>2, <4>1
        <5> QED
          BY <5>1 DEF FirstUnreadable, FirstFailure
      <4>3. VerifyChain(t) = 0
        <5>1. {k \in 1..Len(t) : ~LinkVerifies(t, k)} = {}
          BY <2>1, <2>2, <4>1
        <5> QED
          BY <5>1 DEF VerifyChain, FirstFailure
      <4>4. CheckpointMisses(x) = n
        <5>1. Last(t).sequence = m
          <6>1. m \in 1..m /\ m < i
            BY <2>1, <4>1
          <6> QED
            BY <1>4, <2>1, <2>m, <6>1 DEF Last
        <5>2. m < n /\ ~(m > n)
          BY <1>1, <2>m
        <5> QED
          BY <1>1, <1>n, <5>1, <5>2 DEF CheckpointMisses
      <4> QED
        BY <1>1, <1>n, <2>1, <4>1, <4>2, <4>3, <4>4 DEF VerifyExport
    <3> QED
      BY <3>1, <3>2
  <2>4. i \in AffectedSequences(original, t)
    <3>1. \A k \in 1..m : t[k].sequence # i
      BY <1>4, <1>5, <2>m
    <3>2. {k \in 1..Len(t) : t[k].sequence = i} # {i}
      BY <2>1, <3>1
    <3> QED
      BY <1>n, <3>2 DEF AffectedSequences
  <2>5. \A s \in 1..(i - 1) : s \notin AffectedSequences(original, t)
    <3> SUFFICES ASSUME NEW s \in 1..(i - 1) PROVE s \notin AffectedSequences(original, t)
      OBVIOUS
    <3>1. s \in 1..m /\ s < i
      BY <1>1, <2>m
    <3>2. s \in 1..Len(t) /\ t[s] = original[s]
      BY <1>4, <2>1, <2>m, <3>1
    <3>3. \A k \in 1..m : t[k].sequence = s <=> k = s
      BY <1>4, <1>5, <2>m, <3>1
    <3> QED
      BY <2>1, <3>2, <3>3, Unaffected
  <2> QED
    BY <1>1, <1>n, <2>1, <2>3, <2>4, <2>5, FoundAt
<1> QED
  BY <1>6, <1>7

\* An export that verifies passes the test of the checkpoint, and its records can be
\* read, each at its place only.
LEMMA SoundReadable ==
  ASSUME NEW original, NEW x, Sound(original, x.checkpoint), NEW n, n = Len(original), NEW t
  PROVE  /\ PayloadValid(x.checkpoint) /\ VerifyCheckpoint(x.checkpoint)
         /\ \A k \in 1..n : t[k] = original[k] => RecordReadable(t, k)
         /\ \A b : t[b].sequence # b => ~RecordReadable(t, b)
<1>1. /\ PayloadValid(x.checkpoint) /\ VerifyCheckpoint(x.checkpoint)
      /\ \A k \in 1..n : RecordReadable(original, k)
  BY SoundParts
<1> QED
  BY <1>1 DEF RecordReadable

LEMMA InsertedLocated ==
  ASSUME NEW original, IsRecords(original), NEW x, x.whole, Sound(original, x.checkpoint),
         x.records \in Inserted(original)
  PROVE  Located(original, x)
<1>n. PICK n, t : n = Len(original) /\ t = x.records
  OBVIOUS
<1>1. n \in Nat \ {0} /\ \A k \in 1..n : original[k].sequence = k
  BY <1>n, SoundParts
<1>r. /\ PayloadValid(x.checkpoint) /\ VerifyCheckpoint(x.checkpoint)
      /\ \A k \in 1..n : t[k] = original[k] => RecordReadable(t, k)
      /\ \A b : t[b].sequence # b => ~RecordReadable(t, b)
  BY <1>n, SoundReadable
<1>2. PICK i \in 1..(n + 1), j \in 1..n : t = InsertAt(original, i, original[j])
  BY <1>n DEF Inserted
<1>3. /\ Len(t) = n + 1
      /\ \A k \in 1..(n + 1) :
           t[k] = IF k < i THEN original[k] ELSE IF k = i THEN original[j] ELSE original[k - 1]
  <2>1. i \in 1..(Len(original) + 1)
    BY <1>n
  <2>r. PICK r : r = original[j]
    OBVIOUS
  <2>2. /\ Len(InsertAt(original, i, r)) = Len(original) + 1
        /\ \A k \in 1..(Len(original) + 1) :
             InsertAt(original, i, r)[k]
               = IF k < i THEN original[k] ELSE IF k = i THEN r ELSE original[k - 1]
    BY <2>1, Placed
  <2> QED
    BY <1>2, <1>n, <2>2, <2>r
<1>4. \A k \in 1..(n + 1) : k < i => k \in 1..n /\ t[k] = original[k] /\ t[k].sequence = k
  BY <1>1, <1>3
<1>5. \A k \in 1..(n + 1) : k > i => k - 1 \in 1..n /\ t[k] = original[k - 1] /\ t[k].sequence = k - 1
  BY <1>1, <1>3
<1>6. t[i] = original[j] /\ t[i].sequence = j
  BY <1>1, <1>3
<1>f. PICK f \in 1..n : f <= i /\ f <= j /\ (f = i \/ f = j)
  <2>1. CASE j < i
    BY <2>1
  <2>2. CASE ~(j < i)
    <3>1. i \in 1..n /\ i <= j
      BY <1>1, <2>2
    <3> QED
      BY <3>1
  <2> QED
    BY <2>1, <2>2
<1>7. t # <<>>
  BY <1>1, <1>3
<1>8. VerifyExport(x) = Verdict("chain", f) /\ f \in AffectedSequences(original, t)
  <2>1. CASE j # i
    <3>1. f = Affected(t[i].sequence, i) /\ f # 0 /\ t[i].sequence # i
      BY <1>1, <1>6, <1>f, <2>1 DEF Affected
    <3>2. \A k \in 1..(i - 1) : k \in 1..n /\ t[k] = original[k]
      <4>1. \A k \in 1..(i - 1) : k \in 1..(n + 1) /\ k < i
        BY <1>1
      <4> QED
        BY <1>4, <4>1
    <3>3. Len(t) \in Nat /\ i \in 1..Len(t)
      BY <1>1, <1>3
    <3>a. f = Affected(t[i].sequence, i)
      BY <3>1
    <3>b. f # 0 /\ t[i].sequence # i
      BY <3>1
    <3>4. VerifyExport(x) = Verdict("chain", f)
      <4>1. ~RecordReadable(t, i) /\ \A k \in 1..(i - 1) : RecordReadable(t, k)
        BY <1>r, <3>b, <3>2
      <4>2. t = x.records /\ f # 0
        BY <1>n, <3>b
      <4> QED
        BY <1>r, <3>a, <3>3, <4>1, <4>2, UnreadableFound
    <3>5. {k \in 1..Len(t) : t[k].sequence = f} # {f}
      <4>1. CASE f = j
        BY <1>6, <2>1, <3>3, <4>1
      <4>2. CASE f = i
        BY <1>6, <2>1, <4>2
      <4> QED
        BY <1>f, <4>1, <4>2
    <3> QED
      BY <1>n, <3>4, <3>5 DEF AffectedSequences
  <2>2. CASE j = i
    <3>b. PICK b \in 1..(n + 1) : b = i + 1
      BY <1>1, <2>2
    <3>1. b - 1 = f /\ b > i /\ t[b].sequence = f
      BY <1>1, <1>5, <1>f, <2>2, <3>b
    <3>a. f = Affected(t[b].sequence, b)
      BY <1>1, <3>1 DEF Affected
    <3>2. f # 0 /\ t[b].sequence # b
      BY <1>1, <3>1
    <3>3. \A k \in 1..(b - 1) : k \in 1..n /\ t[k] = original[k]
      <4>1. \A k \in 1..(b - 1) : k \in 1..(n + 1) /\ (k < i \/ k = j)
        BY <1>1, <2>2, <3>b
      <4> QED
        BY <1>4, <1>6, <2>2, <4>1
    <3>4. Len(t) \in Nat /\ b \in 1..Len(t)
      BY <1>1, <1>3
    <3>5. VerifyExport(x) = Verdict("chain", f)
      <4>1. ~RecordReadable(t, b) /\ \A k \in 1..(b - 1) : RecordReadable(t, k)
        BY <1>r, <3>2, <3>3
      <4>2. t = x.records /\ f # 0
        BY <1>n, <3>2
      <4> QED
        BY <1>r, <3>a, <3>4, <4>1, <4>2, UnreadableFound
    <3>6. {k \in 1..Len(t) : t[k].sequence = f} # {f}
      BY <3>1, <3>2, <3>4
    <3> QED
      BY <1>n, <3>5, <3>6 DEF AffectedSequences
  <2> QED
    BY <2>1, <2>2
<1>9. \A s \in 1..(f - 1) : s \notin AffectedSequences(original, t)
  <2> SUFFICES ASSUME NEW s \in 1..(f - 1) PROVE s \notin AffectedSequences(original, t)
    OBVIOUS
  <2>1. s \in 1..(n + 1) /\ s < i /\ s < j
    BY <1>1, <1>f
  <2>2. s \in 1..Len(t) /\ t[s] = original[s] /\ t[s].sequence = s
    BY <1>3, <1>4, <2>1
  <2>3. ASSUME NEW k \in 1..(n + 1), k # s PROVE t[k].sequence # s
    <3>1. CASE k < i
      BY <1>4, <2>3, <3>1
    <3>2. CASE k = i
      BY <1>6, <2>1, <3>2
    <3>3. CASE k > i
      BY <1>5, <2>1, <3>3
    <3> QED
      BY <1>1, <3>1, <3>2, <3>3
  <2>4. \A k \in 1..Len(t) : t[k].sequence = s <=> k = s
    BY <1>3, <2>2, <2>3
  <2> QED
    BY <2>2, <2>4, Unaffected
<1> QED
  BY <1>1, <1>7, <1>8, <1>9, <1>n, <1>f, FoundAt

LEMMA SwappedLocated ==
  ASSUME NEW original, IsRecords(original), NEW x, x.whole, Sound(original, x.checkpoint),
         x.records \in Swapped(original), x.records # original
  PROVE  Located(original, x)
<1>n. PICK n, t : n = Len(original) /\ t = x.records
  OBVIOUS
<1>1. n \in Nat \ {0} /\ \A k \in 1..n : original[k].sequence = k
  BY <1>n, SoundParts
<1>r. /\ PayloadValid(x.checkpoint) /\ VerifyCheckpoint(x.checkpoint)
      /\ \A k \in 1..n : t[k] = original[k] => RecordReadable(t, k)
      /\ \A b : t[b].sequence # b => ~RecordReadable(t, b)
  BY <1>n, SoundReadable
<1> DEFINE E(i, j) == [original EXCEPT ![i] = original[j], ![j] = original[i]]
<1>s. Swapped(original) = {E(i, j) : i, j \in 1..Len(original)}
  BY DEF Swapped
<1> HIDE DEF E
<1>e. PICK i \in 1..Len(original), j \in 1..Len(original) : x.records = E(i, j)
  BY <1>s
<1>2. i \in 1..n /\ j \in 1..n /\ t = E(i, j)
  BY <1>e, <1>n
<1>3. DOMAIN original = 1..n /\ original = [k \in 1..n |-> original[k]]
  BY <1>1, <1>n, RecordsAre
<1>4. /\ t = [k \in 1..n |-> t[k]] /\ Len(t) = n
      /\ \A k \in 1..n : t[k] = IF k = j THEN original[i] ELSE IF k = i THEN original[j]
                                                               ELSE original[k]
  <2>1. /\ t = [k \in 1..n |-> t[k]]
        /\ \A k \in 1..n : t[k] = IF k = j THEN original[i] ELSE IF k = i THEN original[j]
                                                                 ELSE original[k]
    BY <1>2, <1>3 DEF E
  <2>2. Len(t) = n
    BY <1>1, <2>1
  <2> QED
    BY <2>1, <2>2
<1>5. i # j
  <2> SUFFICES ASSUME i = j PROVE FALSE
    OBVIOUS
  <2>1. \A k \in 1..n : t[k] = original[k]
    BY <1>4
  <2>2. t = original
    BY <1>3, <1>4, <2>1
  <2> QED
    BY <1>n, <2>2
<1>6. PICK p \in 1..n, q \in 1..n :
        /\ p < q /\ t[p] = original[q] /\ t[q] = original[p]
        /\ \A k \in 1..n : k # p /\ k # q => t[k] = original[k]
  <2>1. CASE i < j
    BY <1>2, <1>4, <1>5, <2>1
  <2>2. CASE j < i
    BY <1>2, <1>4, <1>5, <2>2
  <2> QED
    BY <1>1, <1>2, <1>5, <2>1, <2>2
<1>7. t[p].sequence = q /\ t[q].sequence = p
  BY <1>1, <1>6
<1>8. VerifyExport(x) = Verdict("chain", p)
  <2>1. p = Affected(t[p].sequence, p) /\ p # 0 /\ t[p].sequence # p
    BY <1>6, <1>7 DEF Affected
  <2>2. \A k \in 1..(p - 1) : k \in 1..n /\ t[k] = original[k]
    <3>1. \A k \in 1..(p - 1) : k \in 1..n /\ k # p /\ k # q
      BY <1>1, <1>6
    <3> QED
      BY <1>6, <3>1
  <2>3. Len(t) \in Nat /\ p \in 1..Len(t)
    BY <1>1, <1>4
  <2>4. p = Affected(t[p].sequence, p)
    BY <2>1
  <2>5. p # 0 /\ t[p].sequence # p
    BY <2>1
  <2> QED
    <3>1. ~RecordReadable(t, p) /\ \A k \in 1..(p - 1) : RecordReadable(t, k)
      BY <1>r, <2>2, <2>5
    <3>2. t = x.records /\ p # 0
      BY <1>n, <2>5
    <3> QED
      BY <1>r, <2>3, <2>4, <3>1, <3>2, UnreadableFound
<1>9. p \in AffectedSequences(original, t)
  <2>1. t[p] # original[p]
    BY <1>1, <1>6, <1>7
  <2> QED
    BY <1>n, <2>1 DEF AffectedSequences
<1>10. \A s \in 1..(p - 1) : s \notin AffectedSequences(original, t)
  <2> SUFFICES ASSUME NEW s \in 1..(p - 1) PROVE s \notin AffectedSequences(original, t)
    OBVIOUS
  <2>1. s \in 1..n /\ s < p /\ s < q /\ t[s] = original[s] /\ t[s].sequence = s
    BY <1>1, <1>6
  <2>2. \A k \in 1..n : t[k].sequence = s <=> k = s
    BY <1>1, <1>6, <1>7, <2>1
  <2> QED
    BY <1>4, <2>1, <2>2, Unaffected
<1>11. t # <<>>
  BY <1>1, <1>4
<1> QED
  BY <1>1, <1>8, <1>9, <1>10, <1>11, <1>n, FoundAt

\* AC-AUDIT-004: one record modified, deleted, inserted or moved in a copy makes
\* verification fail at the first sequence of the export that is affected.
THEOREM EditsAreLocated == Spec => []EditLocated
<1>1. StandingInv => EditLocated
  <2> SUFFICES ASSUME StandingInv, copy # NoCopy, file.whole,
                      edits = [count |-> 1, rehashed |-> FALSE]
               PROVE  Located(file.content.records, copy)
    BY DEF EditLocated, Located
  <2>r. PICK original : original = file.content.records
    OBVIOUS
  <2>1. edits.count = 1 /\ ~edits.rehashed
    OBVIOUS
  <2>2. /\ file # NoFile /\ copy.whole = file.whole
        /\ copy.records \in Altered(original) /\ copy.records # original
        /\ copy.checkpoint = file.content.checkpoint
    BY <2>1, <2>r DEF StandingInv, CopyFollows
  <2>3. copy.whole /\ Sound(original, copy.checkpoint) /\ IsRecords(original)
    BY <2>2, <2>r DEF StandingInv, FileSound, ExportInv, FileInv
  <2>4. Located(original, copy)
    <3>1. CASE copy.records \in Modified(original)
      BY <2>3, <3>1, ModifiedLocated
    <3>2. CASE copy.records \in Deleted(original)
      BY <2>3, <3>2, DeletedLocated
    <3>3. CASE copy.records \in Inserted(original)
      BY <2>3, <3>3, InsertedLocated
    <3>4. CASE copy.records \in Swapped(original)
      BY <2>2, <2>3, <3>4, SwappedLocated
    <3> QED
      BY <2>2, <3>1, <3>2, <3>3, <3>4 DEF Altered
  <2> QED
    BY <2>4, <2>r
<1> QED
  BY <1>1, StandingInvariant, PTL
=============================================================================
