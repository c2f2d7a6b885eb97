---------------------------- MODULE AuditExport -----------------------------
(***************************************************************************)
(* From the audit table to a verified export: events are appended and      *)
(* checkpoints signed (atomically here, module AuditChain has the steps),  *)
(* "agentboxctl export" writes the chain through a checkpoint to a file,   *)
(* and "agentboxctl verify" judges a copy of it with the public key only.  *)
(* Rows of the table and records of a copy may be altered behind the       *)
(* system's back: that an alteration shows is what export is for.          *)
(*                                                                         *)
(* Hashes and signatures are symbolic: a hash is what it is the hash of, a *)
(* signature the key and the payload it was made from.                     *)
(***************************************************************************)
EXTENDS Event

CONSTANTS
  Inputs,       \* the requests whose events may be recorded first, second, ...
  Tools,        \* runs of agentboxctl export, all with the same output path
  MaxEdits,     \* bound on the alterations of a copy, the table's counted in
  MaxRowEdits,  \* bound on the alterations of the table
  SigningKey, OtherKey

ASSUME KeysAssumption == SigningKey # OtherKey

\* What a handler makes an event of: one of the four kinds, a principal that has
\* passed Principal.Validate, amounts of the ledger, codes that are constants of the
\* code and the numbers of matches of the detector's rules.
ASSUME InputsAssumption ==
  /\ Len(Inputs) \in Nat
  /\ \A k \in 1..Len(Inputs) : \A input \in Inputs[k] :
       /\ input.type \in {"denied", "started", "completed", "failed"}
       /\ \/ input.principal.method = "oidc" /\ NonZero(input.principal.issuer)
          \/ input.principal.method = "api_key"
       /\ input.reason \in Nat \ {0} /\ input.code \in Nat \ {0}
       /\ input.reserve \in Nat /\ input.charge \in Nat
       /\ input.hits \in Seq(Nat)
       /\ input.clock \in [rest : Nat, zone : STRING]

VARIABLES
  appended,     \* history: the events of the chain as they were hashed
  rows,         \* table audit_events, by sequence
  head,         \* row audit_chain_head
  checkpoints,  \* table audit_checkpoints
  refused,      \* whether an event, checkpoint or export was refused as invalid
  tool,         \* each export: its phase, checkpoint and records
  file,         \* the file at the output path
  copy,         \* a copy of it, once one is taken
  edits,        \* alterations of the copy: how many, were hashes recomputed
  rowEdits      \* alterations of the table

vars == <<appended, rows, head, checkpoints, refused, tool, file, copy, edits, rowEdits>>
dbVars == <<appended, rows, head, checkpoints, rowEdits>>
copyVars == <<copy, edits>>

NoCheckpoint == [sequence |-> 0]
NoFile == [there |-> FALSE]
NoCopy == [taken |-> FALSE]

Init ==
  /\ appended = <<>> /\ rows = <<>>
  /\ head = [sequence |-> 0, event_hash |-> ZeroDigest]
  /\ checkpoints = {}
  /\ refused = FALSE
  /\ tool = [x \in Tools |-> [phase |-> "idle", checkpoint |-> NoCheckpoint, records |-> <<>>]]
  /\ file = NoFile
  /\ copy = NoCopy
  /\ edits = [count |-> 0, rehashed |-> FALSE]
  /\ rowEdits = 0

-----------------------------------------------------------------------------
(***************************************************************************)
(* The chain and its checkpoints.                                          *)
(***************************************************************************)

\* The event the handler makes of a request.
EventOf(input, id) ==
  CASE input.type = "denied" ->
         DeniedEvent(id, input.principal, input.reason, input.hits, input.clock)
    [] input.type = "started" ->
         StartedEvent(id, input.principal, input.reason, input.hits, input.reserve, input.clock)
    [] input.type = "completed" ->
         CompletedEvent(id, input.principal, input.reason, input.hits,
                        input.reserve, input.charge, input.clock)
    [] input.type = "failed" ->
         FailedEvent(id, input.principal, input.reason, input.hits,
                     input.reserve, input.charge, input.code, input.clock)

Linked(e) == [e EXCEPT !.previous = head.event_hash]

\* Repository.Append: validate, link, hash, insert; or ErrAppend.
Record(input) ==
  LET built == EventOf(input, Len(appended) + 1)
      e == Linked(built)
  IN
  /\ copy = NoCopy
  /\ IF Buildable(input.principal) /\ Validate(built)
     THEN /\ rows' = Append(rows, [sequence |-> head.sequence + 1,
                                   event |-> appendArguments(e), event_hash |-> EventHash(e)])
          /\ head' = [sequence |-> head.sequence + 1, event_hash |-> EventHash(e)]
          /\ appended' = Append(appended, Canonical(e))
          /\ UNCHANGED refused
     ELSE refused' = TRUE /\ UNCHANGED <<appended, rows, head>>
  /\ UNCHANGED <<checkpoints, tool, file, copyVars, rowEdits>>

\* canonicalCheckpointPayload: what is signed, where it is well formed.
PayloadValid(c) == /\ c.sequence > 0 /\ NonZero(c.head)
                   /\ c.at.zone = "utc" /\ c.at.rest = 0
Payload(c) == [sequence |-> c.sequence, head |-> c.head, key |-> c.key, at |-> c.at]

Sign(key, c) == [key |-> key, payload |-> Payload(c)]

\* CreateCheckpoint of the head, signed with the operator's key.
CreateCheckpoint(h, clock) ==
  LET c == [sequence |-> h.sequence, head |-> h.event_hash, key |-> SigningKey,
            at |-> Truncate(UTC(clock))]
  IN [sequence |-> c.sequence, head |-> c.head, key |-> c.key, at |-> c.at,
      signature |-> Sign(SigningKey, c)]

\* Checkpoints anchor a row that is there, one for each sequence.
Storable(c) ==
  /\ \E i \in 1..Len(rows) : /\ rows[i].sequence = c.sequence
                             /\ rows[i].event_hash = c.head
  /\ \A d \in checkpoints : d.sequence # c.sequence

\* agentboxctl checkpoint: read the head, sign it, store the checkpoint.
Checkpoint(clock) ==
  LET c == CreateCheckpoint(head, clock) IN
  /\ copy = NoCopy /\ head.sequence > 0
  /\ IF PayloadValid(c)
     THEN /\ Storable(c)
          /\ checkpoints' = checkpoints \cup {[c EXCEPT !.at.zone = "db"]}
          /\ UNCHANGED refused
     ELSE refused' = TRUE /\ UNCHANGED checkpoints
  /\ UNCHANGED <<appended, rows, head, tool, file, copyVars, rowEdits>>

\* LoadCheckpoint: the driver's local instant is taken to UTC.
LoadedCheckpoint(c) == [c EXCEPT !.at = UTC([@ EXCEPT !.zone = "local"])]

-----------------------------------------------------------------------------
(***************************************************************************)
(* Verification of a chain.                                                *)
(***************************************************************************)

\* The hash record i has to be linked to.
PreviousOf(records, i) == IF i = 1 THEN ZeroDigest ELSE records[i-1].event_hash

\* One round of VerifyChain's loop.
LinkVerifies(records, i) ==
  /\ records[i].sequence = i
  /\ records[i].event.previous = PreviousOf(records, i)
  /\ ~HashFails(records[i].event, records[i].event_hash)

\* Mutant: the place is reported, whatever record is found there.
AffectedPlace(sequence, i) == i

\* The sequence reported for a record found where sequence i was expected.
Affected(sequence, i) == IF sequence < i /\ sequence > 0 THEN sequence ELSE i

\* The sequence of the first of the bad records, 0 if there is none.
FirstFailure(records, bad) ==
  IF bad = {} THEN 0 ELSE Affected(records[Min(bad)].sequence, Min(bad))

VerifyChain(records) ==
  FirstFailure(records, {i \in 1..Len(records) : ~LinkVerifies(records, i)})

-----------------------------------------------------------------------------
(***************************************************************************)
(* agentboxctl export.                                                     *)
(***************************************************************************)

\* A record as the export writes it.
ExportRecord(r) ==
  [sequence |-> r.sequence, event |-> Canonical(r.event), event_hash |-> r.event_hash]

\* MarshalExport's tests of what it is about to write.
Exportable(records, c) ==
  /\ records # <<>> /\ VerifyChain(records) = 0
  /\ Last(records).sequence = c.sequence
  /\ Last(records).event_hash = c.head
  /\ PayloadValid(c)

MarshalExport(records, c) ==
  [records |-> [i \in 1..Len(records) |-> ExportRecord(records[i])], checkpoint |-> c]

At(x, phase) == tool[x].phase = phase

\* The command ends with an error, refusing what it has read.
Refuse(x) ==
  /\ tool' = [tool EXCEPT ![x] = [@ EXCEPT !.phase = "failed", !.records = <<>>]]
  /\ refused' = TRUE
  /\ UNCHANGED file

\* LoadCheckpoint of the sequence the operator asks for.
LoadCheckpoint(x, c) ==
  LET loaded == LoadedCheckpoint(c) IN
  /\ At(x, "idle") /\ copy = NoCopy
  /\ IF PayloadValid(loaded)
     THEN /\ tool' = [tool EXCEPT ![x].phase = "loaded", ![x].checkpoint = loaded]
          /\ UNCHANGED <<refused, file>>
     ELSE Refuse(x)
  /\ UNCHANGED <<dbVars, copyVars>>

\* RecordsThrough: the rows up to the checkpoint in order, as they are now.  The
\* rows ascend by their sequence, whatever was altered.
RowsThrough(n) ==
  LET through == Cardinality({i \in 1..Len(rows) : rows[i].sequence <= n}) IN
  [i \in 1..through |-> scanRecord(rows[i])]

RecordsThrough(x) ==
  LET n == tool[x].checkpoint.sequence
      records == RowsThrough(n)
  IN
  /\ At(x, "loaded")
  /\ IF VerifyChain(records) = 0 /\ records # <<>> /\ Last(records).sequence = n
     THEN /\ tool' = [tool EXCEPT ![x].phase = "read", ![x].records = records]
          /\ UNCHANGED <<refused, file>>
     ELSE Refuse(x)
  /\ UNCHANGED <<dbVars, copyVars>>

\* Mutant: the file is opened whether or not there is one.
PathTaken(x) == FALSE

\* os.O_EXCL: an existing file is neither opened nor removed.
PathExists(x) == file.there

\* MarshalExport and the creation of the file, still empty.
CreateFile(x) ==
  /\ At(x, "read")
  /\ IF ~Exportable(tool[x].records, tool[x].checkpoint) THEN Refuse(x)
     ELSE IF PathExists(x)
     THEN tool' = [tool EXCEPT ![x].phase = "failed"] /\ UNCHANGED <<refused, file>>
     ELSE /\ tool' = [tool EXCEPT ![x].phase = "created"]
          /\ file' = [there |-> TRUE, whole |-> FALSE,
                      content |-> MarshalExport(tool[x].records, tool[x].checkpoint)]
          /\ UNCHANGED refused
  /\ UNCHANGED <<dbVars, copyVars>>

\* The content is written, not yet synced.
WriteFile(x) ==
  /\ At(x, "created")
  /\ tool' = [tool EXCEPT ![x].phase = "written"]
  /\ file' = [file EXCEPT !.whole = TRUE]
  /\ UNCHANGED <<dbVars, refused, copyVars>>

\* Sync and Close return and the command reports its success.
CloseFile(x) ==
  /\ At(x, "written")
  /\ tool' = [tool EXCEPT ![x].phase = "exported"]
  /\ UNCHANGED <<dbVars, refused, file, copyVars>>

\* Write, Sync or Close fails: the deferred Remove takes the file away.
WriteFails(x) ==
  /\ At(x, "created") \/ At(x, "written")
  /\ tool' = [tool EXCEPT ![x].phase = "failed"]
  /\ file' = NoFile
  /\ UNCHANGED <<dbVars, refused, copyVars>>

\* The command dies, or a read fails; what was not synced may be lost.
ToolDies(x) ==
  /\ tool[x].phase \in {"loaded", "read", "created", "written"}
  /\ tool' = [tool EXCEPT ![x].phase = "failed"]
  /\ \/ At(x, "written") /\ file' = [file EXCEPT !.whole = FALSE]
     \/ UNCHANGED file
  /\ UNCHANGED <<dbVars, refused, copyVars>>

Export(x) ==
  \/ \E c \in checkpoints : LoadCheckpoint(x, c)
  \/ RecordsThrough(x) \/ CreateFile(x) \/ WriteFile(x) \/ CloseFile(x)
  \/ WriteFails(x) \/ ToolDies(x)

-----------------------------------------------------------------------------
(***************************************************************************)
(* agentboxctl verify.                                                     *)
(***************************************************************************)

Verdict(what, sequence) == [what |-> what, sequence |-> sequence]

\* VerifyCheckpoint with the public half of SigningKey.
VerifyCheckpoint(c) ==
  /\ c.key = SigningKey
  /\ PayloadValid(c)
  /\ c.signature = Sign(SigningKey, c)

\* VerifyExport reads record i: sequence in place, event in its canonical form.
RecordReadable(records, i) ==
  /\ records[i].sequence = i
  /\ FromCanonicalJSON(records[i].event)

FirstUnreadable(records) ==
  FirstFailure(records, {i \in 1..Len(records) : ~RecordReadable(records, i)})

\* Mutant: a chain longer than the checkpoint is cut off there.
CheckpointWithin(x) ==
  IF x.checkpoint.sequence > Last(x.records).sequence THEN x.checkpoint.sequence
  ELSE IF x.records[x.checkpoint.sequence].event_hash # x.checkpoint.head
       THEN x.checkpoint.sequence ELSE 0

\* Where the checkpoint and the end of the chain part, 0 if they meet.
CheckpointMisses(x) ==
  LET last == Last(x.records) IN
  IF last.sequence > x.checkpoint.sequence THEN x.checkpoint.sequence + 1
  ELSE IF last.sequence < x.checkpoint.sequence \/ last.event_hash # x.checkpoint.head
       THEN x.checkpoint.sequence ELSE 0

\* The tests in their order: envelope, checkpoint, records, chain, alignment.
VerifyExport(x) ==
  IF ~x.whole \/ x.records = <<>> \/ ~PayloadValid(x.checkpoint) THEN Verdict("invalid", 0)
  ELSE IF ~VerifyCheckpoint(x.checkpoint) THEN Verdict("checkpoint", 0)
  ELSE IF FirstUnreadable(x.records) # 0
       THEN Verdict("chain", FirstUnreadable(x.records))
  ELSE IF VerifyChain(x.records) # 0 THEN Verdict("chain", VerifyChain(x.records))
  ELSE IF CheckpointMisses(x) # 0 THEN Verdict("chain", CheckpointMisses(x))
  ELSE Verdict("valid", 0)

-----------------------------------------------------------------------------
(***************************************************************************)
(* Alterations.                                                            *)
(***************************************************************************)

\* Other things an event could say: another state, other reasons, the same
\* findings in another order, the same instant in another zone.
Variants(e) ==
  {[e EXCEPT !.state = <<"run_denied", "deny", "denied">>],
   [e EXCEPT !.reasons = <<@[1] + 1>>],
   [e EXCEPT !.findings.pii = Reverse(@)],
   [e EXCEPT !.at.zone = "local"]} \ {e}

Rehashed(r) == [r EXCEPT !.event_hash = EventHash(r.event)]

Modified(records) ==
  UNION {{[records EXCEPT ![i].event = e] : e \in Variants(records[i].event)} : i \in 1..Len(records)}

Deleted(records) == {RemoveAt(records, i) : i \in 1..Len(records)}
Inserted(records) ==
  {InsertAt(records, i, records[j]) : i \in 1..(Len(records) + 1), j \in 1..Len(records)}
Swapped(records) ==
  {[records EXCEPT ![i] = records[j], ![j] = records[i]] : i, j \in 1..Len(records)}

\* Every record renumbered, linked to the one before it and hashed again.
Rechained(records) ==
  LET relinked(i, previous) == [records[i].event EXCEPT !.previous = previous]
      digest[i \in 0..Len(records)] ==
        IF i = 0 THEN ZeroDigest ELSE EventHash(relinked(i, digest[i-1]))
  IN [i \in 1..Len(records) |->
        [sequence |-> i, event |-> relinked(i, digest[i-1]), event_hash |-> digest[i]]]

\* Checkpoints to put in the place of the one in x: others that were signed, and
\* ones made up to fit its records.
Checkpoints(x) ==
  LET fitting == [x.checkpoint EXCEPT !.sequence = Len(x.records),
                                      !.head = Last(x.records).event_hash]
  IN {LoadedCheckpoint(c) : c \in checkpoints}
     \cup {fitting, [fitting EXCEPT !.signature = Sign(OtherKey, fitting)]}

\* Rows are altered in the table, the chain head is not.
AlterRows ==
  /\ copy = NoCopy /\ rowEdits < MaxRowEdits
  /\ rows' \in Modified(rows) \cup Deleted(rows)
               \cup {[rows EXCEPT ![i] = Rehashed(@)] : i \in 1..Len(rows)} \cup {Rechained(rows)}
  /\ rowEdits' = rowEdits + 1
  /\ UNCHANGED <<appended, head, checkpoints, refused, tool, file, copyVars>>

\* A copy of the file is taken when the commands have ended.
TakeCopy ==
  /\ copy = NoCopy /\ file.there
  /\ \A x \in Tools : tool[x].phase \in {"idle", "exported", "failed"}
  /\ copy' = [taken |-> TRUE, whole |-> file.whole, records |-> file.content.records,
              checkpoint |-> file.content.checkpoint]
  /\ UNCHANGED <<dbVars, refused, tool, file, edits>>

\* The copy is altered: its records, with or without their hashes, or its
\* checkpoint.
AlterCopy ==
  /\ copy # NoCopy /\ copy.whole /\ copy.records # <<>> /\ edits.count + rowEdits < MaxEdits
  /\ \/ /\ \E records \in Modified(copy.records) \cup Deleted(copy.records)
                          \cup Inserted(copy.records) \cup Swapped(copy.records) :
             records # copy.records /\ copy' = [copy EXCEPT !.records = records]
        /\ edits' = [edits EXCEPT !.count = @ + 1]
     \/ /\ copy' \in {[copy EXCEPT !.records[i] = Rehashed(@)] : i \in 1..Len(copy.records)}
                     \cup {[copy EXCEPT !.records = Rechained(@)]}
                     \cup {[copy EXCEPT !.checkpoint = c] : c \in Checkpoints(copy)}
        /\ edits' = [count |-> edits.count + 1, rehashed |-> TRUE]
  /\ UNCHANGED <<dbVars, refused, tool, file>>

Next ==
  \/ /\ Len(appended) < Len(Inputs)
     /\ \E input \in Inputs[Len(appended) + 1] : Record(input)
  \/ \E rest \in 0..1 : Checkpoint([rest |-> rest, zone |-> "local"])
  \/ \E x \in Tools : Export(x)
  \/ AlterRows
  \/ TakeCopy
  \/ AlterCopy

Spec == Init /\ [][Next]_vars

-----------------------------------------------------------------------------

\* The export of the first n events as they were appended.
Genuine(n) ==
  [i \in 1..n |-> [sequence |-> i, event |-> appended[i], event_hash |-> EventHash(appended[i])]]

\* TM-10, AC-AUDIT-004 and 005: whatever was done to the table after its
\* checkpoint, to the export or to the checkpoint in it, an export that verifies
\* holds exactly the events that were appended up to a checkpoint that was signed.
ValidMeansGenuine ==
  copy # NoCopy /\ VerifyExport(copy).what = "valid" =>
    /\ copy.records = Genuine(copy.checkpoint.sequence)
    /\ copy.checkpoint \in {LoadedCheckpoint(c) : c \in checkpoints}

\* AC-AUDIT-003: a command that has reported success has its export, whole, at the
\* output path, whatever other runs with the same path did, failed at or died of;
\* and it verifies, although its events have been stored, read in another zone and
\* sorted since they were hashed, and although the chain grew and rows changed
\* while it was made.
ReportedExportsStand ==
  \A x \in Tools : At(x, "exported") =>
    /\ file.there /\ file.whole
    /\ file.content = MarshalExport(tool[x].records, tool[x].checkpoint)
    /\ VerifyExport([whole |-> TRUE, records |-> file.content.records,
                     checkpoint |-> file.content.checkpoint]).what = "valid"

\* The handler builds no event that Append refuses, checkpoints are signed as they
\* are stored, and no export of an unaltered table is refused for what it reads.
NothingRefused == rowEdits = 0 => ~refused

\* A sequence is affected when not exactly the record that was exported claims it.
AffectedSequences(original, records) ==
  {s \in 1..Len(original) : {i \in 1..Len(records) : records[i].sequence = s} # {s}
                            \/ records[s] # original[s]}

\* AC-AUDIT-004: one record modified, deleted, inserted or moved in a copy, as it
\* is, makes verification fail at the first sequence that is affected.
EditLocated ==
  copy # NoCopy /\ file.whole /\ edits = [count |-> 1, rehashed |-> FALSE] =>
    LET exported == file.content.records
        first == Min(AffectedSequences(exported, copy.records) \cup {Len(exported) + 1})
    IN VerifyExport(copy) =
         IF copy.records = <<>> THEN Verdict("invalid", 0) ELSE Verdict("chain", first)
=============================================================================
