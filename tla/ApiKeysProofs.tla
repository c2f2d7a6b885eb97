---------------------------- MODULE ApiKeysProofs ---------------------------
(***************************************************************************)
(* Theorems about the API keys of module ApiKeys, for any number of keys,  *)
(* calls and principals, and clocks that differ by any amount.             *)
(***************************************************************************)
EXTENDS ApiKeys, TLAPS

-----------------------------------------------------------------------------
(***************************************************************************)
(* The inductive invariant.                                                *)
(***************************************************************************)

CallRecord == [at : Places, bearer : Bearers, record : Records, statementTime : Times,
               sawActive : BOOLEAN, answer : Answers, askedTooLate : BOOLEAN]

\* A creation ends with its commit, so a row is written once; before that there
\* is nothing of it.
KeyInv(k) ==
  /\ Exists(k) => k \in published /\ create[k].at \in {"created", "failed"}
  /\ ~Exists(k) => row[k] = NoRow
  /\ create[k].at = "created" => Exists(k)
  /\ create[k].at \in {"inserted", "published", "committing"}
       => create[k].row.principal \in Principals
  /\ create[k].at \in {"published", "committing"} => k \in published

\* A lookup that found a key stays true of the key's principal, whatever else
\* goes stale.
FoundInv(c) ==
  call[c].record.found =>
    /\ call[c].record.kid \in Keys /\ Exists(call[c].record.kid)
    /\ row[call[c].record.kid].principal = call[c].record.principal

\* What the checks have established once the gateway asks to mark the key.
Vouched(c) ==
  call[c].at \in {"marking", "executing", "marked"} \/ Accepted(c) =>
    /\ call[c].bearer.parsed /\ call[c].bearer.genuine
    /\ call[c].record.found /\ call[c].record.kid = call[c].bearer.kid

\* The use is on record when the call is accepted.
Used(c) ==
  /\ call[c].at = "marked" \/ Accepted(c) => row[call[c].bearer.kid].lastUsedAt # Null
  /\ Accepted(c) => /\ call[c].at = "done"
                    /\ <<call[c].bearer.kid, call[c].record.principal>> \in logged

\* The mark of a key that had ended when the gateway asked is bound to be refused.
TooLate(c) ==
  call[c].askedTooLate =>
    /\ call[c].at # "marked" /\ ~Accepted(c)
    /\ call[c].at = "marking" => Ended(call[c].bearer.kid)
    /\ call[c].at = "executing" =>
         \/ row[call[c].bearer.kid].disabledAt # Null
         \/ ~call[c].sawActive
         \/ row[call[c].bearer.kid].expiresAt <= call[c].statementTime

CallInv(c) == FoundInv(c) /\ Vouched(c) /\ Used(c) /\ TooLate(c)

\* RevocationStopsInFlight is not inductive: what it says of an accepted call
\* goes back to what the mark saw, and that to the key when the mark was asked.
AuthInv == TypeOK /\ (\A k \in Keys : KeyInv(k)) /\ (\A c \in Calls : CallInv(c))

-----------------------------------------------------------------------------
(***************************************************************************)
(* Every step keeps the invariant.                                         *)
(***************************************************************************)

\* What no step undoes: a row's principal and expiry, a mark, a disabling, the
\* time that has passed and the log.
Keeps ==
  /\ \A k \in Keys : Exists(k) =>
       /\ row'[k].principal = row[k].principal /\ row'[k].expiresAt = row[k].expiresAt
       /\ row[k].lastUsedAt # Null => row'[k].lastUsedAt # Null
       /\ row[k].disabledAt # Null => row'[k].disabledAt # Null
  /\ \A p \in Principals : status[p] = "disabled" => status'[p] = "disabled"
  /\ clock' >= clock
  /\ logged \subseteq logged'

\* A call that takes no step keeps its part of the invariant.
LEMMA CallKept ==
  ASSUME TypeOK, TypeOK', NEW c \in Calls, CallInv(c), Keeps, call'[c] = call[c]
  PROVE  CallInv(c)'
<1> DEFINE k == call[c].bearer.kid
<1>1. FoundInv(c)'
  BY DEF CallInv, FoundInv, Exists, Keeps
<1>2. Vouched(c)'
  BY DEF CallInv, Vouched, Accepted
<1>3. call[c].at \in {"marking", "executing", "marked"} \/ Accepted(c) =>
        k \in Keys /\ Exists(k)
  BY DEF CallInv, Vouched, FoundInv
<1>4. Used(c)'
  BY <1>3 DEF CallInv, Used, Accepted, Keeps
<1>5. ASSUME k \in Keys, Exists(k), Ended(k) PROVE Ended(k)'
  <2>1. row[k].principal \in Principals
    BY <1>5 DEF TypeOK, KeyRow, Exists
  <2>2. row'[k].principal = row[k].principal /\ row'[k].expiresAt = row[k].expiresAt
    BY <1>5 DEF Keeps
  <2>3. clock \in Int /\ clock' \in Int /\ row[k].expiresAt \in Int /\ clock' >= clock
    BY <1>5 DEF TypeOK, KeyRow, Times, Keeps
  <2>4. CASE row[k].disabledAt # Null
    BY <1>5, <2>4 DEF Keeps, Ended
  <2>5. CASE status[row[k].principal] = "disabled"
    BY <2>1, <2>2, <2>5 DEF Keeps, Ended
  <2>6. CASE clock >= row[k].expiresAt
    BY <2>2, <2>3, <2>6 DEF Ended
  <2> QED BY <1>5, <2>4, <2>5, <2>6 DEF Ended
<1>6. TooLate(c)'
  <2> SUFFICES ASSUME call'[c].askedTooLate PROVE
               /\ call'[c].at # "marked" /\ ~Accepted(c)'
               /\ call'[c].at = "marking" => Ended(call[c].bearer.kid)'
               /\ call'[c].at = "executing" =>
                    \/ row'[call'[c].bearer.kid].disabledAt # Null
                    \/ ~call'[c].sawActive
                    \/ row'[call'[c].bearer.kid].expiresAt <= call'[c].statementTime
    BY DEF TooLate
  <2>1. call[c].askedTooLate
    OBVIOUS
  <2>2. /\ call[c].at # "marked" /\ ~Accepted(c)
        /\ call[c].at = "marking" => Ended(k)
        /\ call[c].at = "executing" =>
             \/ row[k].disabledAt # Null
             \/ ~call[c].sawActive
             \/ row[k].expiresAt <= call[c].statementTime
    BY <2>1 DEF CallInv, TooLate
  <2>3. call'[c].at # "marked" /\ ~Accepted(c)'
    BY <2>2 DEF Accepted
  <2>4. call[c].at = "marking" => Ended(call[c].bearer.kid)'
    BY <1>3, <1>5, <2>2 DEF Ended
  <2>5. call[c].at = "executing" =>
          \/ row'[k].disabledAt # Null
          \/ ~call[c].sawActive
          \/ row'[k].expiresAt <= call[c].statementTime
    BY <1>3, <2>2 DEF Keeps
  <2> QED BY <2>3, <2>4, <2>5
<1> QED BY <1>1, <1>2, <1>4, <1>6 DEF CallInv

\* Without a step of the other actors there is nothing to keep.
LEMMA NothingLost ==
  ASSUME TypeOK, UNCHANGED <<status, row, logged, clock>>
  PROVE  Keeps
BY DEF Keeps, TypeOK, Times

\* A row that nobody has filled.
LEMMA NoRowType == NoRow \in KeyRow /\ NoRow.principal = Null
BY ConstantsAssumption DEF NoRow, KeyRow, Times

\* What the stages of a creation make of it.
LEMMA CreateBecomes ==
  ASSUME TypeOK, NEW k \in Keys, NEW stage \in Stages, NEW r \in KeyRow,
         \/ create' = [create EXCEPT ![k] = [at |-> stage, row |-> r]]
         \/ create' = [create EXCEPT ![k].at = stage] /\ r = create[k].row
  PROVE  /\ create' \in [Keys -> [at : Stages, row : KeyRow]]
         /\ create'[k].at = stage /\ create'[k].row = r
         /\ \A x \in Keys : x # k => create'[x] = create[x]
BY DEF TypeOK

\* A stage of a creation before its commit changes no row.
LEMMA StageStep ==
  ASSUME AuthInv, NEW k \in Keys,
         \/ \E p \in Principals, t \in Times : admin_create_api_key(k, p, t)
         \/ Publish(k) \/ PublishFails(k) \/ CreateAborts(k) \/ SendCommit(k)
  PROVE  AuthInv'
<1> USE DEF AuthInv
<1>1. UNCHANGED <<status, row, call, logged, clock, gatewayClock>>
  BY DEF admin_create_api_key, Publish, PublishFails, CreateAborts, SendCommit
<1>2. /\ create' \in [Keys -> [at : Stages, row : KeyRow]]
      /\ \A x \in Keys : x # k => create'[x] = create[x]
      /\ published \subseteq published' /\ published' \subseteq Keys
      /\ revealed' \subseteq Keys
      /\ \/ /\ create[k].at = "idle" /\ create'[k].at = "inserted"
            /\ create'[k].row.principal \in Principals
         \/ /\ create[k].at = "inserted" /\ create'[k].at = "published"
            /\ create'[k].row = create[k].row /\ k \in published'
         \/ /\ create[k].at \in {"inserted", "published", "committing"}
            /\ create'[k].at = "failed"
         \/ /\ create[k].at = "published" /\ create'[k].at = "committing"
            /\ create'[k].row = create[k].row
  <2>1. /\ "inserted" \in Stages /\ "published" \in Stages /\ "failed" \in Stages
        /\ "committing" \in Stages
        /\ create[k].row \in KeyRow
    BY DEF Stages, TypeOK
  <2>2. published \subseteq Keys /\ revealed \subseteq Keys
    BY DEF TypeOK
  <2>3. ASSUME NEW p \in Principals, NEW t \in Times, admin_create_api_key(k, p, t)
        PROVE  /\ create' \in [Keys -> [at : Stages, row : KeyRow]]
               /\ \A x \in Keys : x # k => create'[x] = create[x]
               /\ create[k].at = "idle" /\ create'[k].at = "inserted"
               /\ create'[k].row.principal \in Principals
               /\ UNCHANGED <<revealed, published>>
    <3> DEFINE r == [NoRow EXCEPT !.principal = p, !.expiresAt = t]
    <3>1. r \in KeyRow /\ r.principal = p
      BY NoRowType DEF KeyRow, NoRow
    <3>2. create' = [create EXCEPT ![k] = [at |-> "inserted", row |-> r]]
      BY <2>3 DEF admin_create_api_key
    <3> HIDE DEF r
    <3>3. create[k].at = "idle" /\ UNCHANGED <<revealed, published>>
      BY <2>3 DEF admin_create_api_key
    <3> QED BY <2>1, <3>1, <3>2, <3>3, CreateBecomes
  <2>4. CASE Publish(k)
    <3>1. /\ create[k].at = "inserted" /\ create' = [create EXCEPT ![k].at = "published"]
          /\ revealed' = revealed \cup {k} /\ published' = published \cup {k}
      BY <2>4 DEF Publish
    <3>2. /\ create' \in [Keys -> [at : Stages, row : KeyRow]]
          /\ create'[k].at = "published" /\ create'[k].row = create[k].row
          /\ \A x \in Keys : x # k => create'[x] = create[x]
      BY <2>1, <3>1, CreateBecomes
    <3> QED BY <2>2, <3>1, <3>2
  <2>5. CASE PublishFails(k)
    <3>1. /\ create' = [create EXCEPT ![k] = [at |-> "failed", row |-> NoRow]]
          /\ create[k].at = "inserted" /\ published' = published
          /\ revealed' \subseteq Keys
      BY <2>2, <2>5 DEF PublishFails
    <3> QED BY <2>1, <2>2, <3>1, CreateBecomes, NoRowType
  <2>6. CASE CreateAborts(k)
    <3>1. /\ create' = [create EXCEPT ![k] = [at |-> "failed", row |-> NoRow]]
          /\ create[k].at \in {"inserted", "published", "committing"}
          /\ published' = published /\ revealed' = revealed
      BY <2>6 DEF CreateAborts
    <3> QED BY <2>1, <2>2, <3>1, CreateBecomes, NoRowType
  <2>7. CASE SendCommit(k)
    <3>1. /\ create' = [create EXCEPT ![k].at = "committing"]
          /\ create[k].at = "published"
          /\ published' = published /\ revealed' = revealed
      BY <2>7 DEF SendCommit
    <3>2. /\ create' \in [Keys -> [at : Stages, row : KeyRow]]
          /\ create'[k].at = "committing" /\ create'[k].row = create[k].row
          /\ \A x \in Keys : x # k => create'[x] = create[x]
      BY <2>1, <3>1, CreateBecomes
    <3> QED BY <2>2, <3>1, <3>2
  <2> QED BY <2>2, <2>3, <2>4, <2>5, <2>6, <2>7
<1>3. TypeOK'
  BY <1>1, <1>2 DEF TypeOK
<1>4. ASSUME NEW x \in Keys PROVE KeyInv(x)'
  <2>1. KeyInv(x) /\ KeyInv(k)
    OBVIOUS
  <2>2. CASE x = k
    BY <1>1, <1>2, <2>1, <2>2 DEF KeyInv, Exists
  <2>3. CASE x # k
    BY <1>1, <1>2, <2>1, <2>3 DEF KeyInv, Exists
  <2> QED BY <2>2, <2>3
<1>5. \A c \in Calls : CallInv(c)'
  BY <1>1, <1>3, CallKept, NothingLost
<1> QED BY <1>3, <1>4, <1>5

\* The commit writes the key's only row.
LEMMA CommitStep ==
  ASSUME AuthInv, NEW k \in Keys, ServerCommit(k)
  PROVE  AuthInv'
<1> USE DEF AuthInv
<1>1. /\ create[k].at = "committing"
      /\ row' = [row EXCEPT ![k] = create[k].row]
      /\ UNCHANGED <<status, revealed, published, call, logged, clock, gatewayClock>>
  BY DEF ServerCommit
<1>2. /\ create' \in [Keys -> [at : Stages, row : KeyRow]]
      /\ create'[k].at \in {"created", "failed"}
      /\ \A x \in Keys : x # k => create'[x] = create[x]
  <2>1. PICK heard \in BOOLEAN :
          create' = [create EXCEPT ![k] =
            [at |-> IF heard THEN "created" ELSE "failed", row |-> NoRow]]
    BY DEF ServerCommit
  <2> DEFINE stage == IF heard THEN "created" ELSE "failed"
  <2>2. stage \in {"created", "failed"} /\ stage \in Stages
    BY DEF Stages
  <2>3. create' = [create EXCEPT ![k] = [at |-> stage, row |-> NoRow]]
    BY <2>1
  <2> HIDE DEF stage
  <2> QED BY <2>2, <2>3, CreateBecomes, NoRowType
<1>3. /\ create[k].row \in KeyRow /\ create[k].row.principal \in Principals
      /\ k \in published /\ ~Exists(k)
  <2>1. KeyInv(k) /\ create[k].row \in KeyRow
    BY DEF TypeOK
  <2> QED BY <1>1, <2>1 DEF KeyInv
<1>4. /\ row' \in [Keys -> KeyRow] /\ row'[k].principal \in Principals
      /\ \A x \in Keys : x # k => row'[x] = row[x]
  BY <1>1, <1>3 DEF TypeOK
<1>5. TypeOK'
  BY <1>1, <1>2, <1>4 DEF TypeOK
<1>6. ASSUME NEW x \in Keys PROVE KeyInv(x)'
  <2>1. KeyInv(x)
    OBVIOUS
  <2>2. CASE x = k
    BY <1>1, <1>2, <1>3, <1>4, <2>2, ConstantsAssumption DEF KeyInv, Exists
  <2>3. CASE x # k
    BY <1>1, <1>2, <1>4, <2>1, <2>3 DEF KeyInv, Exists
  <2> QED BY <2>2, <2>3
<1>7. Keeps
  BY <1>1, <1>3, <1>4 DEF Keeps, TypeOK, Times
<1>8. \A c \in Calls : CallInv(c)'
  BY <1>1, <1>5, <1>7, CallKept
<1> QED BY <1>5, <1>6, <1>8

\* A disabling, the first or a later one, leaves all but the time of the first.
LEMMA DisableStep ==
  ASSUME AuthInv, NEW k \in Keys, NEW now \in StatementTimes,
         admin_disable_api_key(k, now)
  PROVE  AuthInv'
<1> USE DEF AuthInv
<1>1. /\ Exists(k) /\ now \in Times
      /\ row' = [row EXCEPT ![k].disabledAt = IF @ = Null THEN now ELSE @]
      /\ UNCHANGED <<status, keyVars, create, revealed, published, call, logged,
                     clock, gatewayClock>>
  BY DEF admin_disable_api_key, StatementTimes, keyVars
<1>2. /\ row' \in [Keys -> KeyRow]
      /\ \A x \in Keys : x # k => row'[x] = row[x]
      /\ row'[k].principal = row[k].principal /\ row'[k].expiresAt = row[k].expiresAt
      /\ row'[k].lastUsedAt = row[k].lastUsedAt
      /\ row[k].disabledAt # Null => row'[k].disabledAt = row[k].disabledAt
  <2> DEFINE d == IF row[k].disabledAt = Null THEN now ELSE row[k].disabledAt
  <2>1. row \in [Keys -> KeyRow]
    BY DEF TypeOK
  <2>2. d \in Times \cup {Null} /\ (row[k].disabledAt # Null => d = row[k].disabledAt)
    BY <1>1, <2>1 DEF KeyRow
  <2>3. row' = [row EXCEPT ![k].disabledAt = d]
    BY <1>1
  <2> HIDE DEF d
  <2> QED BY <2>1, <2>2, <2>3 DEF KeyRow
<1>3. TypeOK'
  BY <1>1, <1>2 DEF TypeOK
<1>4. ASSUME NEW x \in Keys PROVE KeyInv(x)'
  <2>1. KeyInv(x)
    OBVIOUS
  <2> QED BY <1>1, <1>2, <2>1 DEF KeyInv, Exists
<1>5. Keeps
  BY <1>1, <1>2 DEF Keeps, TypeOK, Times
<1>6. \A c \in Calls : CallInv(c)'
  BY <1>1, <1>3, <1>5, CallKept
<1> QED BY <1>3, <1>4, <1>6

\* Principals that are disabled, both clocks, and stuttering.
LEMMA QuietStep ==
  ASSUME AuthInv, \/ \E p \in Principals : DisablePrincipal(p)
                  \/ Tick \/ GatewayTick
                  \/ UNCHANGED vars
  PROVE  AuthInv'
<1> USE DEF AuthInv
<1>1. UNCHANGED <<row, create, revealed, published, call, logged>>
  BY DEF DisablePrincipal, Tick, GatewayTick, vars, keyVars
<1>2. /\ status' \in [Principals -> {"active", "disabled"}]
      /\ \A p \in Principals : status[p] = "disabled" => status'[p] = "disabled"
  BY DEF DisablePrincipal, Tick, GatewayTick, vars, TypeOK
<1>3. clock' \in Times /\ gatewayClock' \in Times /\ clock' >= clock
  BY ConstantsAssumption DEF DisablePrincipal, Tick, GatewayTick, vars, TypeOK, Times
<1>4. TypeOK'
  BY <1>1, <1>2, <1>3 DEF TypeOK
<1>5. \A x \in Keys : KeyInv(x)'
  BY <1>1 DEF KeyInv, Exists
<1>6. Keeps
  BY <1>1, <1>2, <1>3 DEF Keeps
<1>7. \A c \in Calls : CallInv(c)'
  BY <1>1, <1>4, <1>6, CallKept
<1> QED BY <1>4, <1>5, <1>7

-----------------------------------------------------------------------------
(***************************************************************************)
(* The steps of a call.                                                    *)
(***************************************************************************)

\* Call c becomes the given record and the others stay as they are.
Becomes(c, at, bearer, record, time, saw, answer, late) ==
  /\ call' \in [Calls -> CallRecord]
  /\ \A x \in Calls : x # c => call'[x] = call[x]
  /\ call'[c].at = at /\ call'[c].bearer = bearer /\ call'[c].record = record
  /\ call'[c].statementTime = time /\ call'[c].sawActive = saw
  /\ call'[c].answer = answer /\ call'[c].askedTooLate = late

\* The places and answers that steps lead to.
LEMMA Names ==
  /\ "looking" \in Places /\ "checking" \in Places /\ "marking" \in Places
  /\ "executing" \in Places /\ "marked" \in Places /\ "done" \in Places
  /\ "unauthenticated" \in Answers /\ "unavailable" \in Answers /\ "accepted" \in Answers
BY DEF Places, Answers

\* A call's record has all its fields.
LEMMA CallFields ==
  ASSUME TypeOK, NEW c \in Calls
  PROVE  /\ call[c] \in CallRecord
         /\ call[c].at \in Places /\ call[c].bearer \in Bearers
         /\ call[c].record \in Records /\ call[c].statementTime \in Times
         /\ call[c].sawActive \in BOOLEAN /\ call[c].answer \in Answers
         /\ call[c].askedTooLate \in BOOLEAN
BY DEF TypeOK, CallRecord

\* A call goes on with a bearer.
LEMMA SetBearer ==
  ASSUME TypeOK, NEW c \in Calls, NEW b \in Bearers,
         call' = [call EXCEPT ![c].at = "looking", ![c].bearer = b]
  PROVE  Becomes(c, "looking", b, call[c].record, call[c].statementTime,
                 call[c].sawActive, call[c].answer, call[c].askedTooLate)
BY Names DEF TypeOK, CallRecord, Becomes

\* A call goes on with what the lookup returned.
LEMMA SetRecord ==
  ASSUME TypeOK, NEW c \in Calls, NEW r \in Records,
         call' = [call EXCEPT ![c].at = "checking", ![c].record = r]
  PROVE  Becomes(c, "checking", call[c].bearer, r, call[c].statementTime,
                 call[c].sawActive, call[c].answer, call[c].askedTooLate)
BY Names DEF TypeOK, CallRecord, Becomes

\* A call ends with an answer.
LEMMA SetAnswer ==
  ASSUME TypeOK, NEW c \in Calls, NEW a \in Answers, call' = Answer(c, a)
  PROVE  Becomes(c, "done", call[c].bearer, call[c].record, call[c].statementTime,
                 call[c].sawActive, a, call[c].askedTooLate)
BY Names DEF TypeOK, CallRecord, Becomes, Answer

\* A call asks for its mark.
LEMMA SetLate ==
  ASSUME TypeOK, NEW c \in Calls, NEW late \in BOOLEAN,
         call' = [call EXCEPT ![c].at = "marking", ![c].askedTooLate = late]
  PROVE  Becomes(c, "marking", call[c].bearer, call[c].record, call[c].statementTime,
                 call[c].sawActive, call[c].answer, late)
BY Names, ZenonT(60) DEF TypeOK, CallRecord, Becomes

\* The mark of a call starts.
LEMMA SetTime ==
  ASSUME TypeOK, NEW c \in Calls, NEW saw \in BOOLEAN, NEW t \in Times,
         call' = [call EXCEPT ![c].at = "executing", ![c].statementTime = t,
                              ![c].sawActive = saw]
  PROVE  Becomes(c, "executing", call[c].bearer, call[c].record, t,
                 saw, call[c].answer, call[c].askedTooLate)
BY Names, ZenonT(60) DEF TypeOK, CallRecord, Becomes

\* A call is marked.
LEMMA SetMarked ==
  ASSUME TypeOK, NEW c \in Calls, call' = [call EXCEPT ![c].at = "marked"]
  PROVE  Becomes(c, "marked", call[c].bearer, call[c].record, call[c].statementTime,
                 call[c].sawActive, call[c].answer, call[c].askedTooLate)
BY Names, ZenonT(60) DEF TypeOK, CallRecord, Becomes

\* A caller gives up on its mark.
LEMMA SetGivenUp ==
  ASSUME TypeOK, NEW c \in Calls, call' = [call EXCEPT ![c].answer = "unavailable"]
  PROVE  Becomes(c, call[c].at, call[c].bearer, call[c].record, call[c].statementTime,
                 call[c].sawActive, "unavailable", call[c].askedTooLate)
BY Names, ZenonT(60) DEF TypeOK, CallRecord, Becomes

\* A step of call c alone keeps the invariant if it keeps c's part.
LEMMA OwnStep ==
  ASSUME AuthInv, NEW c \in Calls,
         UNCHANGED <<status, row, keyVars, clock, gatewayClock>>,
         logged \subseteq logged', logged' \in SUBSET (Keys \X Principals),
         call' \in [Calls -> CallRecord],
         \A x \in Calls : x # c => call'[x] = call[x],
         CallInv(c)'
  PROVE  AuthInv'
<1> USE DEF AuthInv
<1>1. UNCHANGED <<status, row, create, revealed, published, clock, gatewayClock>>
  BY DEF keyVars
<1>2. TypeOK'
  BY <1>1 DEF TypeOK, CallRecord
<1>3. \A k \in Keys : KeyInv(k)'
  BY <1>1 DEF KeyInv, Exists
<1>4. Keeps
  BY <1>1 DEF Keeps, TypeOK, Times
<1>5. \A x \in Calls : CallInv(x)'
  BY <1>2, <1>4, CallKept
<1> QED BY <1>2, <1>3, <1>5

\* A bearer is presented, and looked up in one snapshot.
LEMMA LookStep ==
  ASSUME AuthInv, NEW c \in Calls,
         (\E b \in Bearers : Begin(c, b)) \/ LookupAPIKey(c)
  PROVE  AuthInv'
<1> USE DEF AuthInv
<1>1. /\ UNCHANGED <<status, row, keyVars, logged, clock, gatewayClock>>
      /\ CallInv(c) /\ call[c].at \in {"idle", "looking"}
      /\ logged \in SUBSET (Keys \X Principals)
  BY DEF Begin, LookupAPIKey, TypeOK
<1>2. ~Accepted(c)
  BY <1>1 DEF CallInv, Used
<1>3. CASE \E b \in Bearers : Begin(c, b)
  <2>1. PICK b \in Bearers : Becomes(c, "looking", b, call[c].record,
          call[c].statementTime, call[c].sawActive, call[c].answer, call[c].askedTooLate)
    BY <1>3, SetBearer DEF Begin
  <2>2. CallInv(c)'
    BY <1>1, <1>2, <2>1
    DEF CallInv, FoundInv, Vouched, Used, TooLate, Accepted, Becomes, Exists
  <2> QED BY <1>1, <2>1, <2>2, OwnStep DEF Becomes
<1>4. CASE LookupAPIKey(c)
  <2> DEFINE k == call[c].bearer.kid
             r == LookedUp(k)
  <2>1. k \in Keys \cup {Dummy}
    BY CallFields DEF Bearers
  <2>2. /\ r \in Records
        /\ r.found => r.kid \in Keys /\ Exists(r.kid) /\ row[r.kid].principal = r.principal
    <3>1. CASE k \in Keys /\ Exists(k)
      <4>1. r = [kid |-> k, found |-> TRUE, principal |-> row[k].principal,
                 principalActive |-> status[row[k].principal] = "active",
                 expiresAt |-> row[k].expiresAt, disabled |-> row[k].disabledAt # Null]
        BY <3>1 DEF LookedUp
      <4>2. row[k] \in KeyRow
        BY <3>1 DEF TypeOK
      <4>3. row[k].principal \in Principals /\ row[k].expiresAt \in Times
        BY <3>1, <4>2 DEF KeyRow, Exists
      <4> QED BY <2>1, <3>1, <4>1, <4>3 DEF Records
    <3>2. CASE ~(k \in Keys /\ Exists(k))
      <4>1. r = DummyRecord
        BY <3>2 DEF LookedUp
      <4> QED BY <4>1, ConstantsAssumption DEF DummyRecord, Records, Times
    <3> QED BY <3>1, <3>2
  <2> HIDE DEF r
  <2>3. Becomes(c, "checking", call[c].bearer, r, call[c].statementTime,
                call[c].sawActive, call[c].answer, call[c].askedTooLate)
    BY <1>4, <2>2, SetRecord DEF LookupAPIKey, r
  <2>4. CallInv(c)'
    BY <1>1, <1>2, <2>2, <2>3
    DEF CallInv, FoundInv, Vouched, Used, TooLate, Accepted, Becomes, Exists
  <2> QED BY <1>1, <2>3, <2>4, OwnStep DEF Becomes
<1> QED BY <1>3, <1>4

\* A call that is turned away, by the checks, by the mark or by a failure, and
\* one that gives up on its mark.
LEMMA TurnedAwayStep ==
  ASSUME AuthInv, NEW c \in Calls,
         Refuse(c) \/ MarkRefused(c) \/ StoreFails(c) \/ GiveUp(c)
  PROVE  AuthInv'
<1> USE DEF AuthInv
<1>1. /\ UNCHANGED <<status, row, keyVars, logged, clock, gatewayClock>>
      /\ CallInv(c)
      /\ call[c].at \in {"looking", "checking", "marking", "executing", "marked"}
      /\ logged \in SUBSET (Keys \X Principals)
  BY DEF Refuse, MarkRefused, StoreFails, GiveUp, TypeOK
<1>2. ~Accepted(c)
  BY <1>1 DEF CallInv, Used
<1>3. "unauthenticated" \in Answers /\ "unavailable" \in Answers /\ call[c].answer \in Answers
  BY Names, CallFields
<1>4. CASE Refuse(c) \/ MarkRefused(c) \/ StoreFails(c)
  <2>1. \E a \in Answers : a # "accepted" /\ call' = Answer(c, a)
    BY <1>2, <1>3, <1>4 DEF Refuse, MarkRefused, StoreFails, Accepted
  <2>2. PICK a \in Answers : a # "accepted" /\ call' = Answer(c, a)
    BY <2>1
  <2>3. Becomes(c, "done", call[c].bearer, call[c].record, call[c].statementTime,
                call[c].sawActive, a, call[c].askedTooLate)
    BY <2>2, SetAnswer
  <2>4. CallInv(c)'
    BY <1>1, <1>2, <2>2, <2>3
    DEF CallInv, FoundInv, Vouched, Used, TooLate, Accepted, Becomes, Exists
  <2> QED BY <1>1, <2>3, <2>4, OwnStep DEF Becomes
<1>5. CASE GiveUp(c)
  <2>1. call[c].at = "executing"
    BY <1>5 DEF GiveUp
  <2>2. Becomes(c, call[c].at, call[c].bearer, call[c].record, call[c].statementTime,
                call[c].sawActive, "unavailable", call[c].askedTooLate)
    BY <1>5, SetGivenUp DEF GiveUp
  <2>3. CallInv(c)'
    BY <1>1, <1>2, <2>1, <2>2
    DEF CallInv, FoundInv, Vouched, Used, TooLate, Accepted, Becomes, Exists
  <2> QED BY <1>1, <2>2, <2>3, OwnStep DEF Becomes
<1> QED BY <1>4, <1>5

\* The checks have passed on a copy of the row that may be stale: what the
\* history field notes of it is true of the key itself.
LEMMA AskStep ==
  ASSUME AuthInv, NEW c \in Calls, AskMark(c)
  PROVE  AuthInv'
<1> USE DEF AuthInv
<1> DEFINE k == call[c].bearer.kid
           late == Ended(k)
<1>1. /\ UNCHANGED <<status, row, keyVars, logged, clock, gatewayClock>>
      /\ CallInv(c) /\ call[c].at = "checking" /\ Acceptable(c)
      /\ logged \in SUBSET (Keys \X Principals)
  BY DEF AskMark, TypeOK
<1>2. ~Accepted(c)
  BY <1>1 DEF CallInv, Used
<1>3. late \in BOOLEAN
  BY DEF Ended
<1>4. Becomes(c, "marking", call[c].bearer, call[c].record, call[c].statementTime,
              call[c].sawActive, call[c].answer, late)
  BY <1>3, SetLate DEF AskMark
<1>5. /\ call[c].bearer.parsed /\ call[c].bearer.genuine
      /\ call[c].record.found /\ call[c].record.kid = k
  BY <1>1 DEF Acceptable, VerifyAPIKey
<1>6. FoundInv(c)' /\ Vouched(c)' /\ Used(c)'
  BY <1>1, <1>2, <1>4, <1>5
  DEF CallInv, FoundInv, Vouched, Used, Accepted, Becomes, Exists
<1>7. TooLate(c)'
  <2>1. UNCHANGED <<status, row, clock>>
    BY <1>1
  <2>2. /\ call'[c].at = "marking" /\ call'[c].bearer = call[c].bearer
        /\ call'[c].askedTooLate = late /\ ~Accepted(c)'
    BY <1>2, <1>4 DEF Becomes, Accepted
  <2>3. call'[c].askedTooLate => Ended(call[c].bearer.kid)'
    BY <2>1, <2>2 DEF Ended
  <2> QED BY <2>2, <2>3 DEF TooLate, Ended
<1>8. CallInv(c)'
  BY <1>6, <1>7 DEF CallInv
<1> QED BY <1>1, <1>4, <1>8, OwnStep DEF Becomes

\* The mark reads the time and the principal: if the key had ended by then, what
\* it read, or the row it will see, says so.
LEMMA StartStep ==
  ASSUME AuthInv, NEW c \in Calls, StartMark(c)
  PROVE  AuthInv'
<1> USE DEF AuthInv
<1> DEFINE k == call[c].bearer.kid
           saw == status[call[c].record.principal] = "active"
<1>1. /\ UNCHANGED <<status, row, keyVars, logged, clock, gatewayClock>>
      /\ CallInv(c) /\ call[c].at = "marking"
      /\ logged \in SUBSET (Keys \X Principals)
  BY DEF StartMark, TypeOK
<1>2. /\ ~Accepted(c) /\ k \in Keys /\ Exists(k)
      /\ row[k].principal = call[c].record.principal
  BY <1>1 DEF CallInv, Used, Vouched, FoundInv
<1>3. clock \in Times /\ saw \in BOOLEAN
  BY DEF TypeOK
<1>4. Becomes(c, "executing", call[c].bearer, call[c].record, clock, saw,
              call[c].answer, call[c].askedTooLate)
  BY <1>3, SetTime DEF StartMark
<1>5. FoundInv(c)' /\ Vouched(c)' /\ Used(c)'
  BY <1>1, <1>2, <1>4
  DEF CallInv, FoundInv, Vouched, Used, Accepted, Becomes, Exists
<1>6. TooLate(c)'
  <2>1. call[c].askedTooLate => \/ row[k].disabledAt # Null
                                \/ ~saw
                                \/ row[k].expiresAt <= clock
    <3>1. clock \in Int /\ row[k].expiresAt \in Int
      BY <1>2, <1>3 DEF TypeOK, KeyRow, Times
    <3>2. call[c].askedTooLate => Ended(k)
      BY <1>1 DEF CallInv, TooLate
    <3> QED BY <1>2, <3>1, <3>2 DEF Ended
  <2>2. /\ call'[c].at = "executing" /\ call'[c].bearer = call[c].bearer
        /\ call'[c].askedTooLate = call[c].askedTooLate
        /\ call'[c].statementTime = clock /\ call'[c].sawActive = saw
        /\ row' = row /\ ~Accepted(c)'
    BY <1>1, <1>2, <1>4 DEF Becomes, Accepted
  <2> HIDE DEF saw
  <2> QED BY <2>1, <2>2 DEF TooLate
<1>7. CallInv(c)'
  BY <1>5, <1>6 DEF CallInv
<1> QED BY <1>1, <1>4, <1>7, OwnStep DEF Becomes

\* The mark is set, so the key had not ended when it was asked; every other call
\* finds at most a later use on record.
LEMMA MarkStep ==
  ASSUME AuthInv, NEW c \in Calls, mark_api_key_used(c)
  PROVE  AuthInv'
<1> USE DEF AuthInv
<1> DEFINE k == call[c].bearer.kid
           t == call[c].statementTime
<1>1. /\ call[c].at = "executing" /\ Markable(c) /\ CallInv(c)
      /\ row' = [row EXCEPT ![k].lastUsedAt = t]
      /\ UNCHANGED <<status, create, revealed, published, logged, clock, gatewayClock>>
  BY DEF mark_api_key_used, keyVars
<1>2. /\ ~Accepted(c) /\ k \in Keys /\ Exists(k)
      /\ row[k].principal = call[c].record.principal
  BY <1>1 DEF CallInv, Used, Vouched, FoundInv
<1>3. t \in Times /\ t # Null
  BY CallFields, ConstantsAssumption DEF Times
<1>4. /\ row' \in [Keys -> KeyRow]
      /\ \A x \in Keys : x # k => row'[x] = row[x]
      /\ row'[k].principal = row[k].principal /\ row'[k].expiresAt = row[k].expiresAt
      /\ row'[k].lastUsedAt # Null /\ row'[k].disabledAt = row[k].disabledAt
  <2>1. row \in [Keys -> KeyRow]
    BY DEF TypeOK
  <2> HIDE DEF t
  <2> QED BY <1>1, <1>2, <1>3, <2>1 DEF KeyRow
<1>5. ~call[c].askedTooLate
  <2>1. /\ row[k].disabledAt = Null /\ call[c].sawActive
        /\ row[k].expiresAt > call[c].statementTime
    BY <1>1 DEF Markable
  <2>2. row[k].expiresAt \in Int /\ call[c].statementTime \in Int
    BY <1>2, <1>3 DEF TypeOK, KeyRow, Times
  <2> QED BY <1>1, <2>1, <2>2 DEF CallInv, TooLate
<1>6. PICK at \in {"marked", "done"} :
        Becomes(c, at, call[c].bearer, call[c].record, t, call[c].sawActive,
                call[c].answer, call[c].askedTooLate)
  <2>1. CASE call[c].answer = "none"
    BY <2>1, SetMarked DEF mark_api_key_used
  <2>2. CASE call[c].answer # "none"
    BY <2>2, SetAnswer, CallFields DEF mark_api_key_used
  <2> QED BY <2>1, <2>2
<1>7. TypeOK'
  BY <1>1, <1>4, <1>6 DEF TypeOK, CallRecord, Becomes
<1>8. ASSUME NEW x \in Keys PROVE KeyInv(x)'
  <2>1. KeyInv(x)
    OBVIOUS
  <2> QED BY <1>1, <1>2, <1>4, <2>1 DEF KeyInv, Exists
<1>9. Keeps
  <2>1. clock \in Int /\ clock' = clock
    BY <1>1 DEF TypeOK, Times
  <2>2. clock' >= clock
    BY <2>1
  <2>3. status' = status /\ logged' = logged
    BY <1>1
  <2>4. \A x \in Keys :
          /\ row'[x].principal = row[x].principal /\ row'[x].expiresAt = row[x].expiresAt
          /\ row[x].lastUsedAt # Null => row'[x].lastUsedAt # Null
          /\ row'[x].disabledAt = row[x].disabledAt
    BY <1>4, Zenon
  <2> HIDE DEF AuthInv
  <2> QED BY <2>2, <2>3, <2>4 DEF Keeps
<1>10. ASSUME NEW x \in Calls, x # c PROVE CallInv(x)'
  BY <1>6, <1>7, <1>9, <1>10, CallKept DEF Becomes
<1>11. CallInv(c)'
  <2>1. /\ call'[c].at \in {"marked", "done"} /\ call'[c].bearer = call[c].bearer
        /\ call'[c].record = call[c].record /\ ~Accepted(c)'
        /\ ~call'[c].askedTooLate
    BY <1>2, <1>5, <1>6 DEF Becomes, Accepted
  <2>2. FoundInv(c)'
    BY <1>1, <1>2, <1>4, <2>1 DEF CallInv, FoundInv, Exists
  <2>3. Vouched(c)' /\ Used(c)' /\ TooLate(c)'
    BY <1>1, <1>4, <2>1 DEF CallInv, Vouched, Used, TooLate
  <2> QED BY <2>2, <2>3 DEF CallInv
<1> QED BY <1>7, <1>8, <1>10, <1>11

\* The success is logged and the principal returned.
LEMMA AcceptStep ==
  ASSUME AuthInv, NEW c \in Calls, Accept(c)
  PROVE  AuthInv'
<1> USE DEF AuthInv
<1> DEFINE k == call[c].bearer.kid
           p == call[c].record.principal
<1>1. /\ UNCHANGED <<status, row, keyVars, clock, gatewayClock>>
      /\ CallInv(c) /\ call[c].at = "marked"
      /\ logged' = logged \cup {<<k, p>>}
  BY DEF Accept
<1>2. /\ k \in Keys /\ Exists(k) /\ row[k].principal = p
      /\ call[c].bearer.parsed /\ call[c].bearer.genuine
      /\ call[c].record.found /\ call[c].record.kid = k
      /\ row[k].lastUsedAt # Null /\ ~call[c].askedTooLate
  BY <1>1 DEF CallInv, FoundInv, Vouched, Used, TooLate
<1>3. p \in Principals
  BY <1>2 DEF TypeOK, KeyRow, Exists
<1>4. logged' \in SUBSET (Keys \X Principals) /\ logged \subseteq logged'
  BY <1>1, <1>2, <1>3 DEF TypeOK
<1>5. Becomes(c, "done", call[c].bearer, call[c].record, call[c].statementTime,
              call[c].sawActive, "accepted", call[c].askedTooLate)
  BY Names, SetAnswer DEF Accept
<1>6. CallInv(c)'
  BY <1>1, <1>2, <1>5
  DEF CallInv, FoundInv, Vouched, Used, TooLate, Becomes, Exists
<1> QED BY <1>1, <1>4, <1>5, <1>6, OwnStep DEF Becomes

\* Before the first creation and the first call.
LEMMA AuthInit == Init => AuthInv
<1> SUFFICES ASSUME Init PROVE AuthInv
  OBVIOUS
<1>1. NoRow \in KeyRow /\ NoRow.principal = Null /\ 0 \in Times
  BY NoRowType, ConstantsAssumption DEF Times
<1>2. "idle" \in Stages /\ "idle" \in Places /\ "none" \in Answers
  BY DEF Stages, Places, Answers
<1>3. Malformed \in Bearers /\ DummyRecord \in Records
  BY <1>1 DEF Malformed, Bearers, DummyRecord, Records
<1>4. TypeOK
  BY <1>1, <1>2, <1>3 DEF Init, TypeOK, NoCall
<1>5. \A k \in Keys : KeyInv(k)
  BY <1>1 DEF Init, KeyInv, Exists
<1>6. \A c \in Calls : CallInv(c)
  BY DEF Init, NoCall, DummyRecord, CallInv, FoundInv, Vouched, Used, TooLate, Accepted
<1> QED BY <1>4, <1>5, <1>6 DEF AuthInv

\* Every step of a creation, a call, the operator or a clock keeps the invariant.
LEMMA AuthStep == AuthInv /\ [Next]_vars => AuthInv'
<1> SUFFICES ASSUME AuthInv, [Next]_vars PROVE AuthInv'
  OBVIOUS
<1>1. CASE \E k \in Keys, p \in Principals, t \in Times : admin_create_api_key(k, p, t)
  BY <1>1, StageStep
<1>2. CASE \E k \in Keys : Publish(k) \/ PublishFails(k) \/ CreateAborts(k) \/ SendCommit(k)
  BY <1>2, StageStep
<1>3. CASE \E k \in Keys : ServerCommit(k)
  BY <1>3, CommitStep
<1>4. CASE \E k \in Keys, now \in StatementTimes : admin_disable_api_key(k, now)
  BY <1>4, DisableStep
<1>5. CASE \E c \in Calls : (\E b \in Bearers : Begin(c, b)) \/ LookupAPIKey(c)
  BY <1>5, LookStep
<1>6. CASE \E c \in Calls : Refuse(c) \/ MarkRefused(c) \/ StoreFails(c) \/ GiveUp(c)
  BY <1>6, TurnedAwayStep
<1>7. CASE \E c \in Calls : AskMark(c)
  BY <1>7, AskStep
<1>8. CASE \E c \in Calls : StartMark(c)
  BY <1>8, StartStep
<1>9. CASE \E c \in Calls : mark_api_key_used(c)
  BY <1>9, MarkStep
<1>10. CASE \E c \in Calls : Accept(c)
  BY <1>10, AcceptStep
<1>11. CASE \/ \E p \in Principals : DisablePrincipal(p)
            \/ Tick \/ GatewayTick \/ UNCHANGED vars
  BY <1>11, QuietStep
<1> QED BY <1>1, <1>2, <1>3, <1>4, <1>5, <1>6, <1>7, <1>8, <1>9, <1>10, <1>11 DEF Next

\* So it holds always.
LEMMA AuthInvariant == Spec => []AuthInv
BY AuthInit, AuthStep, PTL DEF Spec

-----------------------------------------------------------------------------
(***************************************************************************)
(* The theorems.                                                           *)
(***************************************************************************)

\* Rows, creations and calls always keep their shape.
THEOREM TypeCorrect == Spec => []TypeOK
<1>1. AuthInv => TypeOK
  BY DEF AuthInv
<1> QED BY <1>1, AuthInvariant, PTL

\* No key works unless its bearer was published in full first, and a creation
\* that agentboxctl reports has left a key (CreateAndPublishAPIKey).
THEOREM KeysAlwaysPublished == Spec => []KeysArePublished
<1>1. AuthInv => KeysArePublished
  BY DEF AuthInv, KeyInv, KeysArePublished
<1> QED BY <1>1, AuthInvariant, PTL

\* AuthenticateAPIKey accepts only a published key's own bearer, for the key's
\* own principal, with the use on record in the row and in the log.
THEOREM AcceptanceAlwaysJustified == Spec => []AcceptanceJustified
<1>1. ASSUME AuthInv, NEW c \in Calls, Accepted(c)
      PROVE  LET k == call[c].bearer.kid IN
             /\ call[c].bearer.parsed /\ call[c].bearer.genuine
             /\ k \in published
             /\ call[c].record.principal = row[k].principal
             /\ row[k].lastUsedAt # Null /\ <<k, row[k].principal>> \in logged
  <2> DEFINE k == call[c].bearer.kid
  <2>1. CallInv(c)
    BY <1>1 DEF AuthInv
  <2>2. /\ call[c].bearer.parsed /\ call[c].bearer.genuine
        /\ k \in Keys /\ Exists(k) /\ row[k].principal = call[c].record.principal
        /\ row[k].lastUsedAt # Null /\ <<k, call[c].record.principal>> \in logged
    BY <1>1, <2>1 DEF CallInv, FoundInv, Vouched, Used
  <2>3. k \in published
    BY <1>1, <2>2 DEF AuthInv, KeyInv
  <2> QED BY <2>2, <2>3
<1>2. AuthInv => AcceptanceJustified
  BY <1>1 DEF AcceptanceJustified
<1> QED BY <1>2, AuthInvariant, PTL

\* However stale the lookup and however far apart the clocks, a key that had ended
\* in the database when the gateway asked to mark it is not accepted.
THEOREM RevocationAlwaysStopsInFlight == Spec => []RevocationStopsInFlight
<1>1. AuthInv => RevocationStopsInFlight
  BY DEF AuthInv, CallInv, TooLate, RevocationStopsInFlight
<1> QED BY <1>1, AuthInvariant, PTL

\* No step changes the row of a disabled key: the commit finds no row, a second
\* disabling keeps the first time, and mark_api_key_used checks disabled_at on the
\* version that the lock shows.
THEOREM DisabledAlwaysFinal == Spec => DisabledIsFinal
<1>1. ASSUME AuthInv, [Next]_vars, NEW k \in Keys, row[k].disabledAt # Null
      PROVE  row'[k] = row[k]
  <2>1. row \in [Keys -> KeyRow] /\ KeyInv(k)
    BY <1>1 DEF AuthInv, TypeOK
  <2>2. Exists(k)
    BY <1>1, <2>1 DEF KeyInv, NoRow
  <2>3. CASE \E x \in Keys : ServerCommit(x)
    <3>1. PICK x \in Keys : ServerCommit(x)
      BY <2>3
    <3>2. x # k
      BY <2>1, <2>2, <3>1 DEF ServerCommit, KeyInv
    <3> QED BY <2>1, <3>1, <3>2 DEF ServerCommit
  <2>4. CASE \E x \in Keys, now \in StatementTimes : admin_disable_api_key(x, now)
    <3>1. PICK x \in Keys, now \in StatementTimes : admin_disable_api_key(x, now)
      BY <2>4
    <3>2. CASE x # k
      BY <2>1, <3>1, <3>2 DEF admin_disable_api_key
    <3>3. CASE x = k
      <4>1. row' = [row EXCEPT ![k].disabledAt = row[k].disabledAt]
        BY <1>1, <3>1, <3>3 DEF admin_disable_api_key
      <4> QED BY <2>1, <4>1 DEF KeyRow
    <3> QED BY <3>2, <3>3
  <2>5. CASE \E c \in Calls : mark_api_key_used(c)
    <3>1. PICK c \in Calls : mark_api_key_used(c)
      BY <2>5
    <3>2. call[c].bearer.kid # k
      BY <1>1, <3>1 DEF mark_api_key_used, Markable
    <3> QED BY <2>1, <3>1, <3>2 DEF mark_api_key_used
  <2>6. CASE row' = row
    BY <2>6
  <2> QED
    BY <1>1, <2>3, <2>4, <2>5, <2>6
    DEF Next, vars, admin_create_api_key, Publish, PublishFails, CreateAborts, SendCommit,
        DisablePrincipal, Begin, LookupAPIKey, Refuse, AskMark, StartMark, MarkRefused,
        GiveUp, StoreFails, Accept, Tick, GatewayTick
<1>2. AuthInv /\ [Next]_vars
        => [\A k \in Keys : row[k].disabledAt # Null => row'[k] = row[k]]_vars
  BY <1>1
<1> QED BY <1>2, AuthInvariant, PTL DEF Spec, DisabledIsFinal
=============================================================================
