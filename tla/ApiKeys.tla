------------------------------ MODULE ApiKeys -------------------------------
(***************************************************************************)
(* API keys (internal/auth: apikey.go, repository.go, authenticator.go;    *)
(* migrations 000002 and 000010; agentboxctl api-key): an operator creates *)
(* a key, whose bearer is printed before the transaction commits, and      *)
(* disables it; requests authenticate with it all the while.               *)
(*                                                                         *)
(* AuthenticateAPIKey looks the key up, checks the copy it got against the *)
(* gateway's clock, and asks the database to mark the key used, which      *)
(* checks again against the database's clock.  The mark is a statement of  *)
(* its own: it reads the time and the principal when it starts, may wait   *)
(* for the row's lock, and then checks the newest version of the row.      *)
(*                                                                         *)
(* HMAC and hex are ideal: a verifier accepts the one bearer it was made   *)
(* from.  Random key ids never repeat, in the prefix that is logged        *)
(* neither, and are never the dummy's.  The principals exist already.      *)
(***************************************************************************)
EXTENDS Integers

CONSTANTS
  Principals,  \* rows of table principals
  Keys,        \* key ids, one for each creation that agentboxctl attempts
  Dummy,       \* dummyAPIKeyID
  Calls,       \* calls of AuthenticateAPIKey
  Null,        \* SQL NULL
  MaxClock,    \* bound on both clocks
  MaxLag       \* how old a statement's timestamp can be when it takes effect

ASSUME ConstantsAssumption ==
  /\ Dummy \notin Keys /\ Null \notin Principals \cup Nat
  /\ MaxClock \in Nat /\ MaxLag \in Nat

VARIABLES
  status,       \* principals.status
  row,          \* api_keys by key id
  create,       \* each run of agentboxctl api-key create
  revealed,     \* keys whose bearer may have left agentboxctl
  published,    \* keys whose publication succeeded
  call,         \* each call of AuthenticateAPIKey
  logged,       \* the key and principal in APIKeyAuthenticationSuccess lines
  clock,        \* the database's clock
  gatewayClock  \* the gateway's clock

keyVars == <<create, revealed, published>>
vars == <<status, row, keyVars, call, logged, clock, gatewayClock>>

-----------------------------------------------------------------------------

Times == 0..MaxClock

\* A row of api_keys; principal Null stands for no row.
KeyRow == [principal  : Principals \cup {Null},
           expiresAt  : Times,
           lastUsedAt : Times \cup {Null},
           disabledAt : Times \cup {Null}]

NoRow == [principal |-> Null, expiresAt |-> 0,
          lastUsedAt |-> Null, disabledAt |-> Null]

Exists(k) == row[k].principal # Null

\* A bearer names a key and carries the secret of that key or another one.
\* One that does not parse is replaced by the dummy's bearer.
Bearers == [parsed : BOOLEAN, kid : Keys \cup {Dummy}, genuine : BOOLEAN]
Malformed == [parsed |-> FALSE, kid |-> Dummy, genuine |-> TRUE]

\* What LookupAPIKey returns, and what stands in for it when there is no row.
Records == [kid : Keys \cup {Dummy}, found : BOOLEAN,
            principal : Principals \cup {Null}, principalActive : BOOLEAN,
            expiresAt : Times, disabled : BOOLEAN]

DummyRecord == [kid |-> Dummy, found |-> FALSE, principal |-> Null,
                principalActive |-> FALSE, expiresAt |-> 0, disabled |-> FALSE]

\* "askedTooLate" is a history field: the key had ended in the database when
\* the gateway asked to mark it used.
NoCall == [at |-> "idle", bearer |-> Malformed, record |-> DummyRecord,
           statementTime |-> 0, sawActive |-> FALSE, answer |-> "none",
           askedTooLate |-> FALSE]

Init ==
  /\ status = [p \in Principals |-> "active"]
  /\ row = [k \in Keys |-> NoRow]
  /\ create = [k \in Keys |-> [at |-> "idle", row |-> NoRow]]
  /\ revealed = {} /\ published = {}
  /\ call = [c \in Calls |-> NoCall]
  /\ logged = {}
  /\ clock = 0 /\ gatewayClock = 0

-----------------------------------------------------------------------------
\* Creation.

\* generateAPIKey, and admin_create_api_key in a transaction that stays open.
admin_create_api_key(k, p, expiresAt) ==
  /\ create[k].at = "idle"
  /\ status[p] = "active" /\ expiresAt > clock
  /\ create' = [create EXCEPT ![k] =
       [at |-> "inserted",
        row |-> [NoRow EXCEPT !.principal = p, !.expiresAt = expiresAt]]]
  /\ UNCHANGED <<status, row, revealed, published, call, logged, clock, gatewayClock>>

Publish(k) ==
  /\ create[k].at = "inserted"
  /\ create' = [create EXCEPT ![k].at = "published"]
  /\ revealed' = revealed \cup {k}
  /\ published' = published \cup {k}
  /\ UNCHANGED <<status, row, call, logged, clock, gatewayClock>>

\* The write to stdout fails, with the bearer on its way or not, and the
\* deferred Rollback runs.
PublishFails(k) ==
  /\ create[k].at = "inserted"
  /\ create' = [create EXCEPT ![k] = [at |-> "failed", row |-> NoRow]]
  /\ revealed' \in {revealed, revealed \cup {k}}
  /\ UNCHANGED <<status, row, published, call, logged, clock, gatewayClock>>

\* The transaction ends without a commit: agentboxctl dies, its context ends,
\* or the server gives up on it or on the COMMIT.
CreateAborts(k) ==
  /\ create[k].at \in {"inserted", "published", "committing"}
  /\ create' = [create EXCEPT ![k] = [at |-> "failed", row |-> NoRow]]
  /\ UNCHANGED <<status, row, revealed, published, call, logged, clock, gatewayClock>>

\* Mutant: COMMIT before publication.
CommitUnpublished(k) ==
  /\ create[k].at \in {"inserted", "published"}
  /\ create' = [create EXCEPT ![k].at = "committing"]
  /\ UNCHANGED <<status, row, revealed, published, call, logged, clock, gatewayClock>>

SendCommit(k) ==
  /\ create[k].at = "published"
  /\ create' = [create EXCEPT ![k].at = "committing"]
  /\ UNCHANGED <<status, row, revealed, published, call, logged, clock, gatewayClock>>

\* The server commits; agentboxctl hears of it, or reports a failure.
ServerCommit(k) ==
  /\ create[k].at = "committing"
  /\ row' = [row EXCEPT ![k] = create[k].row]
  /\ \E heard \in BOOLEAN :
       create' = [create EXCEPT ![k] =
         [at |-> IF heard THEN "created" ELSE "failed", row |-> NoRow]]
  /\ UNCHANGED <<status, revealed, published, call, logged, clock, gatewayClock>>

-----------------------------------------------------------------------------
\* Revocation.

\* The time a statement read when it started, before it waited for a lock.
StatementTimes == {t \in Times : clock - MaxLag <= t /\ t <= clock}

\* Mutant: the disabling as in 000002, without its guard on disabled_at.
DisableAgain(k, now) ==
  /\ Exists(k)
  /\ row' = [row EXCEPT ![k].disabledAt = now]
  /\ UNCHANGED <<status, keyVars, call, logged, clock, gatewayClock>>

\* A second disabling keeps the time of the first.
admin_disable_api_key(k, now) ==
  /\ Exists(k)
  /\ row' = [row EXCEPT ![k].disabledAt = IF @ = Null THEN now ELSE @]
  /\ UNCHANGED <<status, keyVars, call, logged, clock, gatewayClock>>

\* An operator disables a principal.
DisablePrincipal(p) ==
  /\ status[p] = "active"
  /\ status' = [status EXCEPT ![p] = "disabled"]
  /\ UNCHANGED <<row, keyVars, call, logged, clock, gatewayClock>>

\* The key, its principal or its time is over, by the database.
Ended(k) ==
  \/ row[k].disabledAt # Null
  \/ status[row[k].principal] = "disabled"
  \/ clock >= row[k].expiresAt

-----------------------------------------------------------------------------
\* Authentication.

\* parseBearer.  Nobody presents a bearer that has not left agentboxctl.
Begin(c, bearer) ==
  /\ call[c].at = "idle"
  /\ bearer.parsed /\ bearer.genuine => bearer.kid \in revealed \cup {Dummy}
  /\ call' = [call EXCEPT ![c].at = "looking", ![c].bearer = bearer]
  /\ UNCHANGED <<status, row, keyVars, logged, clock, gatewayClock>>

\* lookup_api_key_auth, one snapshot of both tables.
LookedUp(k) ==
  IF k \in Keys /\ Exists(k)
    THEN [kid |-> k, found |-> TRUE, principal |-> row[k].principal,
          principalActive |-> status[row[k].principal] = "active",
          expiresAt |-> row[k].expiresAt, disabled |-> row[k].disabledAt # Null]
    ELSE DummyRecord

LookupAPIKey(c) ==
  /\ call[c].at = "looking"
  /\ call' = [call EXCEPT ![c].at = "checking",
                          ![c].record = LookedUp(call[c].bearer.kid)]
  /\ UNCHANGED <<status, row, keyVars, logged, clock, gatewayClock>>

\* Mutant: the secret is not compared.
VerifyKeyIDOnly(bearer, verifierOf) == bearer.kid = verifierOf

\* The stored verifier was made from this bearer's key id and secret.
VerifyAPIKey(bearer, verifierOf) == bearer.genuine /\ bearer.kid = verifierOf

Acceptable(c) ==
  LET bearer == call[c].bearer
      record == call[c].record
  IN  /\ bearer.parsed /\ record.found /\ record.kid = bearer.kid
      /\ VerifyAPIKey(bearer, record.kid)
      /\ record.principalActive /\ ~record.disabled
      /\ gatewayClock < record.expiresAt

Answer(c, answer) == [call EXCEPT ![c].at = "done", ![c].answer = answer]

Refuse(c) ==
  /\ call[c].at = "checking" /\ ~Acceptable(c)
  /\ call' = Answer(c, "unauthenticated")
  /\ UNCHANGED <<status, row, keyVars, logged, clock, gatewayClock>>

AskMark(c) ==
  /\ call[c].at = "checking" /\ Acceptable(c)
  /\ call' = [call EXCEPT ![c].at = "marking",
                          ![c].askedTooLate = Ended(call[c].bearer.kid)]
  /\ UNCHANGED <<status, row, keyVars, logged, clock, gatewayClock>>

\* Mutant: the statement's time is rounded up to the next instant.
StartMarkRoundedUp(c) ==
  /\ call[c].at = "marking"
  /\ call' = [call EXCEPT
       ![c].at = "executing", ![c].statementTime = clock + 1,
       ![c].sawActive = status[call[c].record.principal] = "active"]
  /\ UNCHANGED <<status, row, keyVars, logged, clock, gatewayClock>>

\* mark_api_key_used starts: its timestamp, and its snapshot of principals.
StartMark(c) ==
  /\ call[c].at = "marking"
  /\ call' = [call EXCEPT
       ![c].at = "executing", ![c].statementTime = clock,
       ![c].sawActive = status[call[c].record.principal] = "active"]
  /\ UNCHANGED <<status, row, keyVars, logged, clock, gatewayClock>>

\* Mutant: no second look at principals.
MarkableUnlessDisabled(c) ==
  LET r == row[call[c].bearer.kid]
  IN  /\ r.principal = call[c].record.principal
      /\ r.disabledAt = Null
      /\ r.expiresAt > call[c].statementTime

\* The WHERE clause, on the version of the row that the lock shows.
Markable(c) ==
  LET r == row[call[c].bearer.kid]
  IN  /\ r.principal = call[c].record.principal
      /\ r.disabledAt = Null
      /\ r.expiresAt > call[c].statementTime
      /\ call[c].sawActive

\* The row is updated and the statement commits, whether or not the caller,
\* who may have its answer already, still waits for it.
mark_api_key_used(c) ==
  /\ call[c].at = "executing" /\ Markable(c)
  /\ row' = [row EXCEPT ![call[c].bearer.kid].lastUsedAt = call[c].statementTime]
  /\ call' = IF call[c].answer = "none" THEN [call EXCEPT ![c].at = "marked"]
                                        ELSE Answer(c, call[c].answer)
  /\ UNCHANGED <<status, keyVars, logged, clock, gatewayClock>>

MarkRefused(c) ==
  /\ call[c].at = "executing" /\ ~Markable(c)
  /\ call' = Answer(c, IF call[c].answer = "none" THEN "unauthenticated"
                                                  ELSE call[c].answer)
  /\ UNCHANGED <<status, row, keyVars, logged, clock, gatewayClock>>

\* The connection, the context or the statement's time runs out while the
\* server works; it may still finish.
GiveUp(c) ==
  /\ call[c].at = "executing" /\ call[c].answer = "none"
  /\ call' = [call EXCEPT ![c].answer = "unavailable"]
  /\ UNCHANGED <<status, row, keyVars, logged, clock, gatewayClock>>

\* The lookup, the mark or the log line fails and changes nothing.
StoreFails(c) ==
  /\ call[c].at \in {"looking", "marking", "executing", "marked"}
  /\ call' = Answer(c, "unavailable")
  /\ UNCHANGED <<status, row, keyVars, logged, clock, gatewayClock>>

\* APIKeyAuthenticationSuccess, and the principal is returned.
Accept(c) ==
  /\ call[c].at = "marked"
  /\ logged' = logged \cup {<<call[c].bearer.kid, call[c].record.principal>>}
  /\ call' = Answer(c, "accepted")
  /\ UNCHANGED <<status, row, keyVars, clock, gatewayClock>>

-----------------------------------------------------------------------------

Tick ==
  /\ clock < MaxClock
  /\ clock' = clock + 1
  /\ UNCHANGED <<status, row, keyVars, call, logged, gatewayClock>>

\* The gateway's clock is not the database's.
GatewayTick ==
  /\ gatewayClock < MaxClock
  /\ gatewayClock' = gatewayClock + 1
  /\ UNCHANGED <<status, row, keyVars, call, logged, clock>>

Next ==
  \/ \E k \in Keys, p \in Principals, t \in Times : admin_create_api_key(k, p, t)
  \/ \E k \in Keys : Publish(k) \/ PublishFails(k) \/ CreateAborts(k)
                       \/ SendCommit(k) \/ ServerCommit(k)
  \/ \E k \in Keys, now \in StatementTimes : admin_disable_api_key(k, now)
  \/ \E p \in Principals : DisablePrincipal(p)
  \/ \E c \in Calls, b \in Bearers : (b.parsed \/ b = Malformed) /\ Begin(c, b)
  \/ \E c \in Calls : LookupAPIKey(c) \/ Refuse(c) \/ AskMark(c) \/ StartMark(c)
                        \/ mark_api_key_used(c) \/ MarkRefused(c)
                        \/ GiveUp(c) \/ StoreFails(c) \/ Accept(c)
  \/ Tick \/ GatewayTick

Spec == Init /\ [][Next]_vars

-----------------------------------------------------------------------------

Places == {"idle", "looking", "checking", "marking", "executing", "marked", "done"}
Answers == {"none", "unauthenticated", "unavailable", "accepted"}
Stages == {"idle", "inserted", "published", "committing", "created", "failed"}

\* Rows, creations and calls keep their shape.
TypeOK ==
  /\ status \in [Principals -> {"active", "disabled"}]
  /\ row \in [Keys -> KeyRow]
  /\ create \in [Keys -> [at : Stages, row : KeyRow]]
  /\ revealed \in SUBSET Keys /\ published \in SUBSET Keys
  /\ call \in [Calls -> [at : Places, bearer : Bearers, record : Records,
                         statementTime : Times, sawActive : BOOLEAN,
                         answer : Answers, askedTooLate : BOOLEAN]]
  /\ logged \in SUBSET (Keys \X Principals)
  /\ clock \in Times /\ gatewayClock \in Times

\* CreateAndPublishAPIKey keeps a key uncommitted until publication has
\* succeeded: no key works, in whoever's hands its bearer is, unless the operator
\* was shown it in full; and when agentboxctl reports success there is a key.
KeysArePublished ==
  \A k \in Keys : /\ Exists(k) => k \in published
                  /\ create[k].at = "created" => Exists(k)

Accepted(c) == call[c].answer = "accepted"

\* AuthenticateAPIKey accepts only the bearer that was published for an existing
\* key, and returns the principal that the key was created for: neither the dummy
\* bearer, nor one left over from a failed creation, nor another secret will do.
\* And it has recorded the use before it returns: in last_used_at, also when other
\* calls and a disabling have come since, and in the log.
AcceptanceJustified ==
  \A c \in Calls : Accepted(c) =>
    LET k == call[c].bearer.kid IN
    /\ call[c].bearer.parsed /\ call[c].bearer.genuine
    /\ k \in published
    /\ call[c].record.principal = row[k].principal
    /\ row[k].lastUsedAt # Null /\ <<k, row[k].principal>> \in logged

\* A lookup goes stale at once; mark_api_key_used makes up for it: a request is
\* refused if its key was disabled or expired, or its principal disabled, before
\* the gateway asked to mark the key used, whatever the lookup had said and
\* however far behind the gateway's clock is.
RevocationStopsInFlight ==
  \A c \in Calls : Accepted(c) => ~call[c].askedTooLate

\* A disabled key's row never changes again: neither a statement that was waiting
\* for its lock nor a second disabling touches it.
DisabledIsFinal ==
  [][\A k \in Keys : row[k].disabledAt # Null => row'[k] = row[k]]_vars
=============================================================================
