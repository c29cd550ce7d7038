----------------------------- MODULE SessionGet -----------------------------
(***************************************************************************)
(* GET /v1/session/{cpi}/{session_id}: a merchant backend redeems a scan.  *)
(*                                                                         *)
(* Each element of Requests is one invocation of the session-get Lambda.   *)
(* Invocations run concurrently in different containers and meet only in   *)
(* two DynamoDB tables: the platform's merchants table (credits, active)   *)
(* and the integrity-results table (rows). The handler awaits three times  *)
(* (key load, debit, read); between two awaits it runs to completion, so   *)
(* everything between two awaits is one action.                            *)
(*                                                                         *)
(* The debit is an UpdateItem sent through an SDK client whose attempts    *)
(* time out and are retried. An attempt that timed out on the client may   *)
(* still be executed by the table, before or after the retry.              *)
(***************************************************************************)
EXTENDS Integers, FiniteSets

CONSTANTS
  Requests,            \* handler invocations
  Merchants,           \* merchant ids (primary key of the merchants table)
  Cpis, Sessions,      \* path parameters that pass the format checks
  KeyIds,              \* API Gateway key ids
  PublicKeys,          \* device public keys
  RequestShapes,       \* the requests clients may send, a set of RequestType
  VerifierConfigured,  \* PLATFORM_PUBKEY_SSM_PATH is set
  MaxAttempts,         \* attempts the SDK makes of one command
  CreditCap,           \* bound: credits a merchant is ever granted
  ScanKeys,            \* bound: the (cpi, session id) pairs that may be stored
  None                 \* an absent header, row or public key

\* The claims of x-argus-token; "signed" says the platform's key signed them.
TokenType ==
  [merchantId : Merchants, cpi : Cpis, keyId : KeyIds, signed : BOOLEAN]

\* An SDK attestation. "timely" stands for the version, purpose and
\* iat/exp-with-skew checks; keyId is the key its fingerprint was taken of
\* and signer the key the signature verifies under.
AttestationType ==
  [timely : BOOLEAN, cpi : Cpis, sessionId : Sessions, publicKey : PublicKeys,
   keyId : PublicKeys, signer : PublicKeys]

RequestType ==
  [cpi : Cpis, sessionId : Sessions, apiKey : KeyIds \cup {None},
   token : TokenType \cup {None}, attestation : AttestationType \cup {None}]

ASSUME ShapesAssumption == RequestShapes \subseteq RequestType
ASSUME ScanKeysAssumption == ScanKeys \subseteq Cpis \X Sessions
ASSUME RequestsAssumption == IsFiniteSet(Requests)
ASSUME AttemptsAssumption == MaxAttempts \in Nat \ {0}
ASSUME CapAssumption == CreditCap \in Nat
ASSUME ConfigAssumption == VerifierConfigured \in BOOLEAN
\* None is the absence of a value, never a value.
ASSUME NoneAssumption ==
  None \notin RequestType \cup TokenType \cup AttestationType \cup KeyIds \cup PublicKeys

VARIABLES
  credits,    \* merchants table: credits column
  active,     \* merchants table: active column
  rows,       \* integrity-results table: the row's stored device key by key
  pc,         \* where each invocation is, or the result it answered with
  input,      \* the request an invocation is serving
  attempt,    \* the SDK attempt of the debit under way
  wire,       \* debit attempts sent and not (yet) executed by the table
  served,     \* the row an invocation projected its answer from
  \* History variables: nothing reads them but properties.
  burned,     \* credits burned per merchant
  debited,    \* how often an invocation's debit was executed
  kept        \* the row was stored when the request came, and still is

vars == <<credits, active, rows, pc, input, attempt, wire, served,
          burned, debited, kept>>

tables == <<credits, active, rows>>
history == <<burned, debited, kept>>

RowKeys == Cpis \X Sessions

\* A stored row, reduced to the device key it carries: rows written for an
\* unidentified device have no identification.pubkey (noKey).
noKey == "no public key"
noRow == "no row"
RowValues == PublicKeys \cup {noKey}
\* The absence of a row is not a row.
ASSUME NoKeyAssumption == noRow \notin RowValues

Working == {"authorize", "debit", "debiting", "fetch"}
\* "read_failed" is the 404 given because the table could not be read,
\* "projection_failed" the 500 of a row that cannot be projected.
Answers == {"ok", "not_found", "read_failed", "projection_failed", "insufficient_credits",
            "invalid_attestation", "unauthorized", "verifier_misconfigured", "bad_request",
            "error"}
\* "killed": the Lambda was stopped before it answered.
Outcomes == Answers \cup {"killed"}

TypeOK ==
  /\ credits \in [Merchants -> Nat]
  /\ active \in [Merchants -> BOOLEAN]
  /\ rows \in [RowKeys -> RowValues \cup {noRow}]
  /\ pc \in [Requests -> {"idle"} \cup Working \cup Outcomes]
  /\ input \in [Requests -> RequestShapes \cup {None}]
  /\ attempt \in [Requests -> 0 .. MaxAttempts]
  /\ wire \subseteq Requests \X (1 .. MaxAttempts)
  /\ served \in [Requests -> RowValues \cup {noRow}]
  /\ burned \in [Merchants -> Nat]
  /\ debited \in [Requests -> Nat]
  /\ kept \in [Requests -> BOOLEAN]

-----------------------------------------------------------------------------
(* The checks a request goes through before it is billed.                  *)

KeyOf(q) == <<q.cpi, q.sessionId>>

\* Variant: The cpi of the path is not compared with the claims.
ClaimsMatchAnyCpi(q) ==
  /\ q.apiKey # None /\ q.token # None
  /\ q.token.keyId = q.apiKey

\* The token checks that need no key: both headers, shape, key id, cpi.
ClaimsMatch(q) ==
  /\ q.apiKey # None /\ q.token # None
  /\ q.token.keyId = q.apiKey
  /\ q.token.cpi = q.cpi

VerifyMerchantToken(q) == ClaimsMatch(q) /\ q.token.signed

VerifySdkAttestation(a, q) ==
  /\ a.timely
  /\ a.cpi = q.cpi /\ a.sessionId = q.sessionId
  /\ a.keyId = a.publicKey
  /\ a.signer = a.publicKey

AttestationAccepted(q) ==
  q.attestation # None => VerifySdkAttestation(q.attestation, q)

\* Variant: Billing before the attestation is looked at.
AfterAuthorizeBillFirst(q) ==
  CASE ~VerifierConfigured -> "verifier_misconfigured"
    [] VerifierConfigured /\ ~VerifyMerchantToken(q) -> "unauthorized"
    [] OTHER -> "debit"

\* Where authorize and verifyOptionalAttestation leave the invocation.
AfterAuthorize(q) ==
  CASE ~VerifierConfigured -> "verifier_misconfigured"
    [] VerifierConfigured /\ ~VerifyMerchantToken(q) -> "unauthorized"
    [] VerifierConfigured /\ VerifyMerchantToken(q) /\ ~AttestationAccepted(q) ->
         "invalid_attestation"
    [] OTHER -> "debit"


-----------------------------------------------------------------------------
Init ==
  /\ credits \in [Merchants -> 0 .. CreditCap]
  /\ active = [m \in Merchants |-> TRUE]
  /\ rows = [k \in RowKeys |-> noRow]
  /\ pc = [r \in Requests |-> "idle"]
  /\ input = [r \in Requests |-> None]
  /\ attempt = [r \in Requests |-> 0]
  /\ wire = {}
  /\ served = [r \in Requests |-> noRow]
  /\ burned = [m \in Merchants |-> 0]
  /\ debited = [r \in Requests |-> 0]
  /\ kept = [r \in Requests |-> FALSE]

Goto(r, from, to) ==
  /\ pc[r] = from
  /\ pc' = [pc EXCEPT ![r] = to]

(***************************************************************************)
(* The handler.                                                            *)
(***************************************************************************)

\* API Gateway delivers a request whose path parameters pass the checks of
\* the base handler and of extractSessionId; nothing is awaited before the
\* token is verified.
Receive(r) ==
  /\ Goto(r, "idle", "authorize")
  /\ \E q \in RequestShapes :
       /\ input' = [input EXCEPT ![r] = q]
       /\ kept' = [kept EXCEPT ![r] = rows[KeyOf(q)] # noRow]
  /\ UNCHANGED <<tables, attempt, wire, served, burned, debited>>

\* A malformed cpi or session id is answered 400, and an OPTIONS request 204,
\* with no port called.
RejectPath(r) ==
  /\ Goto(r, "idle", "bad_request")
  /\ UNCHANGED <<tables, input, attempt, wire, served, history>>

\* authorize, then verifyOptionalAttestation, with no await in between.
Authorize(r) ==
  /\ pc[r] = "authorize"
  /\ pc' = [pc EXCEPT ![r] = AfterAuthorize(input[r])]
  /\ UNCHANGED <<tables, input, attempt, wire, served, history>>

\* No key is cached and the SSM read fails: verifyMerchantToken throws. The
\* key is only loaded for a token that passed the other checks.
KeyLoadFails(r) ==
  /\ Goto(r, "authorize", "error")
  /\ VerifierConfigured /\ ClaimsMatch(input[r])
  /\ UNCHANGED <<tables, input, attempt, wire, served, history>>

\* The merchant a request is billed to: claims.merchantId.
Payer(r) == input[r].token.merchantId

\* The SDK puts an attempt of the UpdateItem on the wire.
SendDebit(r) ==
  /\ Goto(r, "debit", "debiting")
  /\ attempt' = [attempt EXCEPT ![r] = @ + 1]
  /\ wire' = wire \cup {<<r, attempt[r] + 1>>}
  /\ UNCHANGED <<tables, input, served, history>>

\* Variant: The condition without its first half.
DebitConditionNoFloor(m) == active[m]

\* ConditionExpression "credits >= :one AND active = :t".
DebitCondition(m) == credits[m] >= 1 /\ active[m]

\* Variant: Any answer of the table lets the request through.
AfterDebitUnchecked(m) == "fetch"

\* Where the table's answer leaves the invocation that got it.
AfterDebit(m) == IF DebitCondition(m) THEN "fetch" ELSE "insufficient_credits"

\* The table executes attempt k of r's UpdateItem, atomically.
ExecuteDebit(r, k) ==
  /\ <<r, k>> \in wire
  /\ wire' = wire \ {<<r, k>>}
  /\ IF DebitCondition(Payer(r))
       THEN /\ credits' = [credits EXCEPT ![Payer(r)] = @ - 1]
            /\ burned' = [burned EXCEPT ![Payer(r)] = @ + 1]
            /\ debited' = [debited EXCEPT ![r] = @ + 1]
       ELSE UNCHANGED <<credits, burned, debited>>
  /\ \/ UNCHANGED pc           \* the answer is lost, late, or not waited for
     \/ /\ attempt[r] = k
        /\ Goto(r, "debiting", AfterDebit(Payer(r)))
  /\ UNCHANGED <<active, rows, input, attempt, served, kept>>

\* Variant: A retry that does not count against the SDK's budget.
RetryDebitUncounted(r) ==
  /\ Goto(r, "debiting", "debit")
  /\ attempt' = [attempt EXCEPT ![r] = @ - 1]
  /\ UNCHANGED <<tables, input, wire, served, history>>

\* The attempt's request timeout expires and the SDK makes another.
RetryDebit(r) ==
  /\ attempt[r] < MaxAttempts
  /\ Goto(r, "debiting", "debit")
  /\ UNCHANGED <<tables, input, attempt, wire, served, history>>

\* The last attempt times out, or the table refuses one without executing it:
\* decrementCredit rethrows and the error middleware answers 5xx.
FailDebit(r) ==
  /\ Goto(r, "debiting", "error")
  /\ \/ attempt[r] = MaxAttempts /\ UNCHANGED wire
     \/ <<r, attempt[r]>> \in wire /\ wire' = wire \ {<<r, attempt[r]>>}
  /\ UNCHANGED <<tables, input, attempt, served, history>>

\* Variant: An eventually consistent read may miss a row that is there.
ReadRowEventual(k) == {rows[k], noRow}

\* What a read of key k may return: the GetItem is strongly consistent.
ReadRow(k) == {rows[k]}

\* Variant: A row without a public key is let through.
BoundToScanUnlessMissing(q, row) ==
  q.attestation # None => row \in {q.attestation.publicKey, noKey}

\* bindAttestationToScan: an attested read needs the attesting key on the row.
BoundToScan(q, row) == q.attestation # None => row = q.attestation.publicKey

\* fetchIntegrity, bindAttestationToScan and the projection, which may throw.
FetchAndAnswer(r) ==
  /\ pc[r] = "fetch"
  /\ \E row \in ReadRow(KeyOf(input[r])) :
       IF row = noRow
         THEN /\ pc' = [pc EXCEPT ![r] = "not_found"]
              /\ UNCHANGED served
         ELSE IF BoundToScan(input[r], row)
           THEN \E answer \in {"ok", "projection_failed"} :
                  /\ pc' = [pc EXCEPT ![r] = answer]
                  /\ served' = [served EXCEPT ![r] = row]
           ELSE /\ pc' = [pc EXCEPT ![r] = "invalid_attestation"]
                /\ UNCHANGED served
  /\ UNCHANGED <<tables, input, attempt, wire, history>>

\* The read throws: logged, and answered 404 like a missing session.
FetchFails(r) ==
  /\ Goto(r, "fetch", "read_failed")
  /\ UNCHANGED <<tables, input, attempt, wire, served, history>>

\* Lambda kills the invocation (timeout, out of memory) between two awaits.
Kill(r) ==
  /\ pc[r] \in Working
  /\ pc' = [pc EXCEPT ![r] = "killed"]
  /\ UNCHANGED <<tables, input, attempt, wire, served, history>>

(***************************************************************************)
(* The environment: the platform owns the merchants table; ingestion and   *)
(* the table's TTL own the rows.                                           *)
(***************************************************************************)

Grant(m) ==
  /\ credits[m] + burned[m] < CreditCap
  /\ credits' = [credits EXCEPT ![m] = @ + 1]
  /\ UNCHANGED <<active, rows, pc, input, attempt, wire, served, history>>

Deactivate(m) ==
  /\ active[m]
  /\ active' = [active EXCEPT ![m] = FALSE]
  /\ UNCHANGED <<credits, rows, pc, input, attempt, wire, served, history>>

StoreRow(k, row) ==
  /\ rows[k] = noRow
  /\ rows' = [rows EXCEPT ![k] = row]
  /\ UNCHANGED <<credits, active, pc, input, attempt, wire, served, history>>

ExpireRow(k) ==
  /\ rows[k] # noRow
  /\ rows' = [rows EXCEPT ![k] = noRow]
  /\ kept' = [r \in Requests |->
                kept[r] /\ (pc[r] \in Working => KeyOf(input[r]) # k)]
  /\ UNCHANGED <<credits, active, pc, input, attempt, wire, served, burned, debited>>

Handler(r) ==
  \/ Authorize(r) \/ KeyLoadFails(r)
  \/ SendDebit(r) \/ RetryDebit(r) \/ FailDebit(r)
  \/ FetchAndAnswer(r) \/ FetchFails(r)

Next ==
  \/ \E r \in Requests : Receive(r) \/ RejectPath(r) \/ Handler(r) \/ Kill(r)
  \/ \E r \in Requests, k \in 1 .. MaxAttempts : ExecuteDebit(r, k)
  \/ \E m \in Merchants : Grant(m) \/ Deactivate(m)
  \/ \E k \in ScanKeys : ExpireRow(k) \/ \E row \in RowValues : StoreRow(k, row)

\* An invocation that was started goes on running: every await of it ends in
\* an answer, an error or a timeout, and Lambda resumes it.
Fairness == \A r \in Requests : WF_vars(Handler(r))

Spec == Init /\ [][Next]_vars
FairSpec == Spec /\ Fairness

-----------------------------------------------------------------------------
(* Properties.                                                             *)

\* Requests billed to merchant m that were let through to the read.
PaidReads(m) ==
  {r \in Requests :
     /\ pc[r] \in {"fetch", "ok", "not_found", "read_failed", "projection_failed"}
     /\ Payer(r) = m}

\* The ones among them that were answered with a verdict.
Verdicts(m) == {r \in PaidReads(m) : pc[r] = "ok"}

\* No merchant ever gets more billable reads than it had credits burned, and
\* none is burned that it did not have (TypeOK keeps credits in Nat), however
\* debits, lost answers, late executions and deactivations interleave.
EveryReadIsPaidFor ==
  \A m \in Merchants : Cardinality(PaidReads(m)) <= burned[m]

\* A verdict goes only to the holder of a platform-signed token for the
\* row's cpi, presented with its own gateway key; if the request carried an
\* attestation, it was made for this scan by the device key on the row.
VerdictOnlyToOwner ==
  \A r \in Requests : pc[r] = "ok" =>
    LET q == input[r] IN
    /\ q.token.signed /\ q.token.cpi = q.cpi /\ q.token.keyId = q.apiKey
    /\ q.attestation # None =>
         /\ VerifySdkAttestation(q.attestation, q)
         /\ served[r] = q.attestation.publicKey

\* A request rejected before the debit (malformed, unauthorised, or with an
\* attestation that does not verify) costs nothing, not even later.
RejectionIsFree ==
  \A r \in Requests :
    \/ pc[r] \in {"bad_request", "unauthorized", "verifier_misconfigured"}
    \/ pc[r] = "invalid_attestation" /\ ~AttestationAccepted(input[r])
    => debited[r] = 0 /\ \A k \in 1 .. MaxAttempts : <<r, k>> \notin wire

\* A scan stored before the merchant asked, and not expired since, is not
\* answered "session not found" unless the read itself failed: what the
\* consistent read is there for.
StoredScanIsFound ==
  \A r \in Requests : pc[r] = "not_found" => ~kept[r]

\* Every invocation ends: the retries of the debit are bounded.
EveryRequestEnds ==
  \A r \in Requests : pc[r] \in Working ~> pc[r] \in Outcomes

\* "Atomically burns a merchant credit": one invocation, one credit at most.
OneCreditPerRequest == \A r \in Requests : debited[r] <= 1

\* Session-get keeps the promise of the credit ledger.
Ledger == INSTANCE CreditLedger WITH
  balance <- credits,
  verdicts <- [m \in Merchants |-> Cardinality(Verdicts(m))]
LedgerPromise == Ledger!LedgerSpec
=============================================================================
