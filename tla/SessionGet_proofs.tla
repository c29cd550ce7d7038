-------------------------- MODULE SessionGet_proofs --------------------------
(***************************************************************************)
(* Theorems about SessionGet for every number of concurrent invocations,   *)
(* merchants, scans, SDK attempts and credits.                             *)
(***************************************************************************)
EXTENDS SessionGet, FiniteSetTheorems, TLAPS

-----------------------------------------------------------------------------
(* Type correctness.                                                       *)

\* The SDK never has sent all its attempts when it is about to send one.
AttemptsLeft ==
  \A r \in Requests :
    /\ pc[r] \in {"idle", "authorize"} => attempt[r] = 0
    /\ pc[r] = "debit" => attempt[r] < MaxAttempts

\* The checks before the debit all passed.
Authenticated(q) ==
  VerifierConfigured /\ VerifyMerchantToken(q) /\ AttestationAccepted(q)

Admitted ==
  {"debit", "debiting", "fetch", "ok", "not_found", "read_failed", "projection_failed",
   "insufficient_credits"}

NeverBilled ==
  {"idle", "authorize", "bad_request", "unauthorized", "verifier_misconfigured"}

\* The invocation burned a credit, or may still burn one.
Billed(r) == debited[r] # 0 \/ \E k \in 1 .. MaxAttempts : <<r, k>> \in wire

\* Only authenticated requests are admitted or billed, and nothing that was
\* answered before the debit is billed afterwards.
OnlyAuthenticatedBilled ==
  \A r \in Requests :
    /\ pc[r] \in Working => input[r] \in RequestShapes
    /\ pc[r] \in Admitted \/ Billed(r) =>
         input[r] \in RequestShapes /\ Authenticated(input[r])
    /\ Billed(r) => pc[r] \notin NeverBilled

Typed == TypeOK /\ AttemptsLeft /\ OnlyAuthenticatedBilled

LEMMA TypeInit == Init => Typed
BY CapAssumption, AttemptsAssumption
   DEF Init, Typed, TypeOK, AttemptsLeft, OnlyAuthenticatedBilled, Admitted, Billed,
       NeverBilled, RowKeys, RowValues, Working, Outcomes, Answers

LEMMA AfterAuthorizeType ==
  ASSUME NEW q
  PROVE  AfterAuthorize(q) \in Working \cup Outcomes
BY DEF AfterAuthorize, Working, Outcomes, Answers

LEMMA KeyOfType ==
  ASSUME NEW q \in RequestShapes
  PROVE  KeyOf(q) \in RowKeys
BY ShapesAssumption DEF KeyOf, RowKeys, RequestType

LEMMA TypeStep == Typed /\ [Next]_vars => TypeOK'
<1> SUFFICES ASSUME Typed, [Next]_vars PROVE TypeOK'
  OBVIOUS
<1> USE DEF Typed, TypeOK, tables, history, Goto
<1>1. ASSUME NEW r \in Requests, Receive(r) PROVE TypeOK'
  BY <1>1 DEF Receive, Working
<1>2. ASSUME NEW r \in Requests, RejectPath(r) PROVE TypeOK'
  BY <1>2 DEF RejectPath, Outcomes, Answers
<1>3. ASSUME NEW r \in Requests, Authorize(r) PROVE TypeOK'
  BY <1>3, AfterAuthorizeType DEF Authorize
<1>4. ASSUME NEW r \in Requests, KeyLoadFails(r) PROVE TypeOK'
  BY <1>4 DEF KeyLoadFails, Outcomes, Answers
<1>5. ASSUME NEW r \in Requests, SendDebit(r) PROVE TypeOK'
  BY <1>5, AttemptsAssumption DEF AttemptsLeft, SendDebit, Working
<1>6. ASSUME NEW r \in Requests, RetryDebit(r) PROVE TypeOK'
  BY <1>6 DEF RetryDebit, Working
<1>7. ASSUME NEW r \in Requests, FailDebit(r) PROVE TypeOK'
  BY <1>7 DEF FailDebit, Outcomes, Answers
<1>8. ASSUME NEW r \in Requests, FetchAndAnswer(r) PROVE TypeOK'
  <2>1. rows[KeyOf(input[r])] \in RowValues \cup {noRow}
    BY <1>8, KeyOfType DEF FetchAndAnswer, OnlyAuthenticatedBilled, Working
  <2> QED
    BY <1>8, <2>1 DEF FetchAndAnswer, ReadRow, Outcomes, Answers
<1>9. ASSUME NEW r \in Requests, FetchFails(r) PROVE TypeOK'
  BY <1>9 DEF FetchFails, Outcomes, Answers
<1>10. ASSUME NEW r \in Requests, Kill(r) PROVE TypeOK'
  BY <1>10 DEF Kill, Outcomes
<1>11. ASSUME NEW r \in Requests, NEW k \in 1 .. MaxAttempts, ExecuteDebit(r, k)
       PROVE  TypeOK'
  BY <1>11 DEF ExecuteDebit, DebitCondition, AfterDebit, Working, Outcomes, Answers
<1>12. ASSUME NEW m \in Merchants, Grant(m) PROVE TypeOK'
  BY <1>12 DEF Grant
<1>13. ASSUME NEW m \in Merchants, Deactivate(m) PROVE TypeOK'
  BY <1>13 DEF Deactivate
<1>14. ASSUME NEW k \in ScanKeys, ExpireRow(k) PROVE TypeOK'
  BY <1>14 DEF ExpireRow
<1>15. ASSUME NEW k \in ScanKeys, NEW row \in RowValues, StoreRow(k, row) PROVE TypeOK'
  BY <1>15 DEF StoreRow
<1>16. CASE UNCHANGED vars
  BY <1>16 DEF vars
<1> QED
  BY <1>1, <1>2, <1>3, <1>4, <1>5, <1>6, <1>7, <1>8, <1>9, <1>10, <1>11,
     <1>12, <1>13, <1>14, <1>15, <1>16 DEF Next, Handler

LEMMA AttemptsStep == Typed /\ [Next]_vars => AttemptsLeft'
<1> SUFFICES ASSUME Typed, [Next]_vars PROVE AttemptsLeft'
  OBVIOUS
<1> USE DEF Typed, TypeOK, AttemptsLeft, tables, history, Goto
<1>1. ASSUME NEW r \in Requests, Receive(r) \/ RejectPath(r) PROVE AttemptsLeft'
  BY <1>1 DEF Receive, RejectPath
<1>2. ASSUME NEW r \in Requests, Authorize(r) PROVE AttemptsLeft'
  <2>1. AfterAuthorize(input[r]) \notin {"idle", "authorize"}
    BY DEF AfterAuthorize
  <2> QED
    BY <1>2, <2>1, AttemptsAssumption DEF Authorize
<1>3. ASSUME NEW r \in Requests,
             KeyLoadFails(r) \/ SendDebit(r) \/ RetryDebit(r) \/ FailDebit(r)
      PROVE  AttemptsLeft'
  BY <1>3 DEF KeyLoadFails, SendDebit, RetryDebit, FailDebit
<1>4. ASSUME NEW r \in Requests, FetchAndAnswer(r) \/ FetchFails(r) \/ Kill(r)
      PROVE  AttemptsLeft'
  BY <1>4 DEF FetchAndAnswer, FetchFails, Kill
<1>5. ASSUME NEW r \in Requests, NEW k \in 1 .. MaxAttempts, ExecuteDebit(r, k)
      PROVE  AttemptsLeft'
  BY <1>5 DEF ExecuteDebit, AfterDebit
<1>6. ASSUME UNCHANGED <<pc, attempt>> PROVE AttemptsLeft'
  BY <1>6
<1> QED
  BY <1>1, <1>2, <1>3, <1>4, <1>5, <1>6
     DEF Next, Handler, Grant, Deactivate, ExpireRow, StoreRow, vars

LEMMA BillingStep == Typed /\ [Next]_vars => OnlyAuthenticatedBilled'
<1> SUFFICES ASSUME Typed, [Next]_vars PROVE OnlyAuthenticatedBilled'
  OBVIOUS
<1> USE DEF Typed, TypeOK, OnlyAuthenticatedBilled, Billed, tables, history, Goto
<1>1. ASSUME NEW r \in Requests, Receive(r) PROVE OnlyAuthenticatedBilled'
  BY <1>1 DEF Receive, Admitted, NeverBilled
<1>2. ASSUME NEW r \in Requests, RejectPath(r) PROVE OnlyAuthenticatedBilled'
  BY <1>2 DEF RejectPath, Admitted, NeverBilled, Working
<1>3. ASSUME NEW r \in Requests, Authorize(r) PROVE OnlyAuthenticatedBilled'
  <2>1. /\ AfterAuthorize(input[r]) \in Admitted => Authenticated(input[r])
        /\ AfterAuthorize(input[r]) \notin {"fetch", "authorize", "debiting"}
    BY ConfigAssumption DEF AfterAuthorize, Authenticated, Admitted
  <2>2. ~Billed(r)
    BY <1>3 DEF Authorize, NeverBilled
  <2> QED
    BY <1>3, <2>1, <2>2 DEF Authorize, Working
<1>4. ASSUME NEW r \in Requests,
             KeyLoadFails(r) \/ RetryDebit(r) \/ FailDebit(r)
      PROVE  OnlyAuthenticatedBilled'
  BY <1>4 DEF KeyLoadFails, RetryDebit, FailDebit, Admitted, NeverBilled, Working
<1>5. ASSUME NEW r \in Requests, SendDebit(r) PROVE OnlyAuthenticatedBilled'
  BY <1>5 DEF SendDebit, Admitted, NeverBilled, Working
<1>6. ASSUME NEW r \in Requests, FetchAndAnswer(r) \/ FetchFails(r) \/ Kill(r)
      PROVE  OnlyAuthenticatedBilled'
  <2>1. CASE FetchAndAnswer(r)
    <3>1. PICK x \in {"not_found", "ok", "projection_failed", "invalid_attestation"} : pc' = [pc EXCEPT ![r] = x]
      BY <2>1 DEF FetchAndAnswer
    <3>2. pc[r] = "fetch" /\ UNCHANGED <<tables, input, attempt, wire, history>>
      BY <2>1 DEF FetchAndAnswer
    <3> QED
      BY <3>1, <3>2 DEF Admitted, NeverBilled, Working
  <2>2. CASE FetchFails(r)
    BY <2>2 DEF FetchFails, Admitted, NeverBilled, Working
  <2>3. CASE Kill(r)
    BY <2>3 DEF Kill, Admitted, NeverBilled, Working
  <2> QED
    BY <1>6, <2>1, <2>2, <2>3
<1>7. ASSUME NEW r \in Requests, NEW k \in 1 .. MaxAttempts, ExecuteDebit(r, k)
      PROVE  OnlyAuthenticatedBilled'
  BY <1>7 DEF ExecuteDebit, AfterDebit, Admitted, NeverBilled, Working
<1>8. ASSUME UNCHANGED <<pc, input, wire, debited>> PROVE OnlyAuthenticatedBilled'
  BY <1>8
<1> QED
  BY <1>1, <1>2, <1>3, <1>4, <1>5, <1>6, <1>7, <1>8
     DEF Next, Handler, Grant, Deactivate, ExpireRow, StoreRow, vars

LEMMA TypedInvariant == Spec => []Typed
<1>1. Typed /\ [Next]_vars => Typed'
  BY TypeStep, AttemptsStep, BillingStep DEF Typed
<1> QED
  BY TypeInit, <1>1, PTL DEF Spec

\* Every variable keeps its type; above all, no interleaving of debits,
\* retries and grants takes a merchant's credits below zero.
THEOREM TypeCorrect == Spec => []TypeOK
<1>1. Typed => TypeOK
  BY DEF Typed
<1> QED
  BY <1>1, TypedInvariant, PTL

\* What is rejected before the debit is free, for good.
THEOREM RejectionsAreFree == Spec => []RejectionIsFree
<1>1. Typed => RejectionIsFree
  BY DEF Typed, TypeOK, OnlyAuthenticatedBilled, RejectionIsFree, Billed, NeverBilled,
         Authenticated
<1> QED
  BY <1>1, TypedInvariant, PTL

-----------------------------------------------------------------------------
(* Verdicts go to their owner.                                             *)

\* An attested verdict was projected from a row with the attesting key.
ServedIsBound ==
  \A r \in Requests : pc[r] = "ok" => BoundToScan(input[r], served[r])

LEMMA BoundStep == Typed /\ ServedIsBound /\ [Next]_vars => ServedIsBound'
<1> SUFFICES ASSUME Typed, ServedIsBound, [Next]_vars PROVE ServedIsBound'
  OBVIOUS
<1> USE DEF Typed, TypeOK, ServedIsBound, BoundToScan, tables, history, Goto
<1>1. ASSUME NEW r \in Requests, Receive(r) \/ RejectPath(r) PROVE ServedIsBound'
  BY <1>1 DEF Receive, RejectPath
<1>2. ASSUME NEW r \in Requests, Authorize(r) PROVE ServedIsBound'
  BY <1>2 DEF Authorize, AfterAuthorize
<1>3. ASSUME NEW r \in Requests,
             KeyLoadFails(r) \/ SendDebit(r) \/ RetryDebit(r) \/ FailDebit(r)
      PROVE  ServedIsBound'
  BY <1>3 DEF KeyLoadFails, SendDebit, RetryDebit, FailDebit
<1>4. ASSUME NEW r \in Requests, FetchAndAnswer(r) PROVE ServedIsBound'
  BY <1>4 DEF FetchAndAnswer
<1>5. ASSUME NEW r \in Requests, FetchFails(r) \/ Kill(r) PROVE ServedIsBound'
  BY <1>5 DEF FetchFails, Kill
<1>6. ASSUME NEW r \in Requests, NEW k \in 1 .. MaxAttempts, ExecuteDebit(r, k)
      PROVE  ServedIsBound'
  BY <1>6 DEF ExecuteDebit, AfterDebit
<1>7. ASSUME UNCHANGED <<pc, input, served>> PROVE ServedIsBound'
  BY <1>7
<1> QED
  BY <1>1, <1>2, <1>3, <1>4, <1>5, <1>6, <1>7
     DEF Next, Handler, Grant, Deactivate, ExpireRow, StoreRow, vars

\* A verdict is only handed to the holder of a platform-signed token for its
\* cpi and, if the request was attested, of the device key on the row.
THEOREM VerdictsOnlyToOwners == Spec => []VerdictOnlyToOwner
<1>1. Init => ServedIsBound
  BY DEF Init, ServedIsBound
<1>2. Spec => []ServedIsBound
  BY <1>1, BoundStep, TypedInvariant, PTL DEF Spec
<1>3. Typed /\ ServedIsBound => VerdictOnlyToOwner
  BY DEF Typed, OnlyAuthenticatedBilled, Admitted, ServedIsBound, BoundToScan,
         VerdictOnlyToOwner, Authenticated, VerifyMerchantToken, ClaimsMatch,
         AttestationAccepted
<1> QED
  BY <1>2, <1>3, TypedInvariant, PTL

-----------------------------------------------------------------------------
(* Every read is paid for.                                                 *)

Paid == {"fetch", "ok", "not_found", "read_failed", "projection_failed"}

LEMMA PayerType ==
  ASSUME Typed, NEW r \in Requests, pc[r] \in Admitted \/ Billed(r)
  PROVE  Payer(r) \in Merchants
BY ShapesAssumption, NoneAssumption
   DEF Typed, OnlyAuthenticatedBilled, Authenticated, VerifyMerchantToken, ClaimsMatch,
       Payer, RequestType, TokenType

LEMMA PaidReadsFinite ==
  ASSUME NEW m
  PROVE  /\ IsFiniteSet(PaidReads(m)) /\ Cardinality(PaidReads(m)) \in Nat
         /\ IsFiniteSet(PaidReads(m)') /\ Cardinality(PaidReads(m)') \in Nat
<1>1. PaidReads(m) \subseteq Requests /\ PaidReads(m)' \subseteq Requests
  BY DEF PaidReads
<1> QED
  BY <1>1, RequestsAssumption, FS_Subset, FS_CardinalityType

\* A step lets at most one more invocation read for m, and then burns one of
\* m's credits.
LEMMA ReadsCostCredits ==
  ASSUME Typed, [Next]_vars, NEW m \in Merchants
  PROVE  \/ PaidReads(m)' \subseteq PaidReads(m) /\ burned'[m] = burned[m]
         \/ \E r \in Requests : /\ PaidReads(m)' \subseteq PaidReads(m) \cup {r}
                               /\ burned'[m] = burned[m] + 1
<1> USE DEF Typed, TypeOK, tables, history, Goto
<1> DEFINE Same == PaidReads(m)' \subseteq PaidReads(m) /\ burned'[m] = burned[m]
           More == \E r \in Requests : /\ PaidReads(m)' \subseteq PaidReads(m) \cup {r}
                                     /\ burned'[m] = burned[m] + 1
<1>1. ASSUME NEW r \in Requests, Receive(r) \/ RejectPath(r) PROVE Same
  BY <1>1 DEF Receive, RejectPath, PaidReads, Payer
<1>2. ASSUME NEW r \in Requests, Authorize(r) PROVE Same
  <2>1. AfterAuthorize(input[r]) \notin Paid
    BY DEF AfterAuthorize, Paid
  <2> QED
    BY <1>2, <2>1 DEF Authorize, PaidReads, Payer, Paid
<1>3. ASSUME NEW r \in Requests,
             KeyLoadFails(r) \/ SendDebit(r) \/ RetryDebit(r) \/ FailDebit(r)
      PROVE  Same
  BY <1>3 DEF KeyLoadFails, SendDebit, RetryDebit, FailDebit, PaidReads, Payer
<1>4. ASSUME NEW r \in Requests, FetchAndAnswer(r) \/ FetchFails(r) \/ Kill(r) PROVE Same
  BY <1>4 DEF FetchAndAnswer, FetchFails, Kill, PaidReads, Payer
<1>5. ASSUME NEW r \in Requests, NEW k \in 1 .. MaxAttempts, ExecuteDebit(r, k)
      PROVE  Same \/ More
  <2>1. Payer(r) \in Merchants
    BY <1>5, PayerType DEF ExecuteDebit, Billed
  <2>2. CASE ~DebitCondition(Payer(r))
    BY <1>5, <2>2 DEF ExecuteDebit, AfterDebit, PaidReads, Payer
  <2>3. CASE DebitCondition(Payer(r)) /\ Payer(r) = m
    <3>1. burned'[m] = burned[m] + 1
      BY <1>5, <2>3 DEF ExecuteDebit
    <3>2. PaidReads(m)' \subseteq PaidReads(m) \cup {r}
      BY <1>5 DEF ExecuteDebit, PaidReads, Payer
    <3> QED
      BY <3>1, <3>2
  <2>4. CASE DebitCondition(Payer(r)) /\ Payer(r) # m
    <3>1. burned'[m] = burned[m]
      BY <1>5, <2>1, <2>4 DEF ExecuteDebit
    <3>2. PaidReads(m)' \subseteq PaidReads(m)
      BY <1>5, <2>4 DEF ExecuteDebit, PaidReads, Payer
    <3> QED
      BY <3>1, <3>2
  <2> QED
    BY <2>2, <2>3, <2>4
<1>6. ASSUME UNCHANGED <<pc, input, burned>> PROVE Same
  BY <1>6 DEF PaidReads, Payer
<1> QED
  BY <1>1, <1>2, <1>3, <1>4, <1>5, <1>6
     DEF Next, Handler, Grant, Deactivate, ExpireRow, StoreRow, vars

LEMMA AddOne ==
  ASSUME NEW S, IsFiniteSet(S), NEW x
  PROVE  /\ IsFiniteSet(S \cup {x}) /\ Cardinality(S \cup {x}) \in Nat
         /\ Cardinality(S \cup {x}) <= Cardinality(S) + 1
<1>1. Cardinality(S) \in Nat
  BY FS_CardinalityType
<1>2. /\ IsFiniteSet(S \cup {x})
      /\ Cardinality(S \cup {x}) \in {Cardinality(S), Cardinality(S) + 1}
  BY FS_AddElement
<1> QED
  BY <1>1, <1>2

LEMMA PaidForStep == Typed /\ EveryReadIsPaidFor /\ [Next]_vars => EveryReadIsPaidFor'
<1> SUFFICES ASSUME Typed, EveryReadIsPaidFor, [Next]_vars, NEW m \in Merchants
             PROVE  Cardinality(PaidReads(m)') <= burned'[m]
  BY DEF EveryReadIsPaidFor
<1> DEFINE S == PaidReads(m)
           T == PaidReads(m)'
<1>1. /\ burned[m] \in Nat /\ Cardinality(S) <= burned[m]
      /\ IsFiniteSet(S) /\ Cardinality(S) \in Nat
  BY PaidReadsFinite DEF Typed, TypeOK, EveryReadIsPaidFor
<1>2. CASE T \subseteq S /\ burned'[m] = burned[m]
  <2>1. Cardinality(T) <= Cardinality(S) /\ Cardinality(T) \in Nat
    BY <1>1, <1>2, FS_Subset, PaidReadsFinite
  <2> QED
    BY <1>1, <1>2, <2>1
<1>3. ASSUME NEW r \in Requests, T \subseteq S \cup {r}, burned'[m] = burned[m] + 1
      PROVE  Cardinality(T) <= burned'[m]
  <2>1. IsFiniteSet(S \cup {r}) /\ Cardinality(S \cup {r}) <= Cardinality(S) + 1
        /\ Cardinality(S \cup {r}) \in Nat
    <3> HIDE DEF S
    <3> QED
      BY <1>1, AddOne
  <2>2. Cardinality(T) <= Cardinality(S \cup {r}) /\ Cardinality(T) \in Nat
    BY <1>3, <2>1, FS_Subset, PaidReadsFinite
  <2> QED
    BY <1>1, <1>3, <2>1, <2>2
<1> QED
  BY <1>2, <1>3, ReadsCostCredits

\* No merchant gets more reads than it had credits burned, whatever the
\* retries, lost answers, late executions and deactivations.
THEOREM ReadsArePaidFor == Spec => []EveryReadIsPaidFor
<1>1. Init => EveryReadIsPaidFor
  <2> SUFFICES ASSUME Init, NEW m \in Merchants
               PROVE  Cardinality(PaidReads(m)) <= burned[m]
    BY DEF EveryReadIsPaidFor
  <2>1. PaidReads(m) = {}
    BY DEF Init, PaidReads
  <2> QED
    BY <2>1, FS_EmptySet DEF Init
<1> QED
  BY <1>1, PaidForStep, TypedInvariant, PTL DEF Spec
-----------------------------------------------------------------------------
(* Stored scans are found.                                                 *)

\* While an invocation works, a scan that was there when it came and did not
\* expire is still there.
KeptIsStored ==
  \A r \in Requests :
    /\ pc[r] \in Working /\ kept[r] => rows[KeyOf(input[r])] # noRow
    /\ pc[r] = "not_found" => ~kept[r]

LEMMA KeptStep == Typed /\ KeptIsStored /\ [Next]_vars => KeptIsStored'
<1> SUFFICES ASSUME Typed, KeptIsStored, [Next]_vars PROVE KeptIsStored'
  OBVIOUS
<1> USE DEF Typed, TypeOK, KeptIsStored, tables, history, Goto
<1>0. \A r \in Requests : pc[r] \in Working => KeyOf(input[r]) \in RowKeys
  BY KeyOfType DEF OnlyAuthenticatedBilled
<1>1. ASSUME NEW r \in Requests, Receive(r) \/ RejectPath(r) PROVE KeptIsStored'
  <2>1. CASE Receive(r)
    <3>1. PICK q \in RequestShapes : /\ input' = [input EXCEPT ![r] = q]
                                     /\ kept' = [kept EXCEPT ![r] = rows[KeyOf(q)] # noRow]
      BY <2>1 DEF Receive
    <3>2. rows' = rows /\ pc' = [pc EXCEPT ![r] = "authorize"]
      BY <2>1 DEF Receive
    <3> QED
      BY <3>1, <3>2, KeyOfType DEF Working
  <2>2. CASE RejectPath(r)
    BY <2>2 DEF RejectPath, Working
  <2> QED
    BY <1>1, <2>1, <2>2
<1>2. ASSUME NEW r \in Requests, Authorize(r) PROVE KeptIsStored'
  BY <1>2 DEF Authorize, AfterAuthorize, Working
<1>3. ASSUME NEW r \in Requests,
             KeyLoadFails(r) \/ SendDebit(r) \/ RetryDebit(r) \/ FailDebit(r)
      PROVE  KeptIsStored'
  BY <1>3 DEF KeyLoadFails, SendDebit, RetryDebit, FailDebit, Working
<1>4. ASSUME NEW r \in Requests, FetchAndAnswer(r) PROVE KeptIsStored'
  BY <1>4 DEF FetchAndAnswer, ReadRow, Working
<1>5. ASSUME NEW r \in Requests, FetchFails(r) \/ Kill(r) PROVE KeptIsStored'
  BY <1>5 DEF FetchFails, Kill, Working
<1>6. ASSUME NEW r \in Requests, NEW k \in 1 .. MaxAttempts, ExecuteDebit(r, k)
      PROVE  KeptIsStored'
  BY <1>6 DEF ExecuteDebit, AfterDebit, Working
<1>7. ASSUME NEW k \in ScanKeys, NEW row \in RowValues, StoreRow(k, row)
      PROVE  KeptIsStored'
  <2>1. row # noRow
    BY NoKeyAssumption
  <2> QED
    BY <1>0, <1>7, <2>1 DEF StoreRow
<1>8. ASSUME NEW k \in ScanKeys, ExpireRow(k) PROVE KeptIsStored'
  <2>1. kept' = [r \in Requests |->
                  kept[r] /\ (pc[r] \in Working => KeyOf(input[r]) # k)]
    BY <1>8 DEF ExpireRow
  <2>2. pc' = pc /\ input' = input /\ \A x \in RowKeys : x # k => rows'[x] = rows[x]
    BY <1>8 DEF ExpireRow
  <2> SUFFICES ASSUME NEW r \in Requests
               PROVE  /\ pc[r] \in Working /\ kept'[r] => rows'[KeyOf(input[r])] # noRow
                      /\ pc[r] = "not_found" => ~kept'[r]
    BY <2>2
  <2> QED
    BY <1>0, <2>1, <2>2
<1>9. ASSUME UNCHANGED <<pc, input, rows, kept>> PROVE KeptIsStored'
  BY <1>9
<1> QED
  BY <1>1, <1>2, <1>3, <1>4, <1>5, <1>6, <1>7, <1>8, <1>9
     DEF Next, Handler, Grant, Deactivate, vars

\* A scan that was stored when the merchant asked, and is not expired, is
\* not answered "session not found" by a read that succeeded.
THEOREM StoredScansAreFound == Spec => []StoredScanIsFound
<1>1. Init => KeptIsStored
  BY DEF Init, KeptIsStored, Working
<1>2. KeptIsStored => StoredScanIsFound
  BY DEF KeptIsStored, StoredScanIsFound
<1> QED
  BY <1>1, <1>2, KeptStep, TypedInvariant, PTL DEF Spec
-----------------------------------------------------------------------------
(* Session-get implements the credit ledger.                               *)

VerdictCount == [m \in Merchants |-> Cardinality(Verdicts(m))]

LEMMA VerdictsFinite ==
  ASSUME NEW m
  PROVE  IsFiniteSet(Verdicts(m)) /\ Cardinality(Verdicts(m)) \in Nat
<1>1. Verdicts(m) \subseteq Requests
  BY DEF Verdicts, PaidReads
<1> QED
  BY <1>1, RequestsAssumption, FS_Subset, FS_CardinalityType

\* A step that answers no request leaves the verdicts as they were.
LEMMA VerdictsKept ==
  ASSUME \A r \in Requests : /\ pc'[r] = "ok" <=> pc[r] = "ok"
                             /\ pc[r] = "ok" => input'[r] = input[r]
  PROVE  VerdictCount' = VerdictCount
<1>1. ASSUME NEW m PROVE Verdicts(m)' = Verdicts(m)
  BY DEF Verdicts, PaidReads, Payer
<1> QED
  BY <1>1 DEF VerdictCount

LEMMA LedgerInitial == Init => Ledger!LedgerInit
<1> SUFFICES ASSUME Init PROVE Ledger!LedgerInit
  OBVIOUS
<1>1. credits \in [Merchants -> Nat] /\ burned = [m \in Merchants |-> 0]
  BY CapAssumption DEF Init
<1>2. VerdictCount = [m \in Merchants |-> 0]
  <2>1. ASSUME NEW m PROVE Verdicts(m) = {}
    BY DEF Init, Verdicts, PaidReads
  <2> QED
    BY <2>1, FS_EmptySet DEF VerdictCount
<1>3. VerdictCount \in [Merchants -> Nat]
  BY <1>2
<1> QED
  BY <1>1, <1>2, <1>3 DEF Ledger!LedgerInit, VerdictCount

\* The read that answers a request hands out one verdict, which its merchant
\* has burned a credit for.
LEMMA AnswerHandsOutVerdict ==
  ASSUME Typed, EveryReadIsPaidFor, NEW r \in Requests, FetchAndAnswer(r),
         pc'[r] = "ok"
  PROVE  \E m \in Merchants : Ledger!HandOutVerdict(m)
<1>1. pc[r] = "fetch" /\ pc' = [pc EXCEPT ![r] = "ok"] /\ input' = input
      /\ credits' = credits /\ burned' = burned
  BY DEF Typed, TypeOK, tables, history, FetchAndAnswer
<1>2. PICK m \in Merchants : m = Payer(r)
  BY <1>1, PayerType DEF Admitted
<1>3. /\ r \notin Verdicts(m) /\ Verdicts(m) \cup {r} \subseteq PaidReads(m)
      /\ Verdicts(m)' = Verdicts(m) \cup {r}
  BY <1>1, <1>2 DEF Typed, TypeOK, Verdicts, PaidReads, Payer
<1>4. \A n \in Merchants : n # m => Verdicts(n)' = Verdicts(n)
  BY <1>1, <1>2 DEF Typed, TypeOK, Verdicts, PaidReads, Payer
<1>5. Cardinality(Verdicts(m) \cup {r}) = Cardinality(Verdicts(m)) + 1
  BY <1>3, VerdictsFinite, FS_AddElement
<1>6. Cardinality(Verdicts(m) \cup {r}) <= Cardinality(PaidReads(m))
  BY <1>3, PaidReadsFinite, FS_Subset
<1>7. VerdictCount[m] < burned[m]
  BY <1>5, <1>6, VerdictsFinite, PaidReadsFinite
     DEF Typed, TypeOK, VerdictCount, EveryReadIsPaidFor
<1>8. VerdictCount' = [VerdictCount EXCEPT ![m] = @ + 1]
  BY <1>3, <1>4, <1>5 DEF VerdictCount
<1> QED
  BY <1>1, <1>7, <1>8 DEF Ledger!HandOutVerdict, VerdictCount

LEMMA LedgerStep ==
  Typed /\ EveryReadIsPaidFor /\ [Next]_vars
    => [Ledger!LedgerNext]_(Ledger!ledgerVars)
<1> SUFFICES ASSUME Typed, EveryReadIsPaidFor, [Next]_vars
             PROVE  [Ledger!LedgerNext]_(Ledger!ledgerVars)
  OBVIOUS
<1> DEFINE Stutter == UNCHANGED <<credits, burned>> /\ VerdictCount' = VerdictCount
<1> USE DEF Typed, TypeOK, tables, history, Goto
<1>0. Stutter => [Ledger!LedgerNext]_(Ledger!ledgerVars)
  BY DEF Ledger!ledgerVars, VerdictCount
<1>1. ASSUME NEW r \in Requests, Receive(r) \/ RejectPath(r) PROVE Stutter
  BY <1>1, VerdictsKept DEF Receive, RejectPath
<1>2. ASSUME NEW r \in Requests, Authorize(r) PROVE Stutter
  BY <1>2, VerdictsKept DEF Authorize, AfterAuthorize
<1>3. ASSUME NEW r \in Requests,
             KeyLoadFails(r) \/ SendDebit(r) \/ RetryDebit(r) \/ FailDebit(r)
      PROVE  Stutter
  BY <1>3, VerdictsKept DEF KeyLoadFails, SendDebit, RetryDebit, FailDebit
<1>4. ASSUME NEW r \in Requests, FetchFails(r) \/ Kill(r) PROVE Stutter
  BY <1>4, VerdictsKept DEF FetchFails, Kill, Working
<1>5. ASSUME NEW r \in Requests, FetchAndAnswer(r)
      PROVE  Stutter \/ Ledger!LedgerNext
  <2>1. CASE pc'[r] = "ok"
    BY <1>5, <2>1, AnswerHandsOutVerdict DEF Ledger!LedgerNext
  <2>2. CASE pc'[r] # "ok"
    BY <1>5, <2>2, VerdictsKept DEF FetchAndAnswer
  <2> QED
    BY <2>1, <2>2
<1>6. ASSUME NEW r \in Requests, NEW k \in 1 .. MaxAttempts, ExecuteDebit(r, k)
      PROVE  Stutter \/ Ledger!LedgerNext
  <2>1. Payer(r) \in Merchants
    BY <1>6, PayerType DEF ExecuteDebit, Billed
  <2>2. VerdictCount' = VerdictCount
    BY <1>6, VerdictsKept DEF ExecuteDebit, AfterDebit
  <2>3. CASE DebitCondition(Payer(r))
    <3>1. Ledger!BurnCredit(Payer(r))
      BY <1>6, <2>2, <2>3 DEF ExecuteDebit, DebitCondition, Ledger!BurnCredit, VerdictCount
    <3> QED
      BY <2>1, <3>1 DEF Ledger!LedgerNext
  <2>4. CASE ~DebitCondition(Payer(r))
    BY <1>6, <2>2, <2>4 DEF ExecuteDebit
  <2> QED
    BY <2>3, <2>4
<1>7. ASSUME NEW m \in Merchants, Grant(m) PROVE Ledger!LedgerNext
  <2>1. VerdictCount' = VerdictCount
    BY <1>7, VerdictsKept DEF Grant
  <2> QED
    BY <1>7, <2>1 DEF Grant, Ledger!LedgerNext, Ledger!GrantCredit, VerdictCount
<1>8. ASSUME UNCHANGED <<credits, burned, pc, input>> PROVE Stutter
  BY <1>8, VerdictsKept
<1> HIDE DEF Stutter
<1> QED
  BY <1>0, <1>1, <1>2, <1>3, <1>4, <1>5, <1>6, <1>7, <1>8
     DEF Next, Handler, Deactivate, ExpireRow, StoreRow, vars

\* Session-get implements the credit ledger: verdicts are handed out one at
\* a time, each against a credit burned before, and balances move by single
\* credits.
THEOREM LedgerImplemented == Spec => LedgerPromise
BY LedgerInitial, LedgerStep, TypedInvariant, ReadsArePaidFor, PTL
   DEF Spec, LedgerPromise, Ledger!LedgerSpec
=============================================================================
