-------------------------- MODULE Ingestion_proofs --------------------------
(***************************************************************************)
(* Theorems about Ingestion for any finite set of submissions, any sets of *)
(* containers, scans, devices and candidates, and any number of resends.   *)
(* The rollup is used as IpVelocity specifies it (theorem UsesTheRollup),  *)
(* so that what IpVelocity_proofs proves of it holds here, too.            *)
(***************************************************************************)
EXTENDS Ingestion, TLAPS

-----------------------------------------------------------------------------
(* Type correctness and the checks of a request.                           *)

\* Past the checks of the request and of its evidence.
Admitted == {"identity", "velocity", "bumping", "put", "putting", "stored", "duplicate"}

\* What is being handled was read, evidence was found for what is admitted,
\* and the SDK has an attempt left when it is about to send one.
Checked ==
  \A r \in Submissions :
    /\ pc[r] \in Admitted \cup {"hydrate"} =>
         input[r] \in SubmissionShapes /\ host[r] \in Containers
    /\ pc[r] \in Admitted => ~Unproven(input[r])
    /\ pc[r] \in {"idle", "hydrate", "identity", "velocity", "bumping"} =>
         attempt[r] = 0
    /\ pc[r] = "put" => attempt[r] < PutAttempts

Typed == OwnTypeOK /\ Checked

LEMMA TypeInit == Init => Typed
BY PutAssumption DEF Init, Typed, OwnTypeOK, Checked, Admitted

LEMMA ShapeTyped ==
  ASSUME NEW q \in SubmissionShapes
  PROVE  /\ q.key \in Keys /\ SessionOf(q.key) \in Sessions
         /\ q.device \in Devices \cup {None} /\ q.stun \in Candidates \cup {None}
         /\ q # None
BY ShapesAssumption, NoneAssumption DEF SubmissionType, Keys, SessionOf

LEMMA AfterHydrateFacts ==
  ASSUME NEW q \in SubmissionShapes, NEW got \in SUBSET q.tokens
  PROVE  /\ AfterHydrate(q, got) \in {"rejected", "identity"}
         /\ AfterHydrate(q, got) = "identity" => ~Unproven(q)
BY DEF AfterHydrate, Unproven

LEMMA TrackerTyped ==
  ASSUME NEW f \in [Containers -> [Candidates -> Sessions \cup {None}]],
         NEW c, NEW n, NEW s \in Sessions \cup {None}
  PROVE  [f EXCEPT ![c][n] = s] \in [Containers -> [Candidates -> Sessions \cup {None}]]
OBVIOUS

LEMMA TypeStep == Typed /\ [Next]_vars => OwnTypeOK'
<1> SUFFICES ASSUME Typed, [Next]_vars PROVE OwnTypeOK'
  OBVIOUS
<1> USE DEF Typed, OwnTypeOK, Working, Outcomes, Answers, Goto
<1>1. ASSUME NEW r \in Submissions, Receive(r) PROVE OwnTypeOK'
  BY <1>1 DEF Receive
<1>2. ASSUME NEW r \in Submissions, RejectRequest(r) PROVE OwnTypeOK'
  BY <1>2 DEF RejectRequest
<1>3. ASSUME NEW r \in Submissions, Hydrate(r) PROVE OwnTypeOK'
  <2>1. input[r] \in SubmissionShapes
    BY <1>3 DEF Hydrate, Checked
  <2>2. PICK missed \in SUBSET {"tcp", "h2"} :
          pc' = [pc EXCEPT ![r] = AfterHydrate(input[r], input[r].tokens \ missed)]
    BY <1>3 DEF Hydrate
  <2>3. AfterHydrate(input[r], input[r].tokens \ missed) \in {"rejected", "identity"}
    BY <2>1, AfterHydrateFacts
  <2> QED
    BY <1>3, <2>2, <2>3 DEF Hydrate
<1>4. ASSUME NEW r \in Submissions, HydrateFails(r) PROVE OwnTypeOK'
  BY <1>4 DEF HydrateFails
<1>5. ASSUME NEW r \in Submissions, PrewarmFails(r) PROVE OwnTypeOK'
  BY <1>5 DEF PrewarmFails
<1>6. ASSUME NEW r \in Submissions, BuildRecord(r) PROVE OwnTypeOK'
  <2>1. SessionOf(input[r].key) \in Sessions
    BY <1>6, ShapeTyped DEF BuildRecord, Checked, Admitted
  <2>2. /\ pc' = [pc EXCEPT ![r] = "velocity"] /\ tracker' = Claim(host[r], input[r])
        /\ UNCHANGED <<input, host, attempt, wire, rows, archive, forgot>>
    BY <1>6 DEF BuildRecord
  <2>3. Claim(host[r], input[r]) \in [Containers -> [Candidates -> Sessions \cup {None}]]
    <3>1. PICK c, n : c = host[r] /\ n = input[r].stun
      OBVIOUS
    <3>2. PICK s : s = IF tracker[c][n] = None THEN SessionOf(input[r].key) ELSE tracker[c][n]
      OBVIOUS
    <3>3. CASE s \in Sessions \cup {None}
      <4>1. Claim(c, input[r]) = tracker \/ Claim(c, input[r]) = [tracker EXCEPT ![c][n] = s]
        BY <3>1, <3>2 DEF Claim
      <4>2. PICK f \in [Containers -> [Candidates -> Sessions \cup {None}]] : f = tracker
        BY DEF OwnTypeOK
      <4>3. [f EXCEPT ![c][n] = s] \in [Containers -> [Candidates -> Sessions \cup {None}]]
        BY <3>3, TrackerTyped
      <4> QED
        BY <3>1, <4>1, <4>2, <4>3
    <3>4. CASE s \notin Sessions \cup {None}
      <4>1. c \notin Containers \/ n \notin Candidates
        BY <2>1, <3>2, <3>4
      <4>2. [tracker EXCEPT ![c][n] = s] = tracker
        BY <4>1
      <4> QED
        BY <3>1, <3>2, <4>2 DEF Claim
    <3> QED
      BY <3>3, <3>4
  <2> QED
    BY <2>2, <2>3
<1>7. ASSUME NEW r \in Submissions, RejectReplay(r) PROVE OwnTypeOK'
  BY <1>7 DEF RejectReplay
<1>8. ASSUME NEW r \in Submissions, Project(r) PROVE OwnTypeOK'
  BY <1>8 DEF Project, Persist, StartArchive
<1>9. ASSUME NEW r \in Submissions, VelocityDeadline(r) PROVE OwnTypeOK'
  BY <1>9 DEF VelocityDeadline, Persist, StartArchive
<1>10. ASSUME NEW r \in Submissions, BumpReturns(r) PROVE OwnTypeOK'
  BY <1>10 DEF BumpReturns, Persist, StartArchive
<1>11. ASSUME NEW r \in Submissions, SendPut(r) PROVE OwnTypeOK'
  <2>1. attempt[r] + 1 \in 0 .. PutAttempts /\ attempt[r] + 1 \in 1 .. PutAttempts
    BY <1>11, PutAssumption DEF SendPut, Checked
  <2> QED
    BY <1>11, <2>1 DEF SendPut
<1>12. ASSUME NEW r \in Submissions, RetryPut(r) PROVE OwnTypeOK'
  BY <1>12 DEF RetryPut
<1>13. ASSUME NEW r \in Submissions, FailPut(r) PROVE OwnTypeOK'
  BY <1>13 DEF FailPut, AfterFailedPut
<1>14. ASSUME NEW r \in Submissions, NEW k \in 1 .. PutAttempts,
              ExecutePut(r, k)
       PROVE  OwnTypeOK'
  BY <1>14 DEF ExecutePut, PutCondition
<1>15. ASSUME NEW r \in Submissions, ArchivePut(r) PROVE OwnTypeOK'
  BY <1>15 DEF ArchivePut
<1>16. ASSUME NEW r \in Submissions, Kill(r) PROVE OwnTypeOK'
  BY <1>16 DEF Kill
<1>17. ASSUME NEW c \in Containers, NEW n \in Candidates,
              ForgetClaim(c, n)
       PROVE  OwnTypeOK'
  BY <1>17 DEF ForgetClaim
<1>18. ASSUME UNCHANGED own PROVE OwnTypeOK'
  BY <1>18 DEF own
<1> QED
  BY <1>1, <1>2, <1>3, <1>4, <1>5, <1>6, <1>7, <1>8, <1>9, <1>10, <1>11, <1>12,
     <1>13, <1>14, <1>15, <1>16, <1>17, <1>18
     DEF Next, Handler, VelocityRuns, Rollup, vars, own

LEMMA CheckedStep == Typed /\ [Next]_vars => Checked'
<1> SUFFICES ASSUME Typed, [Next]_vars PROVE Checked'
  OBVIOUS
<1> USE DEF Typed, OwnTypeOK, Checked, Admitted, Goto
<1>1. ASSUME NEW r \in Submissions, Receive(r) PROVE Checked'
  BY <1>1 DEF Receive
<1>2. ASSUME NEW r \in Submissions, RejectRequest(r) PROVE Checked'
  BY <1>2 DEF RejectRequest
<1>3. ASSUME NEW r \in Submissions, Hydrate(r) PROVE Checked'
  <2>1. PICK missed \in SUBSET {"tcp", "h2"} :
          pc' = [pc EXCEPT ![r] = AfterHydrate(input[r], input[r].tokens \ missed)]
    BY <1>3 DEF Hydrate
  <2> DEFINE to == AfterHydrate(input[r], input[r].tokens \ missed)
  <2>2. to \in {"rejected", "identity"} /\ (to = "identity" => ~Unproven(input[r]))
    BY <1>3, AfterHydrateFacts DEF Hydrate
  <2> HIDE DEF to
  <2> QED
    BY <1>3, <2>1, <2>2 DEF Hydrate, to
<1>4. ASSUME NEW r \in Submissions, HydrateFails(r) PROVE Checked'
  BY <1>4 DEF HydrateFails
<1>5. ASSUME NEW r \in Submissions, PrewarmFails(r) PROVE Checked'
  BY <1>5 DEF PrewarmFails
<1>6. ASSUME NEW r \in Submissions, BuildRecord(r) PROVE Checked'
  BY <1>6 DEF BuildRecord
<1>7. ASSUME NEW r \in Submissions, RejectReplay(r) PROVE Checked'
  BY <1>7 DEF RejectReplay
<1>8. ASSUME NEW r \in Submissions, Project(r) PROVE Checked'
  BY <1>8, PutAssumption DEF Project, Persist
<1>9. ASSUME NEW r \in Submissions, VelocityDeadline(r) PROVE Checked'
  BY <1>9, PutAssumption DEF VelocityDeadline, Persist
<1>10. ASSUME NEW r \in Submissions, BumpReturns(r) PROVE Checked'
  BY <1>10, PutAssumption DEF BumpReturns, Persist
<1>11. ASSUME NEW r \in Submissions, SendPut(r) PROVE Checked'
  BY <1>11 DEF SendPut
<1>12. ASSUME NEW r \in Submissions, RetryPut(r) PROVE Checked'
  BY <1>12 DEF RetryPut
<1>13. ASSUME NEW r \in Submissions, FailPut(r) PROVE Checked'
  BY <1>13 DEF FailPut, AfterFailedPut
<1>14. ASSUME NEW r \in Submissions, NEW k \in 1 .. PutAttempts,
              ExecutePut(r, k)
       PROVE  Checked'
  BY <1>14 DEF ExecutePut, PutCondition
<1>15. ASSUME NEW r \in Submissions, Kill(r) PROVE Checked'
  BY <1>15 DEF Kill
<1>16. ASSUME UNCHANGED <<pc, input, host, attempt>> PROVE Checked'
  BY <1>16
<1> QED
  BY <1>1, <1>2, <1>3, <1>4, <1>5, <1>6, <1>7, <1>8, <1>9, <1>10, <1>11, <1>12,
     <1>13, <1>14, <1>15, <1>16
     DEF Next, Handler, VelocityRuns, Rollup, ArchivePut, ForgetClaim, vars, own

LEMMA TypedInvariant == Spec => []Typed
<1>1. Typed /\ [Next]_vars => Typed'
  BY TypeStep, CheckedStep DEF Typed
<1> QED
  BY TypeInit, <1>1, PTL DEF Spec

-----------------------------------------------------------------------------
(* The rollup.                                                             *)

VP == INSTANCE IpVelocity_proofs WITH
  Calls <- Submissions, MaxAttempts <- VelocityAttempts,
  rows <- rollup, wire <- velocityWire

\* What submissions do to the rollup are calls of IpVelocity, of which it says
\* what may happen: no step of ingestion touches the rollup in another way.
LEMMA RollupStep == Typed /\ [Next]_vars => [V!Next]_V!vars
<1> SUFFICES ASSUME Typed, [Next]_vars PROVE [V!Next]_V!vars
  OBVIOUS
<1>1. ASSUME NEW r \in Submissions, BuildRecord(r) PROVE [V!Next]_V!vars
  <2>1. input[r].device \in Devices \cup {None}
    BY <1>1, ShapeTyped DEF BuildRecord, Goto, Typed, Checked, Admitted
  <2>2. CASE UNCHANGED velocity
    BY <2>2 DEF velocity, V!vars
  <2>3. CASE V!SkipUpdate(r)
    BY <2>3 DEF V!Next
  <2>4. CASE input[r].device # None /\ V!Update(r, input[r].device)
    BY <2>1, <2>4 DEF V!Next
  <2> QED
    BY <1>1, <2>2, <2>3, <2>4 DEF BuildRecord
<1>2. ASSUME NEW r \in Submissions, Project(r) PROVE [V!Next]_V!vars
  <2>1. CASE UNCHANGED velocity
    BY <2>1 DEF velocity, V!vars
  <2>2. CASE V!Bump(r)
    BY <2>2 DEF V!Next
  <2> QED
    BY <1>2, <2>1, <2>2 DEF Project
<1>3. ASSUME NEW r \in Submissions, VelocityRuns(r) PROVE [V!Next]_V!vars
  BY <1>3 DEF VelocityRuns, V!Next
<1>4. CASE Rollup
  BY <1>4 DEF Rollup, V!Next
<1>5. CASE UNCHANGED velocity
  BY <1>5 DEF velocity, V!vars
<1> QED
  BY <1>1, <1>2, <1>3, <1>4, <1>5
     DEF Next, Handler, Receive, RejectRequest, Hydrate, HydrateFails, PrewarmFails,
         RejectReplay, VelocityDeadline, BumpReturns, SendPut, RetryPut, FailPut,
         ExecutePut, ArchivePut, Kill, ForgetClaim, vars

\* Ingestion uses the rollup as IpVelocity specifies it.
THEOREM UsesTheRollup == Spec => V!Spec
<1>1. Init => V!Init
  BY DEF Init
<1> QED
  BY <1>1, RollupStep, TypedInvariant, PTL DEF Spec, V!Spec

\* Both instances of IpVelocity are the same specification.
LEMMA SameRollup == V!Spec <=> VP!Spec
BY DEF V!Spec, VP!Spec, V!Next, VP!Next, V!Init, VP!Init, V!vars, VP!vars,
       V!Update, VP!Update, V!SkipUpdate, VP!SkipUpdate, V!ReadSketch,
       VP!ReadSketch, V!LoadHll, VP!LoadHll, V!SendWrite, VP!SendWrite,
       V!ResendWrite, VP!ResendWrite, V!Send, VP!Send, V!ExecutePipelined,
       VP!ExecutePipelined, V!RefusePipelined, VP!RefusePipelined,
       V!AnswerPipeline, VP!AnswerPipeline, V!ReconnectPipelined,
       VP!ReconnectPipelined, V!FailUpdate, VP!FailUpdate, V!ExecuteWrite,
       VP!ExecuteWrite, V!Bump, VP!Bump, V!ResendBump, VP!ResendBump, V!FailBump,
       VP!FailBump, V!ExecuteBump, VP!ExecuteBump, V!Replicate, VP!Replicate,
       V!Tick, VP!Tick, V!UpdateStep, VP!UpdateStep, V!BumpStep, VP!BumpStep,
       V!Goto, VP!Goto, V!BucketOf, VP!BucketOf, V!WrittenRow, VP!WrittenRow,
       V!TtlSetBy, VP!TtlSetBy, V!PipedRow, VP!PipedRow, V!Expirable, VP!Expirable,
       V!Present, VP!Present, V!BumpedBucket, VP!BumpedBucket, V!Buckets,
       VP!Buckets, V!Columns, VP!Columns, V!EmptyRow, VP!EmptyRow, V!Pipeline,
       VP!Pipeline, V!Commands, VP!Commands

LEMMA SameProperties ==
  /\ VP!TypeOK => V!TypeOK
  /\ VP!RowsExpire => V!RowsExpire
  /\ VP!NoDeviceLost => V!NoDeviceLost
  /\ VP!DevicesWithinHits => V!DevicesWithinHits
  /\ VP!BlocksAreOfTheHour => V!BlocksAreOfTheHour
BY DEF V!TypeOK, VP!TypeOK, V!RowType, VP!RowType, V!CallType, VP!CallType,
       V!Buckets, VP!Buckets, V!Columns, VP!Columns, V!Pipeline, VP!Pipeline,
       V!Commands, VP!Commands, V!RowsExpire, VP!RowsExpire, V!Present, VP!Present,
       V!NoDeviceLost, VP!NoDeviceLost, V!BucketOf, VP!BucketOf,
       V!DevicesWithinHits, VP!DevicesWithinHits, V!BlocksAreOfTheHour,
       VP!BlocksAreOfTheHour, V!Stamped, VP!Stamped,
       Cardinality, VP!Cardinality, V!Cardinality

LEMMA RollupAssumptions == VP!IsFiniteSet(Submissions) /\ None \notin Devices
BY VelocityAssumption, NoneAssumption DEF IsFiniteSet, VP!IsFiniteSet

\* Every variable of ingestion and of the rollup it drives keeps its type.
THEOREM TypeCorrect == Spec => []TypeOK
<1>1. V!Spec => []V!TypeOK
  BY SameRollup, SameProperties, VP!TypeCorrect, VelocityAssumption, RollupAssumptions, PTL
<1>2. Typed /\ V!TypeOK => TypeOK
  BY DEF Typed, TypeOK
<1> QED
  BY <1>1, <1>2, UsesTheRollup, TypedInvariant, PTL

\* The rollup keeps its promises under ingestion's own interleavings, where an
\* update may outlive the submission that started it.
THEOREM RollupStaysSound ==
  Spec => [](V!RowsExpire /\ V!NoDeviceLost /\ V!DevicesWithinHits /\ V!BlocksAreOfTheHour)
<1>1. V!Spec => [](V!RowsExpire /\ V!NoDeviceLost /\ V!DevicesWithinHits /\ V!BlocksAreOfTheHour)
  BY SameRollup, SameProperties, VP!BucketsExpire, VP!DevicesAreKept, VP!DevicesAreHits,
     VP!BlocksBelong, VelocityAssumption, RollupAssumptions, PTL
<1> QED
  BY <1>1, UsesTheRollup, PTL

-----------------------------------------------------------------------------
(* Stored scans are archived.                                              *)

\* The archive put was started before the first PutItem was sent.
ArchiveStarted ==
  \A r \in Submissions :
    /\ pc[r] \in {"put", "putting"} => archive[r] # "none"
    /\ \A k : <<r, k>> \in wire => archive[r] # "none"
    /\ \A k \in Keys : rows[k] = r => archive[r] # "none"

LEMMA ArchiveStep == Typed /\ ArchiveStarted /\ [Next]_vars => ArchiveStarted'
<1> SUFFICES ASSUME Typed, ArchiveStarted, [Next]_vars PROVE ArchiveStarted'
  OBVIOUS
<1> USE DEF Typed, OwnTypeOK, ArchiveStarted, Goto
<1>1. ASSUME NEW r \in Submissions, Receive(r) PROVE ArchiveStarted'
  BY <1>1 DEF Receive
<1>2. ASSUME NEW r \in Submissions, RejectRequest(r) PROVE ArchiveStarted'
  BY <1>2 DEF RejectRequest
<1>3. ASSUME NEW r \in Submissions, Hydrate(r) PROVE ArchiveStarted'
  BY <1>3 DEF Hydrate, AfterHydrate
<1>4. ASSUME NEW r \in Submissions, HydrateFails(r) PROVE ArchiveStarted'
  BY <1>4 DEF HydrateFails
<1>5. ASSUME NEW r \in Submissions, PrewarmFails(r) PROVE ArchiveStarted'
  BY <1>5 DEF PrewarmFails
<1>6. ASSUME NEW r \in Submissions, BuildRecord(r) PROVE ArchiveStarted'
  BY <1>6 DEF BuildRecord
<1>7. ASSUME NEW r \in Submissions, RejectReplay(r) PROVE ArchiveStarted'
  BY <1>7 DEF RejectReplay
<1>8. ASSUME NEW r \in Submissions, Project(r) PROVE ArchiveStarted'
  BY <1>8 DEF Project, Persist, StartArchive
<1>9. ASSUME NEW r \in Submissions, VelocityDeadline(r) PROVE ArchiveStarted'
  BY <1>9 DEF VelocityDeadline, Persist, StartArchive
<1>10. ASSUME NEW r \in Submissions, BumpReturns(r) PROVE ArchiveStarted'
  BY <1>10 DEF BumpReturns, Persist, StartArchive
<1>11. ASSUME NEW r \in Submissions, SendPut(r) PROVE ArchiveStarted'
  BY <1>11 DEF SendPut
<1>12. ASSUME NEW r \in Submissions, RetryPut(r) PROVE ArchiveStarted'
  BY <1>12 DEF RetryPut
<1>13. ASSUME NEW r \in Submissions, FailPut(r) PROVE ArchiveStarted'
  BY <1>13 DEF FailPut, AfterFailedPut
<1>14. ASSUME NEW r \in Submissions, NEW k \in 1 .. PutAttempts,
              ExecutePut(r, k)
       PROVE  ArchiveStarted'
  BY <1>14 DEF ExecutePut, PutCondition
<1>15. ASSUME NEW r \in Submissions, ArchivePut(r) PROVE ArchiveStarted'
  BY <1>15 DEF ArchivePut
<1>16. ASSUME NEW r \in Submissions, Kill(r) PROVE ArchiveStarted'
  BY <1>16 DEF Kill
<1>17. ASSUME UNCHANGED <<pc, rows, archive, wire>> PROVE ArchiveStarted'
  BY <1>17
<1> QED
  BY <1>1, <1>2, <1>3, <1>4, <1>5, <1>6, <1>7, <1>8, <1>9, <1>10, <1>11, <1>12,
     <1>13, <1>14, <1>15, <1>16, <1>17
     DEF Next, Handler, VelocityRuns, Rollup, ForgetClaim, vars, own

\* Every record in the table had its archival started, whatever stopped the
\* handler after the write.
THEOREM StoredIsArchived == Spec => []StoredIsArchiving
<1>1. Init => ArchiveStarted
  BY NoneAssumption DEF Init, ArchiveStarted
<1>2. Typed /\ ArchiveStarted => StoredIsArchiving
  BY DEF Typed, OwnTypeOK, ArchiveStarted, StoredIsArchiving
<1> QED
  BY <1>1, <1>2, ArchiveStep, TypedInvariant, PTL DEF Spec

-----------------------------------------------------------------------------
(* A scan is stored once.                                                  *)

StoredIsRow == \A r \in Submissions : pc[r] = "stored" => rows[input[r].key] = r

LEMMA StoredStep == Typed /\ StoredIsRow /\ [Next]_vars => StoredIsRow'
<1> SUFFICES ASSUME Typed, StoredIsRow, [Next]_vars PROVE StoredIsRow'
  OBVIOUS
<1> USE DEF Typed, OwnTypeOK, StoredIsRow, Goto
<1>1. ASSUME NEW r \in Submissions, Receive(r) PROVE StoredIsRow'
  BY <1>1 DEF Receive
<1>2. ASSUME NEW r \in Submissions, RejectRequest(r) PROVE StoredIsRow'
  BY <1>2 DEF RejectRequest
<1>3. ASSUME NEW r \in Submissions, Hydrate(r) PROVE StoredIsRow'
  BY <1>3 DEF Hydrate, AfterHydrate
<1>4. ASSUME NEW r \in Submissions, HydrateFails(r) PROVE StoredIsRow'
  BY <1>4 DEF HydrateFails
<1>5. ASSUME NEW r \in Submissions, PrewarmFails(r) PROVE StoredIsRow'
  BY <1>5 DEF PrewarmFails
<1>6. ASSUME NEW r \in Submissions, BuildRecord(r) PROVE StoredIsRow'
  BY <1>6 DEF BuildRecord
<1>7. ASSUME NEW r \in Submissions, RejectReplay(r) PROVE StoredIsRow'
  BY <1>7 DEF RejectReplay
<1>8. ASSUME NEW r \in Submissions, Project(r) PROVE StoredIsRow'
  BY <1>8 DEF Project, Persist
<1>9. ASSUME NEW r \in Submissions, VelocityDeadline(r) PROVE StoredIsRow'
  BY <1>9 DEF VelocityDeadline, Persist
<1>10. ASSUME NEW r \in Submissions, BumpReturns(r) PROVE StoredIsRow'
  BY <1>10 DEF BumpReturns, Persist
<1>11. ASSUME NEW r \in Submissions, SendPut(r) PROVE StoredIsRow'
  BY <1>11 DEF SendPut
<1>12. ASSUME NEW r \in Submissions, RetryPut(r) PROVE StoredIsRow'
  BY <1>12 DEF RetryPut
<1>13. ASSUME NEW r \in Submissions, FailPut(r) PROVE StoredIsRow'
  BY <1>13 DEF FailPut, AfterFailedPut
<1>14. ASSUME NEW r \in Submissions, NEW k \in 1 .. PutAttempts,
              ExecutePut(r, k)
       PROVE  StoredIsRow'
  <2>1. \A s \in Submissions : pc[s] = "stored" => ~PutCondition(input[s].key)
    BY NoneAssumption DEF PutCondition
  <2>2. pc[r] = "putting" => input[r].key \in Keys
    BY ShapeTyped DEF Checked, Admitted
  <2>3. \A key \in Keys : ~PutCondition(key) => rows'[key] = rows[key]
    BY <1>14 DEF ExecutePut, PutCondition
  <2> QED
    BY <1>14, <2>1, <2>2, <2>3 DEF ExecutePut
<1>15. ASSUME NEW r \in Submissions, Kill(r) PROVE StoredIsRow'
  BY <1>15 DEF Kill
<1>16. ASSUME UNCHANGED <<pc, input, rows>> PROVE StoredIsRow'
  BY <1>16
<1> QED
  BY <1>1, <1>2, <1>3, <1>4, <1>5, <1>6, <1>7, <1>8, <1>9, <1>10, <1>11, <1>12,
     <1>13, <1>14, <1>15, <1>16
     DEF Next, Handler, VelocityRuns, Rollup, ForgetClaim, ArchivePut, vars, own

\* Two submissions of one scan are never both answered as the one stored,
\* whatever is resent, late or executed twice.
THEOREM OneIsStored == Spec => []StoredOnce
<1>1. Init => StoredIsRow
  BY DEF Init, StoredIsRow
<1>2. StoredIsRow => StoredOnce
  BY DEF StoredIsRow, StoredOnce
<1> QED
  BY <1>1, <1>2, StoredStep, TypedInvariant, PTL DEF Spec

-----------------------------------------------------------------------------
(* A refused submission leaves no trace.                                   *)

Traced(r) ==
  \/ \E k \in Keys : rows[k] = r
  \/ archive[r] # "none"
  \/ calls[r].pc # "idle"
  \/ \E k \in 1 .. PutAttempts : <<r, k>> \in wire

\* Whatever left a trace was admitted with evidence that proves it.
TracesAreProven ==
  \A r \in Submissions : Traced(r) =>
    /\ pc[r] \notin {"idle", "hydrate", "identity", "rejected", "conflict"}
    /\ input[r] \in SubmissionShapes /\ ~Unproven(input[r])

\* The rollup's own steps start no call.
LEMMA NoCallStarts ==
  ASSUME V!TypeOK, NEW r \in Submissions, V!UpdateStep(r) \/ V!BumpStep(r),
         NEW x \in Submissions, calls[x].pc = "idle"
  PROVE  calls'[x].pc = "idle"
<1> USE DEF V!TypeOK, V!CallType, V!Goto
<1>1. CASE V!ReadSketch(r)
  BY <1>1 DEF V!ReadSketch
<1>2. CASE V!SendWrite(r)
  BY <1>2 DEF V!SendWrite, V!Send
<1>3. CASE V!ResendWrite(r)
  BY <1>3 DEF V!ResendWrite, V!Send
<1>4. CASE V!ExecutePipelined(r)
  BY <1>4 DEF V!ExecutePipelined
<1>5. CASE V!RefusePipelined(r)
  BY <1>5 DEF V!RefusePipelined
<1>6. CASE V!AnswerPipeline(r)
  BY <1>6 DEF V!AnswerPipeline
<1>7. CASE V!ReconnectPipelined(r)
  BY <1>7 DEF V!ReconnectPipelined
<1>8. CASE V!FailUpdate(r)
  BY <1>8 DEF V!FailUpdate
<1>9. ASSUME NEW k \in 1 .. VelocityAttempts, V!ExecuteWrite(r, k)
      PROVE  calls'[x].pc = "idle"
  <2>1. UNCHANGED calls \/ V!Goto(r, "sent", "done")
    BY <1>9 DEF V!ExecuteWrite
  <2> QED
    BY <2>1
<1>10. CASE V!ResendBump(r)
  BY <1>10 DEF V!ResendBump, V!Send
<1>11. CASE V!FailBump(r)
  BY <1>11 DEF V!FailBump
<1>12. ASSUME NEW k \in 1 .. VelocityAttempts, V!ExecuteBump(r, k)
       PROVE  calls'[x].pc = "idle"
  <2>1. UNCHANGED calls \/ V!Goto(r, "bumping", "bumped")
    BY <1>12 DEF V!ExecuteBump
  <2> QED
    BY <2>1
<1> QED
  BY <1>1, <1>2, <1>3, <1>4, <1>5, <1>6, <1>7, <1>8, <1>9, <1>10, <1>11, <1>12
     DEF V!UpdateStep, V!BumpStep

\* Only the submission's own handler starts its call.
LEMMA OthersCall ==
  ASSUME V!TypeOK, NEW r \in Submissions, NEW x \in Submissions, x # r,
         \/ \E d \in Devices : V!Update(r, d)
         \/ V!SkipUpdate(r) \/ V!Bump(r) \/ UNCHANGED velocity
  PROVE  calls'[x] = calls[x]
BY DEF V!TypeOK, V!Update, V!SkipUpdate, V!Bump, V!Goto, velocity

LEMMA TraceStep == Typed /\ V!TypeOK /\ TracesAreProven /\ [Next]_vars => TracesAreProven'
<1> SUFFICES ASSUME Typed, V!TypeOK, TracesAreProven, [Next]_vars PROVE TracesAreProven'
  OBVIOUS
<1> USE DEF Typed, OwnTypeOK, TracesAreProven, Traced, Goto, velocity
<1>1. ASSUME NEW r \in Submissions, Receive(r) PROVE TracesAreProven'
  BY <1>1 DEF Receive
<1>2. ASSUME NEW r \in Submissions, RejectRequest(r) PROVE TracesAreProven'
  BY <1>2 DEF RejectRequest
<1>3. ASSUME NEW r \in Submissions, Hydrate(r) PROVE TracesAreProven'
  <2>1. ~Traced(r)
    BY <1>3 DEF Hydrate
  <2> QED
    BY <1>3, <2>1 DEF Hydrate
<1>4. ASSUME NEW r \in Submissions, HydrateFails(r) PROVE TracesAreProven'
  BY <1>4 DEF HydrateFails
<1>5. ASSUME NEW r \in Submissions, PrewarmFails(r) PROVE TracesAreProven'
  BY <1>5 DEF PrewarmFails
<1>6. ASSUME NEW r \in Submissions, BuildRecord(r) PROVE TracesAreProven'
  <2>1. /\ input[r] \in SubmissionShapes /\ ~Unproven(input[r])
        /\ pc' = [pc EXCEPT ![r] = "velocity"]
        /\ UNCHANGED <<input, wire, rows, archive>>
    BY <1>6 DEF BuildRecord, Checked, Admitted
  <2>2. \A x \in Submissions : x # r => calls'[x] = calls[x]
    <3>1. \/ \E d \in Devices : V!Update(r, d)
          \/ V!SkipUpdate(r) \/ UNCHANGED velocity
      BY <1>6, <2>1, ShapeTyped DEF BuildRecord
    <3> QED
      BY <3>1, OthersCall
  <2> QED
    BY <2>1, <2>2
<1>7. ASSUME NEW r \in Submissions, RejectReplay(r) PROVE TracesAreProven'
  BY <1>7 DEF RejectReplay
<1>8. ASSUME NEW r \in Submissions, Project(r) PROVE TracesAreProven'
  <2>1. /\ pc[r] = "velocity" /\ input[r] \in SubmissionShapes /\ ~Unproven(input[r])
        /\ pc' = [pc EXCEPT ![r] = "put"] \/ pc' = [pc EXCEPT ![r] = "bumping"]
        /\ \A x \in Submissions : x # r => archive'[x] = archive[x]
        /\ UNCHANGED <<input, wire, rows>>
    BY <1>8 DEF Project, Persist, StartArchive, Checked, Admitted
  <2>2. \A x \in Submissions : x # r => calls'[x] = calls[x]
    <3>1. V!Bump(r) \/ UNCHANGED velocity
      BY <1>8 DEF Project
    <3> QED
      BY <3>1, OthersCall
  <2>3. PICK x \in {"put", "bumping"} : pc' = [pc EXCEPT ![r] = x]
    BY <2>1
  <2> QED
    BY <2>1, <2>2, <2>3
<1>9. ASSUME NEW r \in Submissions, VelocityDeadline(r) PROVE TracesAreProven'
  <2>1. /\ input[r] \in SubmissionShapes /\ ~Unproven(input[r])
        /\ pc' = [pc EXCEPT ![r] = "put"]
        /\ \A x \in Submissions : x # r => archive'[x] = archive[x]
        /\ UNCHANGED <<input, wire, rows, calls>>
    BY <1>9 DEF VelocityDeadline, Persist, StartArchive, Checked, Admitted
  <2> QED
    BY <2>1
<1>10. ASSUME NEW r \in Submissions, BumpReturns(r) PROVE TracesAreProven'
  <2>1. /\ input[r] \in SubmissionShapes /\ ~Unproven(input[r])
        /\ pc' = [pc EXCEPT ![r] = "put"]
        /\ \A x \in Submissions : x # r => archive'[x] = archive[x]
        /\ UNCHANGED <<input, wire, rows, calls>>
    BY <1>10 DEF BumpReturns, Persist, StartArchive, Checked, Admitted
  <2> QED
    BY <2>1
<1>11. ASSUME NEW r \in Submissions, SendPut(r) PROVE TracesAreProven'
  <2>1. input[r] \in SubmissionShapes /\ ~Unproven(input[r])
    BY <1>11 DEF SendPut, Checked, Admitted
  <2> QED
    BY <1>11, <2>1 DEF SendPut
<1>12. ASSUME NEW r \in Submissions, RetryPut(r) PROVE TracesAreProven'
  BY <1>12 DEF RetryPut, Admitted, Checked
<1>13. ASSUME NEW r \in Submissions, FailPut(r) PROVE TracesAreProven'
  BY <1>13 DEF FailPut, AfterFailedPut, Admitted, Checked
<1>14. ASSUME NEW r \in Submissions, NEW k \in 1 .. PutAttempts,
              ExecutePut(r, k)
       PROVE  TracesAreProven'
  <2>1. /\ pc[r] \notin {"idle", "hydrate", "identity", "rejected", "conflict"}
        /\ input[r] \in SubmissionShapes /\ ~Unproven(input[r])
    BY <1>14 DEF ExecutePut
  <2>2. \A x \in Submissions, k2 \in Keys : x # r /\ rows'[k2] = x => rows[k2] = x
    BY <1>14 DEF ExecutePut
  <2>3. /\ \/ UNCHANGED pc
           \/ \E to \in {"stored", "duplicate"} : pc' = [pc EXCEPT ![r] = to]
        /\ UNCHANGED <<input, archive, calls>> /\ wire' \subseteq wire
    BY <1>14 DEF ExecutePut
  <2> QED
    BY <2>1, <2>2, <2>3
<1>15. ASSUME NEW r \in Submissions, ArchivePut(r) PROVE TracesAreProven'
  <2>1. Traced(r)
    BY <1>15 DEF ArchivePut
  <2> QED
    BY <1>15, <2>1 DEF ArchivePut
<1>16. ASSUME NEW r \in Submissions, Kill(r) PROVE TracesAreProven'
  BY <1>16 DEF Kill
<1>17. ASSUME NEW r \in Submissions, VelocityRuns(r) PROVE TracesAreProven'
  <2>1. \A x \in Submissions : calls[x].pc = "idle" => calls'[x].pc = "idle"
    BY <1>17, NoCallStarts DEF VelocityRuns
  <2> QED
    BY <1>17, <2>1 DEF VelocityRuns, own
<1>18. CASE Rollup
  BY <1>18 DEF Rollup, own, V!Tick, V!Replicate
<1>19. ASSUME UNCHANGED <<pc, input, rows, archive, wire, calls>> PROVE TracesAreProven'
  BY <1>19
<1> QED
  BY <1>1, <1>2, <1>3, <1>4, <1>5, <1>6, <1>7, <1>8, <1>9, <1>10, <1>11, <1>12,
     <1>13, <1>14, <1>15, <1>16, <1>17, <1>18, <1>19
     DEF Next, Handler, ForgetClaim, vars, own

\* Nothing of a refused submission, or of one that nothing vouches for, is in
\* the table, the archive, the rollup or on the way there.
THEOREM RefusedLeavesNothing == Spec => []RejectionLeavesNoTrace
<1>1. Init => TracesAreProven
  BY NoneAssumption DEF Init, V!Init, TracesAreProven, Traced
<1>2. Spec => []V!TypeOK
  <2>1. TypeOK => V!TypeOK
    BY DEF TypeOK
  <2> QED
    BY <2>1, TypeCorrect, PTL
<1>3. TracesAreProven => RejectionLeavesNoTrace
  BY DEF TracesAreProven, Traced, RejectionLeavesNoTrace, Refused
<1> QED
  BY <1>1, <1>2, <1>3, TraceStep, TypedInvariant, PTL DEF Spec

-----------------------------------------------------------------------------
(* STUN candidates are used by one session.                                *)

\* Who got past the STUN check holds the claim until the container forgets it.
ClaimHeld ==
  \A r \in Submissions :
    PastClaim(r) /\ input[r].stun # None /\ <<host[r], input[r].stun>> \notin forgot =>
      tracker[host[r]][input[r].stun] = SessionOf(input[r].key)

\* Whatever changes neither the tracker nor who is past the check.
LEMMA ClaimKept ==
  ASSUME ClaimHeld, UNCHANGED <<input, host, tracker, forgot>>,
         \A r \in Submissions : PastClaim(r)' => PastClaim(r)
  PROVE  ClaimHeld'
BY DEF ClaimHeld

LEMMA ClaimStep == Typed /\ ClaimHeld /\ [Next]_vars => ClaimHeld'
<1> SUFFICES ASSUME Typed, ClaimHeld, [Next]_vars PROVE ClaimHeld'
  OBVIOUS
<1> USE DEF Typed, OwnTypeOK, PastClaim, Goto
<1>1. ASSUME NEW r \in Submissions, Receive(r) PROVE ClaimHeld'
  <2>1. \A s \in Submissions : PastClaim(s)' => PastClaim(s) /\ s # r
    BY <1>1 DEF Receive
  <2> QED
    BY <1>1, <2>1 DEF Receive, ClaimHeld
<1>2. ASSUME NEW r \in Submissions, RejectRequest(r) PROVE ClaimHeld'
  <2>1. \A s \in Submissions : PastClaim(s)' => PastClaim(s)
    BY <1>2 DEF RejectRequest
  <2> QED
    BY <1>2, <2>1, ClaimKept DEF RejectRequest
<1>3. ASSUME NEW r \in Submissions, Hydrate(r) PROVE ClaimHeld'
  <2>1. \A s \in Submissions : PastClaim(s)' => PastClaim(s)
    BY <1>3 DEF Hydrate, AfterHydrate
  <2> QED
    BY <1>3, <2>1, ClaimKept DEF Hydrate
<1>4. ASSUME NEW r \in Submissions, HydrateFails(r) PROVE ClaimHeld'
  <2>1. \A s \in Submissions : PastClaim(s)' => PastClaim(s)
    BY <1>4 DEF HydrateFails
  <2> QED
    BY <1>4, <2>1, ClaimKept DEF HydrateFails
<1>5. ASSUME NEW r \in Submissions, PrewarmFails(r) PROVE ClaimHeld'
  <2>1. \A s \in Submissions : PastClaim(s)' => PastClaim(s)
    BY <1>5 DEF PrewarmFails
  <2> QED
    BY <1>5, <2>1, ClaimKept DEF PrewarmFails
<1>6. ASSUME NEW r \in Submissions, BuildRecord(r) PROVE ClaimHeld'
  <2> DEFINE c == host[r]
             n == input[r].stun
             t == SessionOf(input[r].key)
  <2>1. /\ c \in Containers /\ n \in Candidates \cup {None} /\ t # None
        /\ UNCHANGED <<input, host, forgot>> /\ tracker' = Claim(c, input[r])
        /\ n # None => tracker[c][n] \in {None, t}
    BY <1>6, ShapeTyped, NoneAssumption
       DEF BuildRecord, AcceptsClaim, Checked, Admitted
  <2>2. \A x \in Containers, y \in Candidates :
          /\ tracker[x][y] # None => tracker'[x][y] = tracker[x][y]
          /\ x = c /\ y = n => tracker'[x][y] = t
    <3>1. CASE n = None
      BY <2>1, <3>1, NoneAssumption DEF Claim
    <3>2. CASE n # None
      BY <2>1, <3>2 DEF Claim
    <3> QED
      BY <3>1, <3>2
  <2>3. ASSUME NEW s \in Submissions, PastClaim(s)', input[s].stun # None,
               <<host[s], input[s].stun>> \notin forgot
        PROVE  tracker'[host[s]][input[s].stun] = SessionOf(input[s].key)
    <3>1. CASE s = r
      BY <2>1, <2>2, <2>3, <3>1
    <3>2. CASE s # r
      <4>1. PastClaim(s) /\ pc[s] = pc'[s]
        BY <1>6, <2>3, <3>2 DEF BuildRecord
      <4>2. /\ host[s] \in Containers /\ input[s].stun \in Candidates
            /\ SessionOf(input[s].key) # None
        BY <2>3, <4>1, ShapeTyped, NoneAssumption DEF Checked, Admitted
      <4>3. tracker[host[s]][input[s].stun] = SessionOf(input[s].key)
        BY <2>3, <4>1 DEF ClaimHeld
      <4> QED
        BY <2>2, <4>2, <4>3
    <3> QED
      BY <3>1, <3>2
  <2> QED
    BY <2>1, <2>3 DEF ClaimHeld
<1>7. ASSUME NEW r \in Submissions, RejectReplay(r) PROVE ClaimHeld'
  <2>1. \A s \in Submissions : PastClaim(s)' => PastClaim(s)
    BY <1>7 DEF RejectReplay
  <2> QED
    BY <1>7, <2>1, ClaimKept DEF RejectReplay
<1>8. ASSUME NEW r \in Submissions, Project(r) PROVE ClaimHeld'
  <2>1. \A s \in Submissions : PastClaim(s)' => PastClaim(s)
    BY <1>8 DEF Project, Persist
  <2> QED
    BY <1>8, <2>1, ClaimKept DEF Project
<1>9. ASSUME NEW r \in Submissions, VelocityDeadline(r) PROVE ClaimHeld'
  <2>1. \A s \in Submissions : PastClaim(s)' => PastClaim(s)
    BY <1>9 DEF VelocityDeadline, Persist
  <2> QED
    BY <1>9, <2>1, ClaimKept DEF VelocityDeadline
<1>10. ASSUME NEW r \in Submissions, BumpReturns(r) PROVE ClaimHeld'
  <2>1. \A s \in Submissions : PastClaim(s)' => PastClaim(s)
    BY <1>10 DEF BumpReturns, Persist
  <2> QED
    BY <1>10, <2>1, ClaimKept DEF BumpReturns
<1>11. ASSUME NEW r \in Submissions, SendPut(r) PROVE ClaimHeld'
  <2>1. \A s \in Submissions : PastClaim(s)' => PastClaim(s)
    BY <1>11 DEF SendPut
  <2> QED
    BY <1>11, <2>1, ClaimKept DEF SendPut
<1>12. ASSUME NEW r \in Submissions, RetryPut(r) PROVE ClaimHeld'
  <2>1. \A s \in Submissions : PastClaim(s)' => PastClaim(s)
    BY <1>12 DEF RetryPut
  <2> QED
    BY <1>12, <2>1, ClaimKept DEF RetryPut
<1>13. ASSUME NEW r \in Submissions, FailPut(r) PROVE ClaimHeld'
  <2>1. \A s \in Submissions : PastClaim(s)' => PastClaim(s)
    BY <1>13 DEF FailPut, AfterFailedPut
  <2> QED
    BY <1>13, <2>1, ClaimKept DEF FailPut
<1>14. ASSUME NEW r \in Submissions, NEW k \in 1 .. PutAttempts,
              ExecutePut(r, k)
       PROVE  ClaimHeld'
  <2>1. \A s \in Submissions : PastClaim(s)' => PastClaim(s)
    BY <1>14 DEF ExecutePut
  <2> QED
    BY <1>14, <2>1, ClaimKept DEF ExecutePut
<1>15. ASSUME NEW r \in Submissions, Kill(r) PROVE ClaimHeld'
  <2>1. \A s \in Submissions : PastClaim(s)' => PastClaim(s)
    BY <1>15 DEF Kill
  <2> QED
    BY <1>15, <2>1, ClaimKept DEF Kill
<1>16. ASSUME NEW c \in Containers, NEW n \in Candidates,
              ForgetClaim(c, n)
       PROVE  ClaimHeld'
  <2>1. /\ \A x, y : x # c \/ y # n => tracker'[x][y] = tracker[x][y]
        /\ forgot' = forgot \cup {<<c, n>>}
    BY <1>16 DEF ForgetClaim
  <2>2. UNCHANGED <<pc, input, host>>
    BY <1>16 DEF ForgetClaim
  <2> QED
    BY <2>1, <2>2 DEF ClaimHeld
<1>17. ASSUME UNCHANGED <<pc, input, host, tracker, forgot>> PROVE ClaimHeld'
  BY <1>17 DEF ClaimHeld
<1> QED
  BY <1>1, <1>2, <1>3, <1>4, <1>5, <1>6, <1>7, <1>8, <1>9, <1>10, <1>11, <1>12,
     <1>13, <1>14, <1>15, <1>16, <1>17
     DEF Next, Handler, VelocityRuns, Rollup, ArchivePut, vars, own

\* While a container remembers a candidate, two sessions never both got past
\* the STUN check with it there, in whatever order their steps are taken.
THEOREM CandidatesUsedOnce == Spec => []SingleUse
<1>1. Init => ClaimHeld
  BY DEF Init, ClaimHeld, PastClaim
<1>2. ClaimHeld => SingleUse
  BY DEF ClaimHeld, SingleUse
<1> QED
  BY <1>1, <1>2, ClaimStep, TypedInvariant, PTL DEF Spec

-----------------------------------------------------------------------------
(* Ingestion implements the scan store.                                    *)

AckedKeys == {input[r].key : r \in {x \in Submissions : Acknowledged(x)}}

\* An answer acknowledges its key; nothing else acknowledges anything.
LEMMA AckedKept ==
  ASSUME \A x \in Submissions : /\ Acknowledged(x)' <=> Acknowledged(x)
                                /\ Acknowledged(x) => input'[x] = input[x]
  PROVE  AckedKeys' = AckedKeys
BY DEF AckedKeys

LEMMA AckedMore ==
  ASSUME NEW r \in Submissions, input' = input, Acknowledged(r)',
         \A x \in Submissions : x # r => (Acknowledged(x)' <=> Acknowledged(x)),
         ~Acknowledged(r)
  PROVE  AckedKeys' = AckedKeys \cup {input[r].key}
BY DEF AckedKeys

LEMMA ScanInitial == Init => Scans!StoreInit
BY DEF Init, Scans!StoreInit, Acknowledged

LEMMA ScanStep == Typed /\ [Next]_vars => [Scans!StoreNext]_Scans!storeVars
<1> SUFFICES ASSUME Typed, [Next]_vars
             PROVE  Scans!StoreNext \/ (rows' = rows /\ AckedKeys' = AckedKeys)
  BY DEF Scans!storeVars, AckedKeys
<1> DEFINE Stutter == rows' = rows /\ AckedKeys' = AckedKeys
<1> USE DEF Typed, OwnTypeOK, Acknowledged, Goto
<1>1. ASSUME NEW r \in Submissions, Receive(r) PROVE Stutter
  <2>1. \A x \in Submissions : /\ Acknowledged(x)' <=> Acknowledged(x)
                               /\ Acknowledged(x) => input'[x] = input[x]
    BY <1>1 DEF Receive
  <2> QED
    BY <1>1, <2>1, AckedKept DEF Receive
<1>2. ASSUME NEW r \in Submissions, RejectRequest(r) PROVE Stutter
  <2>1. \A x \in Submissions : /\ Acknowledged(x)' <=> Acknowledged(x)
                               /\ Acknowledged(x) => input'[x] = input[x]
    BY <1>2 DEF RejectRequest
  <2> QED
    BY <1>2, <2>1, AckedKept DEF RejectRequest
<1>3. ASSUME NEW r \in Submissions, Hydrate(r) PROVE Stutter
  <2>1. \A x \in Submissions : /\ Acknowledged(x)' <=> Acknowledged(x)
                               /\ Acknowledged(x) => input'[x] = input[x]
    BY <1>3 DEF Hydrate, AfterHydrate
  <2> QED
    BY <1>3, <2>1, AckedKept DEF Hydrate
<1>4. ASSUME NEW r \in Submissions, HydrateFails(r) PROVE Stutter
  <2>1. \A x \in Submissions : /\ Acknowledged(x)' <=> Acknowledged(x)
                               /\ Acknowledged(x) => input'[x] = input[x]
    BY <1>4 DEF HydrateFails
  <2> QED
    BY <1>4, <2>1, AckedKept DEF HydrateFails
<1>5. ASSUME NEW r \in Submissions, PrewarmFails(r) PROVE Stutter
  <2>1. \A x \in Submissions : /\ Acknowledged(x)' <=> Acknowledged(x)
                               /\ Acknowledged(x) => input'[x] = input[x]
    BY <1>5 DEF PrewarmFails
  <2> QED
    BY <1>5, <2>1, AckedKept DEF PrewarmFails
<1>6. ASSUME NEW r \in Submissions, BuildRecord(r) PROVE Stutter
  <2>1. \A x \in Submissions : /\ Acknowledged(x)' <=> Acknowledged(x)
                               /\ Acknowledged(x) => input'[x] = input[x]
    BY <1>6 DEF BuildRecord
  <2> QED
    BY <1>6, <2>1, AckedKept DEF BuildRecord
<1>7. ASSUME NEW r \in Submissions, RejectReplay(r) PROVE Stutter
  <2>1. \A x \in Submissions : /\ Acknowledged(x)' <=> Acknowledged(x)
                               /\ Acknowledged(x) => input'[x] = input[x]
    BY <1>7 DEF RejectReplay
  <2> QED
    BY <1>7, <2>1, AckedKept DEF RejectReplay
<1>8. ASSUME NEW r \in Submissions, Project(r) PROVE Stutter
  <2>1. \A x \in Submissions : /\ Acknowledged(x)' <=> Acknowledged(x)
                               /\ Acknowledged(x) => input'[x] = input[x]
    BY <1>8 DEF Project, Persist
  <2> QED
    BY <1>8, <2>1, AckedKept DEF Project
<1>9. ASSUME NEW r \in Submissions, VelocityDeadline(r) PROVE Stutter
  <2>1. \A x \in Submissions : /\ Acknowledged(x)' <=> Acknowledged(x)
                               /\ Acknowledged(x) => input'[x] = input[x]
    BY <1>9 DEF VelocityDeadline, Persist
  <2> QED
    BY <1>9, <2>1, AckedKept DEF VelocityDeadline
<1>10. ASSUME NEW r \in Submissions, BumpReturns(r) PROVE Stutter
  <2>1. \A x \in Submissions : /\ Acknowledged(x)' <=> Acknowledged(x)
                               /\ Acknowledged(x) => input'[x] = input[x]
    BY <1>10 DEF BumpReturns, Persist
  <2> QED
    BY <1>10, <2>1, AckedKept DEF BumpReturns
<1>11. ASSUME NEW r \in Submissions, SendPut(r) PROVE Stutter
  <2>1. \A x \in Submissions : /\ Acknowledged(x)' <=> Acknowledged(x)
                               /\ Acknowledged(x) => input'[x] = input[x]
    BY <1>11 DEF SendPut
  <2> QED
    BY <1>11, <2>1, AckedKept DEF SendPut
<1>12. ASSUME NEW r \in Submissions, RetryPut(r) PROVE Stutter
  <2>1. \A x \in Submissions : /\ Acknowledged(x)' <=> Acknowledged(x)
                               /\ Acknowledged(x) => input'[x] = input[x]
    BY <1>12 DEF RetryPut
  <2> QED
    BY <1>12, <2>1, AckedKept DEF RetryPut
<1>13. ASSUME NEW r \in Submissions, FailPut(r) PROVE Stutter
  <2>1. \A x \in Submissions : /\ Acknowledged(x)' <=> Acknowledged(x)
                               /\ Acknowledged(x) => input'[x] = input[x]
    BY <1>13 DEF FailPut, AfterFailedPut
  <2> QED
    BY <1>13, <2>1, AckedKept DEF FailPut
<1>14. ASSUME NEW r \in Submissions, NEW k \in 1 .. PutAttempts,
              ExecutePut(r, k)
       PROVE  Scans!StoreNext \/ Stutter
  <2> DEFINE key == input[r].key
  <2>1. /\ input' = input
        /\ rows' = IF rows[key] = None THEN [rows EXCEPT ![key] = r] ELSE rows
    BY <1>14 DEF ExecutePut, PutCondition
  <2>2. CASE UNCHANGED pc
    <3>1. AckedKeys' = AckedKeys
      BY <2>1, <2>2, AckedKept
    <3>2. rows' = rows \/ (key \in Keys /\ rows[key] = None /\ rows' = [rows EXCEPT ![key] = r])
      BY <2>1
    <3> QED
      BY <3>1, <3>2 DEF Scans!StoreNext, Scans!Write, AckedKeys
  <2>3. CASE pc[r] = "putting" /\ \E to \in {"stored", "duplicate"} : pc' = [pc EXCEPT ![r] = to]
    <3>1. key \in Keys
      BY <2>3, ShapeTyped DEF Checked, Admitted
    <3>2. AckedKeys' = AckedKeys \cup {key}
      BY <2>1, <2>3, AckedMore
    <3>3. CASE rows[key] = None
      BY <2>1, <3>1, <3>2, <3>3 DEF Scans!StoreNext, Scans!WriteAndAcknowledge, AckedKeys
    <3>4. CASE rows[key] # None
      BY <2>1, <3>1, <3>2, <3>4 DEF Scans!StoreNext, Scans!Acknowledge, AckedKeys
    <3> QED
      BY <3>3, <3>4
  <2>4. UNCHANGED pc \/ (pc[r] = "putting" /\ \E to \in {"stored", "duplicate"} : pc' = [pc EXCEPT ![r] = to])
    BY <1>14 DEF ExecutePut
  <2> QED
    BY <2>2, <2>3, <2>4
<1>15. ASSUME NEW r \in Submissions, Kill(r) PROVE Stutter
  <2>1. \A x \in Submissions : /\ Acknowledged(x)' <=> Acknowledged(x)
                               /\ Acknowledged(x) => input'[x] = input[x]
    BY <1>15 DEF Kill, Working
  <2> QED
    BY <1>15, <2>1, AckedKept DEF Kill
<1>16. ASSUME UNCHANGED <<pc, input, rows>> PROVE Stutter
  BY <1>16, AckedKept
<1> QED
  BY <1>1, <1>2, <1>3, <1>4, <1>5, <1>6, <1>7, <1>8, <1>9, <1>10, <1>11, <1>12,
     <1>13, <1>14, <1>15, <1>16
     DEF Next, Handler, VelocityRuns, Rollup, ArchivePut, ForgetClaim, vars, own

\* The first record of a scan is its record for good, and a 200 is only given
\* for a scan that has one: ingestion implements ScanStore.
THEOREM ScansAreKept == Spec => StorePromise
BY ScanInitial, ScanStep, TypedInvariant, PTL
   DEF Spec, StorePromise, Scans!StoreSpec

-----------------------------------------------------------------------------
(* Ingestion's claims keep the promise of CandidateClaims.                 *)

Names == Containers \X Candidates
HolderMap == [x \in Names |-> tracker[x[1]][x[2]]]
Conflicts == {x \in Submissions : pc[x] = "conflict"}
Refusals == {<<<<host[r], input[r].stun>>, SessionOf(input[r].key)>> : r \in Conflicts}

\* Steps that claim, forget and refuse nothing.
Quiet ==
  /\ tracker' = tracker
  /\ \A x \in Submissions :
       /\ pc'[x] = "conflict" <=> pc[x] = "conflict"
       /\ pc[x] = "conflict" => input'[x] = input[x] /\ host'[x] = host[x]

LEMMA SameRefusals ==
  ASSUME \A x \in Submissions :
           /\ pc'[x] = "conflict" <=> pc[x] = "conflict"
           /\ pc[x] = "conflict" => input'[x] = input[x] /\ host'[x] = host[x]
  PROVE  Refusals' = Refusals
BY DEF Refusals, Conflicts

LEMMA QuietStutters ==
  ASSUME Quiet
  PROVE  HolderMap' = HolderMap /\ Refusals' = Refusals
BY SameRefusals DEF Quiet, HolderMap

LEMMA ClaimsInitial == Init => Claims!ClaimsInit
BY DEF Init, Claims!ClaimsInit

\* A record that is built gets its candidate, or holds it already.
LEMMA BuildGrants ==
  ASSUME Typed, NEW r \in Submissions, BuildRecord(r)
  PROVE  Claims!ClaimsNext \/ (HolderMap' = HolderMap /\ Refusals' = Refusals)
<1> DEFINE c == host[r]
           n == input[r].stun
           t == SessionOf(input[r].key)
<1>1. /\ c \in Containers /\ n \in Candidates \cup {None} /\ t \in Sessions
      /\ tracker' = Claim(c, input[r]) /\ (n # None => tracker[c][n] \in {None, t})
  BY ShapeTyped DEF BuildRecord, AcceptsClaim, Typed, Checked, Admitted, Goto
<1>2. \A x \in Submissions : /\ pc'[x] = "conflict" <=> pc[x] = "conflict"
                             /\ input'[x] = input[x] /\ host'[x] = host[x]
  BY DEF BuildRecord, Goto, Typed, OwnTypeOK
<1>3. Refusals' = Refusals
  BY <1>2, SameRefusals
<1>4. tracker \in [Containers -> [Candidates -> Sessions \cup {None}]]
  BY DEF Typed, OwnTypeOK
<1>5. CASE n = None
  BY <1>1, <1>3, <1>5 DEF Claim, HolderMap
<1>6. CASE n # None
  <2>1. /\ n \in Candidates /\ tracker[c][n] \in {None, t}
        /\ tracker' = [tracker EXCEPT ![c][n] =
                         IF tracker[c][n] = None THEN t ELSE tracker[c][n]]
    BY <1>1, <1>4, <1>6 DEF Claim
  <2> HIDE DEF c, n, t
  <2>2. tracker' = [tracker EXCEPT ![c][n] = t]
    BY <2>1
  <2>3. PICK d, m, h : d = c /\ m = n /\ h = t
    OBVIOUS
  <2>4. \A x \in Containers, y \in Candidates :
          tracker'[x][y] = IF x = d /\ y = m THEN h ELSE tracker[x][y]
    BY <1>1, <1>4, <2>1, <2>2, <2>3
  <2>5. PICK x \in Names : x = <<d, m>>
    BY <1>1, <2>1, <2>3 DEF Names
  <2>6. x[1] = d /\ x[2] = m /\ x \in Containers \X Candidates /\ h \in Sessions
    BY <1>1, <2>3, <2>5 DEF Names
  <2>7. \A y \in Names : y # x => ~(y[1] = d /\ y[2] = m)
    BY <2>5 DEF Names
  <2>8. HolderMap' = [HolderMap EXCEPT ![x] = h]
    BY <2>4, <2>6, <2>7 DEF HolderMap, Names
  <2>9. HolderMap[x] \in {None, h}
    BY <2>1, <2>3, <2>6 DEF HolderMap, Names
  <2>10. CASE HolderMap[x] = h
    BY <1>3, <2>8, <2>10 DEF HolderMap
  <2>11. CASE HolderMap[x] = None
    <3>1. Claims!Without({}) = HolderMap
      BY DEF Claims!Without, HolderMap, Names
    <3>2. HolderMap' = [Claims!Without({}) EXCEPT ![x] = h]
      BY <2>8, <3>1
    <3>3. Claims!Grant(x, h, {})
      BY <1>3, <2>11, <3>2 DEF Claims!Grant, HolderMap, Names, Refusals, Conflicts
    <3>4. {} \in SUBSET (Containers \X Candidates)
      OBVIOUS
    <3> QED
      BY <2>6, <3>3, <3>4 DEF Claims!ClaimsNext
  <2> QED
    BY <2>9, <2>10, <2>11
<1> QED
  BY <1>5, <1>6

\* Who is refused presents a candidate that another session holds.
LEMMA ReplayMeetsHolder ==
  ASSUME Typed, NEW r \in Submissions, RejectReplay(r)
  PROVE  Claims!ClaimsNext
<1>1. /\ pc[r] = "identity" /\ pc' = [pc EXCEPT ![r] = "conflict"]
      /\ UNCHANGED <<input, host, tracker>> /\ ~AcceptsClaim(host[r], input[r])
      /\ pc \in [Submissions -> {"idle"} \cup Working \cup Outcomes]
  BY DEF RejectReplay, Goto, Typed, OwnTypeOK
<1>2. PICK c, n, t : c = host[r] /\ n = input[r].stun /\ t = SessionOf(input[r].key)
  OBVIOUS
<1>3. /\ c \in Containers /\ n \in Candidates /\ t \in Sessions
      /\ tracker[c][n] \notin {None, t}
  BY <1>1, <1>2, ShapeTyped DEF AcceptsClaim, Typed, Checked, Admitted
<1>4. PICK x \in Names : x = <<c, n>>
  BY <1>3 DEF Names
<1>5. x[1] = c /\ x[2] = n /\ x \in Containers \X Candidates
  BY <1>4 DEF Names
<1>6. HolderMap[x] \notin {None, t} /\ HolderMap' = HolderMap
  BY <1>1, <1>3, <1>5 DEF HolderMap, Names
<1>7. Conflicts' = Conflicts \cup {r}
  BY <1>1 DEF Conflicts
<1>8. Refusals' = Refusals \cup {<<x, t>>}
  BY <1>1, <1>2, <1>4, <1>7 DEF Refusals
<1>9. Claims!Refuse(x, t)
  BY <1>6, <1>8 DEF Claims!Refuse, HolderMap, Names, Refusals, Conflicts
<1> QED
  BY <1>3, <1>5, <1>9 DEF Claims!ClaimsNext

LEMMA ForgettingForgets ==
  ASSUME Typed, NEW c \in Containers, NEW n \in Candidates, ForgetClaim(c, n)
  PROVE  Claims!ClaimsNext
<1>1. /\ UNCHANGED <<pc, input, host>> /\ tracker' = [tracker EXCEPT ![c][n] = None]
      /\ tracker \in [Containers -> [Candidates -> Sessions \cup {None}]]
  BY DEF ForgetClaim, Typed, OwnTypeOK
<1>2. Refusals' = Refusals
  BY <1>1, SameRefusals
<1>3. PICK lost \in SUBSET (Containers \X Candidates) : lost = {<<c, n>>}
  <2>1. {<<c, n>>} \in SUBSET (Containers \X Candidates)
    OBVIOUS
  <2> QED
    BY <2>1
<1>4. \A x \in Names : x \in lost <=> x[1] = c /\ x[2] = n
  BY <1>3 DEF Names
<1>5. \A x \in Names : tracker'[x[1]][x[2]] = IF x \in lost THEN None ELSE tracker[x[1]][x[2]]
  BY <1>1, <1>4 DEF Names
<1>6. HolderMap' = [x \in Names |-> IF x \in lost THEN None ELSE HolderMap[x]]
  BY <1>5 DEF HolderMap
<1>7. Claims!Without(lost) = [x \in Names |-> IF x \in lost THEN None ELSE HolderMap[x]]
  BY DEF Claims!Without, HolderMap, Names
<1>8. HolderMap' = Claims!Without(lost)
  BY <1>6, <1>7
<1>9. Claims!Forget(lost)
  BY <1>2, <1>8 DEF Claims!Forget, HolderMap, Names, Refusals, Conflicts
<1> QED
  BY <1>9 DEF Claims!ClaimsNext

LEMMA ClaimsStep == Typed /\ [Next]_vars => [Claims!ClaimsNext]_Claims!claimsVars
<1> SUFFICES ASSUME Typed, [Next]_vars
             PROVE  Claims!ClaimsNext \/ (HolderMap' = HolderMap /\ Refusals' = Refusals)
  BY DEF Claims!claimsVars, HolderMap, Names, Refusals, Conflicts
<1>0. ASSUME Quiet PROVE HolderMap' = HolderMap /\ Refusals' = Refusals
  BY <1>0, QuietStutters
<1> USE DEF Typed, OwnTypeOK, Goto, Quiet
<1>1. ASSUME NEW r \in Submissions, Receive(r) PROVE Quiet
  BY <1>1 DEF Receive
<1>2. ASSUME NEW r \in Submissions, RejectRequest(r) PROVE Quiet
  BY <1>2 DEF RejectRequest
<1>3. ASSUME NEW r \in Submissions, Hydrate(r) PROVE Quiet
  BY <1>3 DEF Hydrate, AfterHydrate
<1>4. ASSUME NEW r \in Submissions, HydrateFails(r) PROVE Quiet
  BY <1>4 DEF HydrateFails
<1>5. ASSUME NEW r \in Submissions, PrewarmFails(r) PROVE Quiet
  BY <1>5 DEF PrewarmFails
<1>6. ASSUME NEW r \in Submissions, Project(r) PROVE Quiet
  BY <1>6 DEF Project, Persist
<1>7. ASSUME NEW r \in Submissions, VelocityDeadline(r) PROVE Quiet
  BY <1>7 DEF VelocityDeadline, Persist
<1>8. ASSUME NEW r \in Submissions, BumpReturns(r) PROVE Quiet
  BY <1>8 DEF BumpReturns, Persist
<1>9. ASSUME NEW r \in Submissions, SendPut(r) PROVE Quiet
  BY <1>9 DEF SendPut
<1>10. ASSUME NEW r \in Submissions, RetryPut(r) PROVE Quiet
  BY <1>10 DEF RetryPut
<1>11. ASSUME NEW r \in Submissions, FailPut(r) PROVE Quiet
  BY <1>11 DEF FailPut, AfterFailedPut
<1>12. ASSUME NEW r \in Submissions, Kill(r) PROVE Quiet
  BY <1>12 DEF Kill, Working
<1>13. ASSUME NEW r \in Submissions, NEW k \in 1 .. PutAttempts,
              ExecutePut(r, k)
       PROVE  Quiet
  BY <1>13 DEF ExecutePut
<1>14. ASSUME UNCHANGED <<pc, input, host, tracker>> PROVE Quiet
  BY <1>14
<1> QED
  BY <1>0, <1>1, <1>2, <1>3, <1>4, <1>5, <1>6, <1>7, <1>8, <1>9, <1>10, <1>11, <1>12, <1>13, <1>14,
     BuildGrants, ReplayMeetsHolder, ForgettingForgets
     DEF Next, Handler, VelocityRuns, Rollup, ArchivePut, vars, own

\* A container's candidate passes from a submission of one session to one of
\* another only by being forgotten, and a 409 answers a session that presented
\* what another one held: ingestion asks of the tracker what the tracker
\* promises (StunRedemption_proofs!TrackerKeepsPromise), and no more.
THEOREM ClaimsKeepPromise == Spec => ClaimsPromise
BY ClaimsInitial, ClaimsStep, TypedInvariant, PTL
   DEF Spec, ClaimsPromise, Claims!ClaimsSpec
=============================================================================
