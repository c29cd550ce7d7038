-------------------------- MODULE IpVelocity_proofs --------------------------
(***************************************************************************)
(* Theorems about IpVelocity for any finite set of submissions, any set of *)
(* devices, any number of resends and any number of hours.                 *)
(***************************************************************************)
EXTENDS IpVelocity, FiniteSetTheorems, TLAPS

-----------------------------------------------------------------------------
(* Type correctness.                                                       *)

\* A call that was started has a device.
DeviceKnown ==
  \A c \in Calls : calls[c].pc \notin {"idle", "failed"} \/ calls[c].next # 0 =>
    calls[c].device \in Devices

Typed == TypeOK /\ DeviceKnown

LEMMA TypeInit == Init => Typed
BY HourAssumption, AttemptsAssumption
   DEF Init, Typed, TypeOK, DeviceKnown, Buckets, RowType, CallType, EmptyRow, Pipeline, Commands

\* The positions in the pipeline.
LEMMA PipelineFacts ==
  /\ 0 \in 0 .. Len(Pipeline) + 1 /\ 1 \in 0 .. Len(Pipeline) + 1
  /\ \A n \in 1 .. Len(Pipeline) : n + 1 \in 0 .. Len(Pipeline) + 1
  /\ \A n \in 1 .. Len(Pipeline) : Pipeline[n] \in Commands
BY DEF Pipeline, Commands

LEMMA CallTyped ==
  ASSUME TypeOK, NEW c \in Calls
  PROVE  /\ calls[c] \in CallType /\ calls[c].bucket \in Buckets
         /\ calls[c].sketch \in SUBSET Devices
         /\ rows[calls[c].bucket] \in RowType
BY DEF TypeOK, CallType

\* A step that updates one call and one row keeps their types.
LEMMA SetCall ==
  ASSUME TypeOK, NEW c \in Calls, NEW r \in CallType
  PROVE  [calls EXCEPT ![c] = r] \in [Calls -> CallType]
BY DEF TypeOK

LEMMA SetRow ==
  ASSUME TypeOK, NEW b \in Buckets, NEW r \in RowType
  PROVE  [rows EXCEPT ![b] = r] \in [Buckets -> RowType]
BY DEF TypeOK

LEMMA GotoType ==
  ASSUME TypeOK, NEW c \in Calls, NEW from, NEW to \in {"done", "failed", "bumped"},
         Goto(c, from, to)
  PROVE  calls' \in [Calls -> CallType]
<1>1. [calls[c] EXCEPT !.pc = to] \in CallType
  BY CallTyped DEF CallType
<1> QED
  BY <1>1, SetCall DEF Goto

LEMMA SendType ==
  ASSUME TypeOK, NEW c \in Calls, NEW kind \in {"write", "bump"},
         NEW from, NEW to \in {"sent", "bumping"}, Send(c, kind, from, to)
  PROVE  /\ calls' \in [Calls -> CallType]
         /\ wire' \subseteq Calls \X {"write", "bump"} \X (1 .. MaxAttempts)
<1>1. /\ calls[c].attempt + 1 \in 1 .. MaxAttempts
      /\ calls[c].attempt + 1 \in 0 .. MaxAttempts
  BY CallTyped, AttemptsAssumption DEF Send, CallType
<1> DEFINE r == [calls[c] EXCEPT !.pc = to, !.attempt = @ + 1]
<1>2. r \in CallType
  BY <1>1, CallTyped DEF CallType
<1>5. calls' = [calls EXCEPT ![c] = r]
  BY DEF Send
<1>6. calls' \in [Calls -> CallType]
  <2> HIDE DEF r
  <2> QED
    BY <1>2, <1>5, SetCall
<1>3. wire' = wire \cup {<<c, kind, calls[c].attempt + 1>>}
  BY DEF Send
<1>4. wire' \subseteq Calls \X {"write", "bump"} \X (1 .. MaxAttempts)
  BY <1>1, <1>3 DEF TypeOK
<1> QED
  BY <1>4, <1>6

LEMMA TypeStep == Typed /\ [Next]_vars => TypeOK'
<1> SUFFICES ASSUME Typed, [Next]_vars PROVE TypeOK'
  OBVIOUS
<1> USE DEF Typed
<1>1. ASSUME NEW c \in Calls, NEW d \in Devices, Update(c, d) PROVE TypeOK'
  <2>1. 0 \in 0 .. MaxAttempts /\ 1 \in 0 .. MaxAttempts
    BY AttemptsAssumption
  <2> DEFINE Started(p, n) == [calls[c] EXCEPT !.pc = p, !.device = d, !.bucket = hour,
                                               !.attempt = n, !.next = n]
  <2>2. Started("sent", 1) \in CallType /\ Started("reading", 0) \in CallType
    BY <2>1, CallTyped, PipelineFacts DEF CallType, TypeOK
  <2>3. calls' = [calls EXCEPT ![c] = Started("sent", 1)]
        \/ calls' = [calls EXCEPT ![c] = Started("reading", 0)]
    BY <1>1 DEF Update
  <2>4. calls' \in [Calls -> CallType]
    BY <2>2, <2>3, SetCall
  <2> QED
    BY <1>1, <2>4 DEF Update, TypeOK
<1>2. ASSUME NEW c \in Calls, SkipUpdate(c) PROVE TypeOK'
  BY <1>2, GotoType DEF SkipUpdate, TypeOK
<1>3. ASSUME NEW c \in Calls, ReadSketch(c) PROVE TypeOK'
  <2>1. PICK seen \in LoadHll(BucketOf(c)) :
          calls' = [calls EXCEPT ![c] =
            [@ EXCEPT !.pc = "writing", !.sketch = seen \cup {calls[c].device}]]
    BY <1>3 DEF ReadSketch
  <2>2. seen \cup {calls[c].device} \in SUBSET Devices
    BY <1>3, <2>1, CallTyped
       DEF LoadHll, RowType, BucketOf, DeviceKnown, ReadSketch, TypeOK
  <2>3. [calls[c] EXCEPT !.pc = "writing", !.sketch = seen \cup {calls[c].device}]
          \in CallType
    BY <2>2, CallTyped DEF CallType
  <2> QED
    BY <1>3, <2>1, <2>3, SetCall DEF ReadSketch, TypeOK
<1>4. ASSUME NEW c \in Calls, SendWrite(c) \/ ResendWrite(c) \/ ResendBump(c)
      PROVE  TypeOK'
  BY <1>4, SendType DEF SendWrite, ResendWrite, ResendBump, TypeOK
<1>5. ASSUME NEW c \in Calls, ExecutePipelined(c) PROVE TypeOK'
  <2> DEFINE cmd == Pipeline[calls[c].next]
             seen == IF calls[c].pc = "sent" THEN calls[c].replies \cup {cmd}
                                             ELSE calls[c].replies
  <2>1. calls[c].next + 1 \in 0 .. Len(Pipeline) + 1 /\ cmd \in Commands
    BY <1>5, PipelineFacts DEF ExecutePipelined
  <2>2. seen \in SUBSET Commands
    BY <2>1, CallTyped DEF CallType
  <2> DEFINE r == [calls[c] EXCEPT !.next = @ + 1, !.replies = seen]
  <2>3. r \in CallType
    BY <2>1, <2>2, CallTyped DEF CallType
  <2>8. calls' = [calls EXCEPT ![c] = r]
    BY <1>5 DEF ExecutePipelined
  <2>4. calls' \in [Calls -> CallType]
    <3> HIDE DEF r
    <3> QED
      BY <2>3, <2>8, SetCall
  <2>5. PipedRow(c, cmd) \in RowType
    <3>1. calls[c].device \in Devices /\ rows[BucketOf(c)] \in RowType
      BY <1>5, CallTyped, PipelineFacts
         DEF ExecutePipelined, DeviceKnown, BucketOf, CallType
    <3> QED
      BY <3>1 DEF PipedRow, RowType
  <2>6. rows' \in [Buckets -> RowType]
    BY <1>5, <2>5, CallTyped, SetRow DEF ExecutePipelined, BucketOf
  <2>7. expiring' \subseteq Buckets \X Columns
    BY <1>5, CallTyped DEF ExecutePipelined, Expirable, BucketOf, TypeOK
  <2> QED
    BY <1>5, <2>4, <2>6, <2>7 DEF ExecutePipelined, TypeOK
<1>6. ASSUME NEW c \in Calls, RefusePipelined(c) PROVE TypeOK'
  <2>1. [calls[c] EXCEPT !.next = @ + 1] \in CallType
    BY <1>6, CallTyped, PipelineFacts DEF RefusePipelined, CallType
  <2> QED
    BY <1>6, <2>1, SetCall DEF RefusePipelined, TypeOK
<1>7. ASSUME NEW c \in Calls, AnswerPipeline(c) PROVE TypeOK'
  BY <1>7, GotoType DEF AnswerPipeline, TypeOK
<1>8. ASSUME NEW c \in Calls, FailUpdate(c) PROVE TypeOK'
  <2>1. [calls[c] EXCEPT !.pc = "failed"] \in CallType
    BY CallTyped DEF CallType
  <2> QED
    BY <1>8, <2>1, SetCall DEF FailUpdate, TypeOK
<1>9. ASSUME NEW c \in Calls, ReconnectPipelined(c) PROVE TypeOK'
  <2>1. calls[c].attempt + 1 \in 0 .. MaxAttempts
    BY <1>9, CallTyped, AttemptsAssumption DEF ReconnectPipelined, CallType
  <2> DEFINE r == [calls[c] EXCEPT !.next = 1, !.replies = {}, !.attempt = @ + 1]
  <2>2. r \in CallType
    BY <2>1, CallTyped, PipelineFacts DEF CallType
  <2>3. calls' = [calls EXCEPT ![c] = r]
    BY <1>9 DEF ReconnectPipelined
  <2>4. calls' \in [Calls -> CallType]
    <3> HIDE DEF r
    <3> QED
      BY <2>2, <2>3, SetCall
  <2> QED
    BY <1>9, <2>4 DEF ReconnectPipelined, TypeOK
<1>10. ASSUME NEW c \in Calls, NEW k \in 1 .. MaxAttempts, ExecuteWrite(c, k)
      PROVE  TypeOK'
  <2>1. calls' \in [Calls -> CallType]
    BY <1>10, GotoType DEF ExecuteWrite, TypeOK
  <2>2. WrittenRow(c) \in RowType
    <3>1. rows[BucketOf(c)] \in RowType /\ calls[c].sketch \in SUBSET Devices
      BY CallTyped DEF BucketOf
    <3>2. rows[BucketOf(c)].hits + 1 \in Nat
      BY <3>1 DEF RowType
    <3> QED
      BY <3>1, <3>2 DEF WrittenRow, RowType
  <2>3. rows' \in [Buckets -> RowType]
    BY <1>10, <2>2, CallTyped, SetRow DEF ExecuteWrite, BucketOf
  <2>4. expiring' \subseteq Buckets \X Columns
    BY <1>10, CallTyped DEF ExecuteWrite, TtlSetBy, BucketOf, TypeOK
  <2> QED
    BY <1>10, <2>1, <2>3, <2>4 DEF ExecuteWrite, TypeOK
<1>11. ASSUME NEW c \in Calls, Bump(c) PROVE TypeOK'
  <2>1. 1 \in 0 .. MaxAttempts /\ 1 \in 1 .. MaxAttempts
    BY AttemptsAssumption
  <2>2. [calls[c] EXCEPT !.pc = "bumping", !.attempt = 1] \in CallType
    BY <2>1, CallTyped DEF CallType
  <2>3. wire' \subseteq Calls \X {"write", "bump"} \X (1 .. MaxAttempts)
    BY <1>11, <2>1 DEF Bump, TypeOK
  <2> QED
    BY <1>11, <2>2, <2>3, SetCall DEF Bump, TypeOK
<1>12. ASSUME NEW c \in Calls, FailBump(c) PROVE TypeOK'
  BY <1>12, GotoType DEF FailBump, TypeOK
<1>13. ASSUME NEW c \in Calls, NEW k \in 1 .. MaxAttempts, ExecuteBump(c, k)
       PROVE  TypeOK'
  <2>1. calls' \in [Calls -> CallType]
    BY <1>13, GotoType DEF ExecuteBump, TypeOK
  <2>2. [rows[BucketOf(c)] EXCEPT !.blocked = @ + 1] \in RowType
    BY CallTyped DEF BucketOf, RowType
  <2>3. rows' \in [Buckets -> RowType]
    BY <1>13, <2>2, CallTyped, SetRow DEF ExecuteBump, BumpedBucket, BucketOf
  <2> QED
    BY <1>13, <2>1, <2>3 DEF ExecuteBump, TypeOK
<1>14. ASSUME NEW b \in Buckets, Replicate(b) PROVE TypeOK'
  BY <1>14 DEF Replicate, RowType, TypeOK
<1>15. CASE Tick
  BY <1>15, HourAssumption DEF Tick, Buckets, TypeOK
<1>16. CASE UNCHANGED vars
  BY <1>16 DEF vars, TypeOK
<1> QED
  BY <1>1, <1>2, <1>3, <1>4, <1>5, <1>6, <1>7, <1>8, <1>9, <1>10, <1>11,
     <1>12, <1>13, <1>14, <1>15, <1>16 DEF Next, UpdateStep, BumpStep

LEMMA DeviceStep == Typed /\ [Next]_vars => DeviceKnown'
<1> SUFFICES ASSUME Typed, [Next]_vars PROVE DeviceKnown'
  OBVIOUS
<1> USE DEF Typed, TypeOK, CallType, DeviceKnown, Goto
<1>1. ASSUME NEW c \in Calls, NEW d \in Devices, Update(c, d) PROVE DeviceKnown'
  BY <1>1 DEF Update
<1>2. ASSUME NEW c \in Calls, SkipUpdate(c) PROVE DeviceKnown'
  BY <1>2 DEF SkipUpdate
<1>3. ASSUME NEW c \in Calls, ReadSketch(c) PROVE DeviceKnown'
  BY <1>3 DEF ReadSketch
<1>4. ASSUME NEW c \in Calls, SendWrite(c) PROVE DeviceKnown'
  BY <1>4 DEF SendWrite, Send
<1>5. ASSUME NEW c \in Calls, ResendWrite(c) PROVE DeviceKnown'
  BY <1>5 DEF ResendWrite, Send
<1>6. ASSUME NEW c \in Calls, ExecutePipelined(c) PROVE DeviceKnown'
  BY <1>6 DEF ExecutePipelined
<1>7. ASSUME NEW c \in Calls, RefusePipelined(c) PROVE DeviceKnown'
  BY <1>7 DEF RefusePipelined
<1>8. ASSUME NEW c \in Calls, AnswerPipeline(c) PROVE DeviceKnown'
  BY <1>8 DEF AnswerPipeline
<1>9. ASSUME NEW c \in Calls, ReconnectPipelined(c) PROVE DeviceKnown'
  BY <1>9 DEF ReconnectPipelined
<1>10. ASSUME NEW c \in Calls, FailUpdate(c) PROVE DeviceKnown'
  BY <1>10 DEF FailUpdate
<1>11. ASSUME NEW c \in Calls, NEW k \in 1 .. MaxAttempts,
              ExecuteWrite(c, k)
       PROVE  DeviceKnown'
  <2>1. CASE UNCHANGED calls
    BY <1>11, <2>1 DEF ExecuteWrite
  <2>2. CASE Goto(c, "sent", "done")
    BY <1>11, <2>2 DEF ExecuteWrite
  <2> QED
    BY <1>11, <2>1, <2>2 DEF ExecuteWrite
<1>12. ASSUME NEW c \in Calls, Bump(c) PROVE DeviceKnown'
  BY <1>12 DEF Bump
<1>13. ASSUME NEW c \in Calls, ResendBump(c) PROVE DeviceKnown'
  BY <1>13 DEF ResendBump, Send
<1>14. ASSUME NEW c \in Calls, FailBump(c) PROVE DeviceKnown'
  BY <1>14 DEF FailBump
<1>15. ASSUME NEW c \in Calls, NEW k \in 1 .. MaxAttempts,
              ExecuteBump(c, k)
       PROVE  DeviceKnown'
  <2>1. CASE UNCHANGED calls
    BY <1>15, <2>1 DEF ExecuteBump
  <2>2. CASE Goto(c, "bumping", "bumped")
    BY <1>15, <2>2 DEF ExecuteBump
  <2> QED
    BY <1>15, <2>1, <2>2 DEF ExecuteBump
<1>16. ASSUME UNCHANGED calls PROVE DeviceKnown'
  BY <1>16
<1> QED
  BY <1>1, <1>2, <1>3, <1>4, <1>5, <1>6, <1>7, <1>8, <1>9, <1>10, <1>11, <1>12,
     <1>13, <1>14, <1>15, <1>16
     DEF Next, UpdateStep, BumpStep, Replicate, Tick, vars

LEMMA TypedInvariant == Spec => []Typed
<1>1. Typed /\ [Next]_vars => Typed'
  BY TypeStep, DeviceStep DEF Typed
<1> QED
  BY TypeInit, <1>1, PTL DEF Spec

\* Every variable keeps its type, under every interleaving of the stores'
\* commands, their resends and the clock.
THEOREM TypeCorrect == Spec => []TypeOK
<1>1. Typed => TypeOK
  BY DEF Typed
<1> QED
  BY <1>1, TypedInvariant, PTL

-----------------------------------------------------------------------------
(* What each store leaves to the other.                                    *)

\* Only DynamoDB has writes in flight and only Valkey a pipeline, a call that
\* was not started holds nothing, and a bump in flight is one its caller sent.
ByStore ==
  \A c \in Calls :
    /\ valkey => /\ calls[c].pc \notin {"reading", "writing"}
                 /\ \A k : <<c, "write", k>> \notin wire
    /\ ~valkey => calls[c].next = 0 /\ calls[c].replies = {}
    /\ calls[c].pc = "idle" => calls[c].sketch = {} /\ calls[c].replies = {}
    /\ \A k : <<c, "bump", k>> \in wire =>
         calls[c].pc \in {"bumping", "bumped"} /\ k <= calls[c].attempt

LEMMA ByStoreStep == Typed /\ ByStore /\ [Next]_vars => ByStore'
<1> SUFFICES ASSUME Typed, ByStore, [Next]_vars PROVE ByStore'
  OBVIOUS
<1> USE DEF Typed, TypeOK, CallType, ByStore, Goto
<1>1. ASSUME NEW c \in Calls, NEW d \in Devices, Update(c, d) PROVE ByStore'
  BY <1>1 DEF Update
<1>2. ASSUME NEW c \in Calls, SkipUpdate(c) PROVE ByStore'
  BY <1>2 DEF SkipUpdate
<1>3. ASSUME NEW c \in Calls, ReadSketch(c) PROVE ByStore'
  BY <1>3 DEF ReadSketch
<1>4. ASSUME NEW c \in Calls, SendWrite(c) PROVE ByStore'
  BY <1>4 DEF SendWrite, Send
<1>5. ASSUME NEW c \in Calls, ResendWrite(c) PROVE ByStore'
  BY <1>5 DEF ResendWrite, Send
<1>6. ASSUME NEW c \in Calls, ExecutePipelined(c) PROVE ByStore'
  BY <1>6 DEF ExecutePipelined
<1>7. ASSUME NEW c \in Calls, RefusePipelined(c) PROVE ByStore'
  BY <1>7 DEF RefusePipelined
<1>8. ASSUME NEW c \in Calls, AnswerPipeline(c) PROVE ByStore'
  BY <1>8 DEF AnswerPipeline
<1>9. ASSUME NEW c \in Calls, ReconnectPipelined(c) PROVE ByStore'
  BY <1>9 DEF ReconnectPipelined
<1>10. ASSUME NEW c \in Calls, FailUpdate(c) PROVE ByStore'
  BY <1>10 DEF FailUpdate
<1>11. ASSUME NEW c \in Calls, NEW k \in 1 .. MaxAttempts,
              ExecuteWrite(c, k)
       PROVE  ByStore'
  <2>1. CASE UNCHANGED calls
    BY <1>11, <2>1 DEF ExecuteWrite
  <2>2. CASE Goto(c, "sent", "done")
    BY <1>11, <2>2 DEF ExecuteWrite
  <2> QED
    BY <1>11, <2>1, <2>2 DEF ExecuteWrite
<1>12. ASSUME NEW c \in Calls, Bump(c) PROVE ByStore'
  BY <1>12 DEF Bump
<1>13. ASSUME NEW c \in Calls, ResendBump(c) PROVE ByStore'
  BY <1>13 DEF ResendBump, Send
<1>14. ASSUME NEW c \in Calls, FailBump(c) PROVE ByStore'
  BY <1>14 DEF FailBump
<1>15. ASSUME NEW c \in Calls, NEW k \in 1 .. MaxAttempts,
              ExecuteBump(c, k)
       PROVE  ByStore'
  <2>1. CASE UNCHANGED calls
    BY <1>15, <2>1 DEF ExecuteBump
  <2>2. CASE Goto(c, "bumping", "bumped")
    BY <1>15, <2>2 DEF ExecuteBump
  <2> QED
    BY <1>15, <2>1, <2>2 DEF ExecuteBump
<1>16. ASSUME UNCHANGED <<valkey, calls, wire>> PROVE ByStore'
  BY <1>16
<1> QED
  BY <1>1, <1>2, <1>3, <1>4, <1>5, <1>6, <1>7, <1>8, <1>9, <1>10, <1>11, <1>12,
     <1>13, <1>14, <1>15, <1>16
     DEF Next, UpdateStep, BumpStep, Replicate, Tick, vars

LEMMA ByStoreInvariant == Spec => []ByStore
<1>1. Init => ByStore
  BY DEF Init, ByStore
<1> QED
  BY <1>1, ByStoreStep, TypedInvariant, PTL DEF Spec
-----------------------------------------------------------------------------
(* Rows expire.                                                            *)

\* In DynamoDB a bump finds the ttl that the call's own write had set.
TtlSetForStamped ==
  ~valkey => \A c \in Calls, col \in Columns :
    Stamped(c) => <<BucketOf(c), col>> \in expiring

LEMMA TtlSetStep == Typed /\ ByStore /\ TtlSetForStamped /\ [Next]_vars => TtlSetForStamped'
<1> SUFFICES ASSUME Typed, ByStore, TtlSetForStamped, [Next]_vars PROVE TtlSetForStamped'
  OBVIOUS
<1> USE DEF Typed, TypeOK, CallType, Goto, TtlSetForStamped, Stamped, BucketOf
<1>1. ASSUME NEW c \in Calls, NEW d \in Devices, Update(c, d) PROVE TtlSetForStamped'
  BY <1>1 DEF Update
<1>2. ASSUME NEW c \in Calls, SkipUpdate(c) PROVE TtlSetForStamped'
  BY <1>2 DEF SkipUpdate
<1>3. ASSUME NEW c \in Calls, ReadSketch(c) PROVE TtlSetForStamped'
  BY <1>3 DEF ReadSketch
<1>4. ASSUME NEW c \in Calls, SendWrite(c) PROVE TtlSetForStamped'
  BY <1>4 DEF SendWrite, Send
<1>5. ASSUME NEW c \in Calls, ResendWrite(c) PROVE TtlSetForStamped'
  BY <1>5 DEF ResendWrite, Send
<1>6. ASSUME NEW c \in Calls, ExecutePipelined(c) PROVE TtlSetForStamped'
  BY <1>6 DEF ExecutePipelined, ByStore
<1>7. ASSUME NEW c \in Calls, RefusePipelined(c) PROVE TtlSetForStamped'
  BY <1>7 DEF RefusePipelined
<1>8. ASSUME NEW c \in Calls, AnswerPipeline(c) PROVE TtlSetForStamped'
  BY <1>8 DEF AnswerPipeline
<1>9. ASSUME NEW c \in Calls, ReconnectPipelined(c) PROVE TtlSetForStamped'
  BY <1>9 DEF ReconnectPipelined
<1>10. ASSUME NEW c \in Calls, FailUpdate(c) PROVE TtlSetForStamped'
  BY <1>10 DEF FailUpdate
<1>11. ASSUME NEW c \in Calls, NEW k \in 1 .. MaxAttempts,
              ExecuteWrite(c, k)
       PROVE  TtlSetForStamped'
  <2>1. CASE UNCHANGED calls
    BY <1>11, <2>1 DEF ExecuteWrite, TtlSetBy
  <2>2. CASE Goto(c, "sent", "done")
    BY <1>11, <2>2 DEF ExecuteWrite, TtlSetBy
  <2> QED
    BY <1>11, <2>1, <2>2 DEF ExecuteWrite
<1>12. ASSUME NEW c \in Calls, Bump(c) PROVE TtlSetForStamped'
  BY <1>12 DEF Bump
<1>13. ASSUME NEW c \in Calls, ResendBump(c) PROVE TtlSetForStamped'
  BY <1>13 DEF ResendBump, Send
<1>14. ASSUME NEW c \in Calls, FailBump(c) PROVE TtlSetForStamped'
  BY <1>14 DEF FailBump
<1>15. ASSUME NEW c \in Calls, NEW k \in 1 .. MaxAttempts,
              ExecuteBump(c, k)
       PROVE  TtlSetForStamped'
  <2>1. CASE UNCHANGED calls
    BY <1>15, <2>1 DEF ExecuteBump
  <2>2. CASE Goto(c, "bumping", "bumped")
    BY <1>15, <2>2 DEF ExecuteBump
  <2> QED
    BY <1>15, <2>1, <2>2 DEF ExecuteBump
<1>16. ASSUME UNCHANGED <<valkey, calls, expiring>> PROVE TtlSetForStamped'
  BY <1>16
<1> QED
  BY <1>1, <1>2, <1>3, <1>4, <1>5, <1>6, <1>7, <1>8, <1>9, <1>10, <1>11, <1>12,
     <1>13, <1>14, <1>15, <1>16
     DEF Next, UpdateStep, BumpStep, Replicate, Tick, vars

LEMMA RowsExpireStep ==
  Typed /\ ByStore /\ TtlSetForStamped /\ RowsExpire /\ [Next]_vars => RowsExpire'
<1> SUFFICES ASSUME Typed, ByStore, TtlSetForStamped, RowsExpire, [Next]_vars, ~valkey',
                    NEW b \in Buckets, NEW col \in Columns, Present(b, col)'
             PROVE  <<b, col>> \in expiring'
  BY DEF RowsExpire
<1>1. ASSUME UNCHANGED <<valkey, rows, expiring>> PROVE <<b, col>> \in expiring'
  <2>1. Present(b, col)
    BY <1>1 DEF Present
  <2> QED
    BY <1>1, <2>1 DEF RowsExpire
<1>2. ASSUME NEW c \in Calls, ExecutePipelined(c) PROVE FALSE
  BY <1>2, PipelineFacts DEF ExecutePipelined, ByStore
<1>3. ASSUME NEW c \in Calls, NEW k \in 1 .. MaxAttempts, ExecuteWrite(c, k)
      PROVE  <<b, col>> \in expiring'
  <2>1. CASE b = BucketOf(c)
    BY <1>3, <2>1 DEF ExecuteWrite, TtlSetBy
  <2>2. CASE b # BucketOf(c)
    <3>1. Present(b, col)
      BY <1>3, <2>2 DEF ExecuteWrite, Present, Typed, TypeOK
    <3> QED
      BY <1>3, <3>1 DEF ExecuteWrite, RowsExpire
  <2> QED
    BY <2>1, <2>2
<1>4. ASSUME NEW c \in Calls, NEW k \in 1 .. MaxAttempts, ExecuteBump(c, k)
      PROVE  <<b, col>> \in expiring'
  <2>1. CASE b = BucketOf(c)
    <3>1. Stamped(c)
      BY <1>4 DEF ExecuteBump, ByStore, Stamped
    <3> QED
      BY <1>4, <2>1, <3>1 DEF ExecuteBump, TtlSetForStamped
  <2>2. CASE b # BucketOf(c)
    <3>1. Present(b, col)
      BY <1>4, <2>2 DEF ExecuteBump, BumpedBucket, Present, Typed, TypeOK
    <3> QED
      BY <1>4, <3>1 DEF ExecuteBump, RowsExpire
  <2> QED
    BY <2>1, <2>2
<1> QED
  BY <1>1, <1>2, <1>3, <1>4
     DEF Next, UpdateStep, BumpStep, Update, SkipUpdate, ReadSketch, SendWrite,
         ResendWrite, Send, RefusePipelined, AnswerPipeline, ReconnectPipelined,
         FailUpdate, Bump, ResendBump, FailBump, Replicate, Tick, vars

\* Whatever interleaving of updates, late updates, resends and bumps reaches
\* a DynamoDB row, it has its ttl: no bucket is kept for ever.
THEOREM BucketsExpire == Spec => []RowsExpire
<1>1. Init => TtlSetForStamped /\ RowsExpire
  BY DEF Init, TtlSetForStamped, RowsExpire, Stamped, Present, EmptyRow, Columns
<1> QED
  BY <1>1, TtlSetStep, RowsExpireStep, TypedInvariant, ByStoreInvariant, PTL DEF Spec

-----------------------------------------------------------------------------
(* No device is lost in Valkey.                                            *)

LEMMA NoDeviceLostStep == Typed /\ ByStore /\ NoDeviceLost /\ [Next]_vars => NoDeviceLost'
<1> SUFFICES ASSUME Typed, ByStore, NoDeviceLost, [Next]_vars PROVE NoDeviceLost'
  OBVIOUS
<1> USE DEF Typed, TypeOK, CallType, Goto, ByStore, NoDeviceLost, BucketOf
<1>1. ASSUME NEW c \in Calls, NEW d \in Devices, Update(c, d) PROVE NoDeviceLost'
  BY <1>1 DEF Update
<1>2. ASSUME NEW c \in Calls, SkipUpdate(c) PROVE NoDeviceLost'
  BY <1>2 DEF SkipUpdate
<1>3. ASSUME NEW c \in Calls, ReadSketch(c) PROVE NoDeviceLost'
  BY <1>3 DEF ReadSketch
<1>4. ASSUME NEW c \in Calls, SendWrite(c) PROVE NoDeviceLost'
  BY <1>4 DEF SendWrite, Send
<1>5. ASSUME NEW c \in Calls, ResendWrite(c) PROVE NoDeviceLost'
  BY <1>5 DEF ResendWrite, Send
<1>6. ASSUME NEW c \in Calls, ExecutePipelined(c) PROVE NoDeviceLost'
  <2>1. PICK cmd :
          /\ rows' = [rows EXCEPT ![BucketOf(c)] = PipedRow(c, cmd)]
          /\ calls' = [calls EXCEPT ![c] = [@ EXCEPT
               !.next = calls[c].next + 1,
               !.replies = IF calls[c].pc = "sent" THEN calls[c].replies \cup {cmd}
                                                   ELSE calls[c].replies]]
    BY <1>6 DEF ExecutePipelined
  <2>2. PICK row : row = PipedRow(c, cmd)
    OBVIOUS
  <2>3. rows[BucketOf(c)].devices \subseteq row.devices
        /\ (cmd = "pfadd" => calls[c].device \in row.devices)
    BY <2>2 DEF PipedRow, RowType
  <2> QED
    BY <2>1, <2>2, <2>3
<1>7. ASSUME NEW c \in Calls, RefusePipelined(c) PROVE NoDeviceLost'
  BY <1>7 DEF RefusePipelined
<1>8. ASSUME NEW c \in Calls, AnswerPipeline(c) PROVE NoDeviceLost'
  BY <1>8 DEF AnswerPipeline
<1>9. ASSUME NEW c \in Calls, ReconnectPipelined(c) PROVE NoDeviceLost'
  BY <1>9 DEF ReconnectPipelined
<1>10. ASSUME NEW c \in Calls, FailUpdate(c) PROVE NoDeviceLost'
  BY <1>10 DEF FailUpdate
<1>11. ASSUME NEW c \in Calls, NEW k \in 1 .. MaxAttempts,
              ExecuteWrite(c, k)
       PROVE  NoDeviceLost'
  <2>1. ~valkey
    BY <1>11 DEF ExecuteWrite
  <2>2. CASE UNCHANGED calls
    BY <2>1, <2>2
  <2>3. CASE Goto(c, "sent", "done")
    BY <2>1, <2>3
  <2> QED
    BY <1>11, <2>2, <2>3 DEF ExecuteWrite
<1>12. ASSUME NEW c \in Calls, Bump(c) PROVE NoDeviceLost'
  BY <1>12 DEF Bump
<1>13. ASSUME NEW c \in Calls, ResendBump(c) PROVE NoDeviceLost'
  BY <1>13 DEF ResendBump, Send
<1>14. ASSUME NEW c \in Calls, FailBump(c) PROVE NoDeviceLost'
  BY <1>14 DEF FailBump
<1>15. ASSUME NEW c \in Calls, NEW k \in 1 .. MaxAttempts,
              ExecuteBump(c, k)
       PROVE  NoDeviceLost'
  <2>1. CASE UNCHANGED calls
    BY <1>15, <2>1 DEF ExecuteBump, BumpedBucket
  <2>2. CASE Goto(c, "bumping", "bumped")
    BY <1>15, <2>2 DEF ExecuteBump, BumpedBucket
  <2> QED
    BY <1>15, <2>1, <2>2 DEF ExecuteBump
<1>16. ASSUME UNCHANGED <<calls, rows>> PROVE NoDeviceLost'
  BY <1>16
<1> QED
  BY <1>1, <1>2, <1>3, <1>4, <1>5, <1>6, <1>7, <1>8, <1>9, <1>10, <1>11, <1>12,
     <1>13, <1>14, <1>15, <1>16
     DEF Next, UpdateStep, BumpStep, Replicate, Tick, vars

\* A device whose PFADD was answered stays in the sketch of its bucket.
THEOREM DevicesAreKept == Spec => []NoDeviceLost
<1>1. Init => NoDeviceLost
  BY DEF Init, NoDeviceLost
<1> QED
  BY <1>1, NoDeviceLostStep, TypedInvariant, ByStoreInvariant, PTL DEF Spec

-----------------------------------------------------------------------------
(* No more devices than hits in DynamoDB.                                  *)

Within(S, n) == IsFiniteSet(S) /\ Cardinality(S) <= n

LEMMA EmptyWithin == \A n \in Nat : Within({}, n)
BY FS_EmptySet DEF Within

LEMMA WithinMore ==
  ASSUME NEW S, NEW m \in Nat, NEW n \in Nat, Within(S, m), m <= n
  PROVE  Within(S, n)
BY FS_CardinalityType DEF Within

LEMMA WithinAdd ==
  ASSUME NEW S, NEW x, NEW n \in Nat, Within(S, n)
  PROVE  Within(S \cup {x}, n + 1)
<1>1. Cardinality(S) \in Nat
  BY FS_CardinalityType DEF Within
<1>2. /\ IsFiniteSet(S \cup {x})
      /\ Cardinality(S \cup {x}) \in {Cardinality(S), Cardinality(S) + 1}
  BY FS_AddElement DEF Within
<1> QED
  BY <1>1, <1>2 DEF Within

\* Also the copy on the replica has no more devices than the row has hits,
\* and the sketch a call is about to write has at most one more: its own.
SketchesWithin ==
  ~valkey =>
    /\ \A b \in Buckets : /\ Within(rows[b].devices, rows[b].hits)
                          /\ Within(replica[b], rows[b].hits)
    /\ \A c \in Calls : Within(calls[c].sketch, rows[calls[c].bucket].hits + 1)

LEMMA StoreIsFixed == [Next]_vars => valkey' = valkey
<1> SUFFICES ASSUME [Next]_vars PROVE valkey' = valkey
  OBVIOUS
<1>1. ASSUME NEW c \in Calls, NEW d \in Devices, Update(c, d) PROVE valkey' = valkey
  BY <1>1 DEF Update
<1>2. ASSUME NEW c \in Calls, SkipUpdate(c) PROVE valkey' = valkey
  BY <1>2 DEF SkipUpdate
<1>3. ASSUME NEW c \in Calls, ReadSketch(c) PROVE valkey' = valkey
  BY <1>3 DEF ReadSketch
<1>4. ASSUME NEW c \in Calls, SendWrite(c) PROVE valkey' = valkey
  BY <1>4 DEF SendWrite, Send
<1>5. ASSUME NEW c \in Calls, ResendWrite(c) PROVE valkey' = valkey
  BY <1>5 DEF ResendWrite, Send
<1>6. ASSUME NEW c \in Calls, ExecutePipelined(c) PROVE valkey' = valkey
  BY <1>6 DEF ExecutePipelined
<1>7. ASSUME NEW c \in Calls, RefusePipelined(c) PROVE valkey' = valkey
  BY <1>7 DEF RefusePipelined
<1>8. ASSUME NEW c \in Calls, AnswerPipeline(c) PROVE valkey' = valkey
  BY <1>8 DEF AnswerPipeline
<1>9. ASSUME NEW c \in Calls, ReconnectPipelined(c) PROVE valkey' = valkey
  BY <1>9 DEF ReconnectPipelined
<1>10. ASSUME NEW c \in Calls, FailUpdate(c) PROVE valkey' = valkey
  BY <1>10 DEF FailUpdate
<1>11. ASSUME NEW c \in Calls, NEW k \in 1 .. MaxAttempts,
              ExecuteWrite(c, k)
       PROVE  valkey' = valkey
  BY <1>11 DEF ExecuteWrite
<1>12. ASSUME NEW c \in Calls, Bump(c) PROVE valkey' = valkey
  BY <1>12 DEF Bump
<1>13. ASSUME NEW c \in Calls, ResendBump(c) PROVE valkey' = valkey
  BY <1>13 DEF ResendBump, Send
<1>14. ASSUME NEW c \in Calls, FailBump(c) PROVE valkey' = valkey
  BY <1>14 DEF FailBump
<1>15. ASSUME NEW c \in Calls, NEW k \in 1 .. MaxAttempts,
              ExecuteBump(c, k)
       PROVE  valkey' = valkey
  BY <1>15 DEF ExecuteBump
<1>16. ASSUME NEW b \in Buckets, Replicate(b) PROVE valkey' = valkey
  BY <1>16 DEF Replicate
<1>17. CASE Tick
  BY <1>17 DEF Tick
<1>18. CASE UNCHANGED vars
  BY <1>18 DEF vars
<1> QED
  BY <1>1, <1>2, <1>3, <1>4, <1>5, <1>6, <1>7, <1>8, <1>9, <1>10, <1>11, <1>12,
     <1>13, <1>14, <1>15, <1>16, <1>17, <1>18
     DEF Next, UpdateStep, BumpStep

LEMMA SketchesStep == Typed /\ ByStore /\ SketchesWithin /\ [Next]_vars => SketchesWithin'
<1> SUFFICES ASSUME Typed, ByStore, SketchesWithin, [Next]_vars, ~valkey, ~valkey'
             PROVE  SketchesWithin'
  BY StoreIsFixed DEF SketchesWithin
<1>0. /\ \A b \in Buckets : rows[b].hits \in Nat
      /\ \A c \in Calls : calls[c].bucket \in Buckets
  BY DEF Typed, TypeOK, RowType, CallType
<1>1. ASSUME NEW c \in Calls, NEW d \in Devices, Update(c, d) PROVE SketchesWithin'
  <2>1. \A x \in Calls : /\ calls'[x].sketch = calls[x].sketch
                         /\ x # c => calls'[x].bucket = calls[x].bucket
    BY <1>1 DEF Update, Typed, TypeOK, CallType
  <2>2. Within(calls'[c].sketch, rows[calls'[c].bucket].hits + 1)
    <3>1. calls'[c].sketch = {} /\ calls'[c].bucket \in Buckets
      BY <1>1, <2>1 DEF Update, Typed, TypeOK, CallType, ByStore
    <3> QED
      BY <1>0, <3>1, EmptyWithin
  <2> QED
    BY <1>1, <2>1, <2>2 DEF Update, SketchesWithin
<1>2. ASSUME NEW c \in Calls, SkipUpdate(c) PROVE SketchesWithin'
  BY <1>2 DEF SkipUpdate, Typed, TypeOK, CallType, Goto, SketchesWithin
<1>3. ASSUME NEW c \in Calls, ReadSketch(c) PROVE SketchesWithin'
  <2>1. PICK seen \in LoadHll(BucketOf(c)) :
          calls' = [calls EXCEPT ![c] =
            [@ EXCEPT !.pc = "writing", !.sketch = seen \cup {calls[c].device}]]
    BY <1>3 DEF ReadSketch
  <2>2. Within(seen, rows[calls[c].bucket].hits)
    BY <1>0, <2>1, EmptyWithin DEF LoadHll, BucketOf, SketchesWithin
  <2>3. Within(seen \cup {calls[c].device}, rows[calls[c].bucket].hits + 1)
    BY <1>0, <2>2, WithinAdd
  <2> QED
    BY <1>3, <2>1, <2>3 DEF ReadSketch, Typed, TypeOK, CallType, SketchesWithin
<1>4. ASSUME NEW c \in Calls, SendWrite(c) PROVE SketchesWithin'
  BY <1>4 DEF SendWrite, Send, Typed, TypeOK, CallType, Goto, SketchesWithin
<1>5. ASSUME NEW c \in Calls, ResendWrite(c) PROVE SketchesWithin'
  BY <1>5 DEF ResendWrite, Send, Typed, TypeOK, CallType, Goto, SketchesWithin
<1>6. ASSUME NEW c \in Calls, ExecutePipelined(c) PROVE SketchesWithin'
  BY <1>6, PipelineFacts DEF ExecutePipelined, ByStore
<1>7. ASSUME NEW c \in Calls, RefusePipelined(c) PROVE SketchesWithin'
  BY <1>7, PipelineFacts DEF RefusePipelined, ByStore
<1>8. ASSUME NEW c \in Calls, AnswerPipeline(c) PROVE SketchesWithin'
  BY <1>8 DEF AnswerPipeline
<1>9. ASSUME NEW c \in Calls, ReconnectPipelined(c) PROVE SketchesWithin'
  BY <1>9 DEF ReconnectPipelined
<1>10. ASSUME NEW c \in Calls, FailUpdate(c) PROVE SketchesWithin'
  BY <1>10 DEF FailUpdate, Typed, TypeOK, CallType, Goto, SketchesWithin
<1>11. ASSUME NEW c \in Calls, NEW k \in 1 .. MaxAttempts,
              ExecuteWrite(c, k)
       PROVE  SketchesWithin'
  <2>1. \A b \in Buckets : rows'[b] = IF b = BucketOf(c) THEN WrittenRow(c) ELSE rows[b]
    BY <1>0, <1>11 DEF ExecuteWrite, Typed, TypeOK
  <2>7. rows[BucketOf(c)] \in RowType /\ BucketOf(c) \in Buckets
    BY <1>0 DEF BucketOf, Typed, TypeOK
  <2>8. rows'[BucketOf(c)].hits = rows[BucketOf(c)].hits + 1
    BY <2>1, <2>7 DEF WrittenRow, RowType
  <2>2. \A b \in Buckets : rows'[b].hits \in Nat /\ rows'[b].hits >= rows[b].hits
    <3> SUFFICES ASSUME NEW b \in Buckets
                 PROVE  rows'[b].hits \in Nat /\ rows'[b].hits >= rows[b].hits
      OBVIOUS
    <3>1. CASE b = BucketOf(c)
      BY <1>0, <2>8, <3>1
    <3>2. CASE b # BucketOf(c)
      <4>1. rows'[b] = rows[b]
        BY <2>1, <3>2
      <4> QED
        BY <1>0, <4>1
    <3> QED
      BY <3>1, <3>2
  <2>3. \A b \in Buckets : Within(rows'[b].devices, rows'[b].hits)
    <3> SUFFICES ASSUME NEW b \in Buckets PROVE Within(rows'[b].devices, rows'[b].hits)
      OBVIOUS
    <3>1. CASE b = BucketOf(c)
      BY <1>0, <2>1, <3>1 DEF WrittenRow, BucketOf, Typed, TypeOK, RowType, SketchesWithin
    <3>2. CASE b # BucketOf(c)
      BY <2>1, <3>2 DEF SketchesWithin
    <3> QED
      BY <3>1, <3>2
  <2>4. \A b \in Buckets : Within(replica[b], rows'[b].hits)
    BY <1>0, <2>2, WithinMore DEF SketchesWithin
  <2>5. \A x \in Calls : Within(calls[x].sketch, rows'[calls[x].bucket].hits + 1)
    <3> SUFFICES ASSUME NEW x \in Calls
                 PROVE  Within(calls[x].sketch, rows'[calls[x].bucket].hits + 1)
      OBVIOUS
    <3>1. /\ rows[calls[x].bucket].hits + 1 \in Nat
          /\ rows'[calls[x].bucket].hits + 1 \in Nat
          /\ rows[calls[x].bucket].hits + 1 <= rows'[calls[x].bucket].hits + 1
      BY <1>0, <2>2
    <3>2. Within(calls[x].sketch, rows[calls[x].bucket].hits + 1)
      BY DEF SketchesWithin
    <3> QED
      BY <3>1, <3>2, WithinMore
  <2>6. \A x \in Calls : /\ calls'[x].sketch = calls[x].sketch
                         /\ calls'[x].bucket = calls[x].bucket
    <3>1. CASE UNCHANGED calls
      BY <3>1
    <3>2. CASE Goto(c, "sent", "done")
      BY <3>2 DEF Goto, Typed, TypeOK, CallType
    <3> QED
      BY <1>11, <3>1, <3>2 DEF ExecuteWrite
  <2> QED
    BY <1>11, <2>3, <2>4, <2>5, <2>6 DEF ExecuteWrite, SketchesWithin
<1>12. ASSUME NEW c \in Calls, Bump(c) PROVE SketchesWithin'
  BY <1>12 DEF Bump, Typed, TypeOK, CallType, Goto, SketchesWithin
<1>13. ASSUME NEW c \in Calls, ResendBump(c) PROVE SketchesWithin'
  BY <1>13 DEF ResendBump, Send, Typed, TypeOK, CallType, Goto, SketchesWithin
<1>14. ASSUME NEW c \in Calls, FailBump(c) PROVE SketchesWithin'
  BY <1>14 DEF FailBump, Typed, TypeOK, CallType, Goto, SketchesWithin
<1>15. ASSUME NEW c \in Calls, NEW k \in 1 .. MaxAttempts,
              ExecuteBump(c, k)
       PROVE  SketchesWithin'
  <2>1. \A b \in Buckets : rows'[b] = IF b = BucketOf(c) THEN [rows[b] EXCEPT !.blocked = @ + 1] ELSE rows[b]
    BY <1>0, <1>15 DEF ExecuteBump, BumpedBucket, Typed, TypeOK
  <2>7. rows[BucketOf(c)] \in RowType /\ BucketOf(c) \in Buckets
    BY <1>0 DEF BucketOf, Typed, TypeOK
  <2>8. rows'[BucketOf(c)].hits = rows[BucketOf(c)].hits
    BY <2>1, <2>7 DEF RowType
  <2>2. \A b \in Buckets : rows'[b].hits \in Nat /\ rows'[b].hits >= rows[b].hits
    <3> SUFFICES ASSUME NEW b \in Buckets
                 PROVE  rows'[b].hits \in Nat /\ rows'[b].hits >= rows[b].hits
      OBVIOUS
    <3>1. CASE b = BucketOf(c)
      BY <1>0, <2>8, <3>1
    <3>2. CASE b # BucketOf(c)
      <4>1. rows'[b] = rows[b]
        BY <2>1, <3>2
      <4> QED
        BY <1>0, <4>1
    <3> QED
      BY <3>1, <3>2
  <2>3. \A b \in Buckets : Within(rows'[b].devices, rows'[b].hits)
    <3> SUFFICES ASSUME NEW b \in Buckets PROVE Within(rows'[b].devices, rows'[b].hits)
      OBVIOUS
    <3>1. CASE b = BucketOf(c)
      BY <1>0, <2>1, <3>1 DEF BucketOf, Typed, TypeOK, RowType, SketchesWithin
    <3>2. CASE b # BucketOf(c)
      BY <2>1, <3>2 DEF SketchesWithin
    <3> QED
      BY <3>1, <3>2
  <2>4. \A b \in Buckets : Within(replica[b], rows'[b].hits)
    BY <1>0, <2>2, WithinMore DEF SketchesWithin
  <2>5. \A x \in Calls : Within(calls[x].sketch, rows'[calls[x].bucket].hits + 1)
    <3> SUFFICES ASSUME NEW x \in Calls
                 PROVE  Within(calls[x].sketch, rows'[calls[x].bucket].hits + 1)
      OBVIOUS
    <3>1. /\ rows[calls[x].bucket].hits + 1 \in Nat
          /\ rows'[calls[x].bucket].hits + 1 \in Nat
          /\ rows[calls[x].bucket].hits + 1 <= rows'[calls[x].bucket].hits + 1
      BY <1>0, <2>2
    <3>2. Within(calls[x].sketch, rows[calls[x].bucket].hits + 1)
      BY DEF SketchesWithin
    <3> QED
      BY <3>1, <3>2, WithinMore
  <2>6. \A x \in Calls : /\ calls'[x].sketch = calls[x].sketch
                         /\ calls'[x].bucket = calls[x].bucket
    <3>1. CASE UNCHANGED calls
      BY <3>1
    <3>2. CASE Goto(c, "bumping", "bumped")
      BY <3>2 DEF Goto, Typed, TypeOK, CallType
    <3> QED
      BY <1>15, <3>1, <3>2 DEF ExecuteBump, BumpedBucket
  <2> QED
    BY <1>15, <2>3, <2>4, <2>5, <2>6 DEF ExecuteBump, BumpedBucket, SketchesWithin
<1>16. ASSUME NEW b \in Buckets, Replicate(b) PROVE SketchesWithin'
  BY <1>16 DEF Replicate, Typed, TypeOK, SketchesWithin
<1>17. CASE Tick
  BY <1>17 DEF Tick, SketchesWithin
<1>18. CASE UNCHANGED vars
  BY <1>18 DEF vars, SketchesWithin
<1> QED
  BY <1>1, <1>2, <1>3, <1>4, <1>5, <1>6, <1>7, <1>8, <1>9, <1>10, <1>11, <1>12,
     <1>13, <1>14, <1>15, <1>16, <1>17, <1>18
     DEF Next, UpdateStep, BumpStep

\* A DynamoDB bucket never claims more devices than hits, however stale the
\* sketches are that concurrent updates read, extend and write back.
THEOREM DevicesAreHits == Spec => []DevicesWithinHits
<1>1. Init => SketchesWithin
  <2>1. Within({}, 0) /\ Within({}, 0 + 1) /\ 0 \in Buckets
    BY EmptyWithin, HourAssumption DEF Buckets
  <2> SUFFICES ASSUME Init PROVE SketchesWithin
    OBVIOUS
  <2>2. \A b \in Buckets : /\ rows[b].hits = 0 /\ rows[b].devices = {}
                           /\ replica[b] = {}
    BY DEF Init, EmptyRow
  <2>3. \A c \in Calls : calls[c].sketch = {} /\ calls[c].bucket = 0
    BY DEF Init
  <2> QED
    BY <2>1, <2>2, <2>3 DEF SketchesWithin
<1>2. SketchesWithin => DevicesWithinHits
  BY DEF SketchesWithin, DevicesWithinHits, Within
<1> QED
  BY <1>1, <1>2, SketchesStep, TypedInvariant, ByStoreInvariant, PTL DEF Spec

-----------------------------------------------------------------------------
(* Blocks are of the hour.                                                 *)

StampedIn(b) == {c \in Calls : Stamped(c) /\ BucketOf(c) = b}

\* The bumps of a bucket that were sent and are not in flight: executed or
\* not, each of them blocked the bucket at most once.
Delivered(b) ==
  {p \in Calls \X (1 .. MaxAttempts) :
     /\ calls[p[1]].pc \in {"bumping", "bumped"} /\ calls[p[1]].bucket = b
     /\ p[2] <= calls[p[1]].attempt /\ <<p[1], "bump", p[2]>> \notin wire}

BlocksCounted == \A b \in Buckets : rows[b].blocked <= Cardinality(Delivered(b))

\* In DynamoDB every stamped call of a bucket is one of its hits.
HitsCounted ==
  ~valkey => \A b \in Buckets : Cardinality(StampedIn(b)) <= rows[b].hits

LEMMA SetsFinite ==
  ASSUME NEW b
  PROVE  /\ IsFiniteSet(StampedIn(b)) /\ Cardinality(StampedIn(b)) \in Nat
         /\ IsFiniteSet(Delivered(b)) /\ Cardinality(Delivered(b)) \in Nat
         /\ IsFiniteSet(StampedIn(b)') /\ Cardinality(StampedIn(b)') \in Nat
         /\ IsFiniteSet(Delivered(b)') /\ Cardinality(Delivered(b)') \in Nat
<1>1. IsFiniteSet(Calls \X (1 .. MaxAttempts))
  <2>1. IsFiniteSet(1 .. MaxAttempts)
    BY AttemptsAssumption, FS_Interval
  <2> QED
    BY <2>1, CallsAssumption, FS_Product
<1>2. /\ StampedIn(b) \in SUBSET Calls /\ StampedIn(b)' \in SUBSET Calls
      /\ Delivered(b) \in SUBSET (Calls \X (1 .. MaxAttempts))
      /\ Delivered(b)' \in SUBSET (Calls \X (1 .. MaxAttempts))
  BY DEF StampedIn, Delivered
<1> QED
  BY <1>1, <1>2, CallsAssumption, FS_Subset, FS_CardinalityType

LEMMA Larger ==
  ASSUME NEW S, NEW T, IsFiniteSet(S), IsFiniteSet(T)
  PROVE  /\ S \subseteq T => Cardinality(S) <= Cardinality(T)
         /\ \A x \in T \ S : S \subseteq T => Cardinality(S) + 1 <= Cardinality(T)
         /\ \A x : T \subseteq S \cup {x} => Cardinality(T) <= Cardinality(S) + 1
<1>1. Cardinality(S) \in Nat /\ Cardinality(T) \in Nat
  BY FS_CardinalityType
<1>2. S \subseteq T => Cardinality(S) <= Cardinality(T)
  BY FS_Subset
<1>3. ASSUME NEW x \in T \ S, S \subseteq T PROVE Cardinality(S) + 1 <= Cardinality(T)
  <2>1. S \cup {x} \in SUBSET T
    BY <1>3
  <2>2. Cardinality(S \cup {x}) = Cardinality(S) + 1
    BY <1>3, FS_AddElement
  <2> QED
    BY <2>1, <2>2, FS_Subset
<1>4. ASSUME NEW x, T \subseteq S \cup {x} PROVE Cardinality(T) <= Cardinality(S) + 1
  <2>1. /\ IsFiniteSet(S \cup {x})
        /\ Cardinality(S \cup {x}) \in {Cardinality(S), Cardinality(S) + 1}
    BY FS_AddElement
  <2>2. T \in SUBSET (S \cup {x})
    BY <1>4
  <2>3. Cardinality(T) <= Cardinality(S \cup {x})
    BY <2>1, <2>2, FS_Subset
  <2> QED
    BY <1>1, <2>1, <2>3
<1> QED
  BY <1>2, <1>3, <1>4

\* A step that blocks a bucket delivers one more bump of a call stamped with
\* it; no step takes a delivered bump back.
LEMMA BlockedStep ==
  ASSUME Typed, ByStore, [Next]_vars, NEW b \in Buckets
  PROVE  \/ Delivered(b) \subseteq Delivered(b)' /\ rows'[b].blocked = rows[b].blocked
         \/ /\ Delivered(b) \subseteq Delivered(b)'
            /\ \E x \in Delivered(b)' : x \notin Delivered(b)
            /\ rows'[b].blocked = rows[b].blocked + 1
<1> DEFINE Same == Delivered(b) \subseteq Delivered(b)'
                   /\ rows'[b].blocked = rows[b].blocked
           More == /\ Delivered(b) \subseteq Delivered(b)'
                   /\ \E x \in Delivered(b)' : x \notin Delivered(b)
                   /\ rows'[b].blocked = rows[b].blocked + 1
<1> USE DEF Typed, TypeOK, CallType, Goto
<1>1. ASSUME NEW c \in Calls, NEW d \in Devices, Update(c, d) PROVE Same
  BY <1>1 DEF Update, Delivered
<1>2. ASSUME NEW c \in Calls, SkipUpdate(c) PROVE Same
  BY <1>2 DEF SkipUpdate, Delivered
<1>3. ASSUME NEW c \in Calls, ReadSketch(c) PROVE Same
  BY <1>3 DEF ReadSketch, Delivered
<1>4. ASSUME NEW c \in Calls, SendWrite(c) PROVE Same
  BY <1>4 DEF SendWrite, Send, Delivered
<1>5. ASSUME NEW c \in Calls, ResendWrite(c) PROVE Same
  BY <1>5 DEF ResendWrite, Send, Delivered
<1>6. ASSUME NEW c \in Calls, ExecutePipelined(c) PROVE Same
  <2>1. rows'[b].blocked = rows[b].blocked
    BY <1>6 DEF ExecutePipelined, PipedRow, RowType, BucketOf
  <2>2. Delivered(b) \subseteq Delivered(b)'
    BY <1>6 DEF ExecutePipelined, Delivered
  <2> QED
    BY <2>1, <2>2
<1>7. ASSUME NEW c \in Calls, RefusePipelined(c) PROVE Same
  BY <1>7 DEF RefusePipelined, Delivered
<1>8. ASSUME NEW c \in Calls, AnswerPipeline(c) PROVE Same
  BY <1>8 DEF AnswerPipeline, Delivered
<1>9. ASSUME NEW c \in Calls, ReconnectPipelined(c) PROVE Same
  BY <1>9 DEF ReconnectPipelined, Delivered
<1>10. ASSUME NEW c \in Calls, FailUpdate(c) PROVE Same
  BY <1>10 DEF FailUpdate, Delivered
<1>11. ASSUME NEW c \in Calls, NEW k \in 1 .. MaxAttempts, ExecuteWrite(c, k) PROVE Same
  <2>1. rows'[b].blocked = rows[b].blocked
    BY <1>11 DEF ExecuteWrite, WrittenRow, RowType, BucketOf
  <2>2. CASE UNCHANGED calls
    BY <1>11, <2>1, <2>2 DEF ExecuteWrite, Delivered
  <2>3. CASE Goto(c, "sent", "done")
    BY <1>11, <2>1, <2>3 DEF ExecuteWrite, Delivered
  <2> QED
    BY <1>11, <2>2, <2>3 DEF ExecuteWrite
<1>12. ASSUME NEW c \in Calls, Bump(c) PROVE Same
  BY <1>12 DEF Bump, Delivered
<1>13. ASSUME NEW c \in Calls, ResendBump(c) PROVE Same
  BY <1>13 DEF ResendBump, Send, Delivered
<1>14. ASSUME NEW c \in Calls, FailBump(c) PROVE Same
  BY <1>14 DEF FailBump, Delivered
<1>15. ASSUME NEW c \in Calls, NEW k \in 1 .. MaxAttempts, ExecuteBump(c, k) PROVE Same \/ More
  <2>1. calls[c].pc \in {"bumping", "bumped"} /\ k <= calls[c].attempt
    BY <1>15 DEF ExecuteBump, ByStore
  <2>2. Delivered(b) \subseteq Delivered(b)'
    <3>1. CASE UNCHANGED calls
      BY <1>15, <3>1 DEF ExecuteBump, Delivered
    <3>2. CASE Goto(c, "bumping", "bumped")
      BY <1>15, <3>2 DEF ExecuteBump, Delivered
    <3> QED
      BY <1>15, <3>1, <3>2 DEF ExecuteBump
  <2>3. CASE calls[c].bucket # b
    BY <1>15, <2>2, <2>3 DEF ExecuteBump, BumpedBucket, BucketOf, RowType
  <2>4. CASE calls[c].bucket = b
    <3>1. rows'[b].blocked = rows[b].blocked + 1
      BY <1>15, <2>4 DEF ExecuteBump, BumpedBucket, BucketOf, RowType
    <3>2. <<c, k>> \notin Delivered(b)
      BY <1>15 DEF ExecuteBump, Delivered
    <3>3. calls'[c].pc \in {"bumping", "bumped"} /\ calls'[c].bucket = b
          /\ calls'[c].attempt = calls[c].attempt
      <4>1. CASE UNCHANGED calls
        BY <2>1, <2>4, <4>1
      <4>2. CASE Goto(c, "bumping", "bumped")
        BY <2>4, <4>2
      <4> QED
        BY <1>15, <4>1, <4>2 DEF ExecuteBump
    <3>4. <<c, k>> \in Delivered(b)'
      BY <1>15, <2>1, <3>3 DEF ExecuteBump, Delivered
    <3> QED
      BY <2>2, <3>1, <3>2, <3>4
  <2> QED
    BY <2>3, <2>4
<1>16. ASSUME UNCHANGED <<calls, rows, wire>> PROVE Same
  BY <1>16 DEF Delivered
<1> QED
  BY <1>1, <1>2, <1>3, <1>4, <1>5, <1>6, <1>7, <1>8, <1>9, <1>10, <1>11, <1>12,
     <1>13, <1>14, <1>15, <1>16
     DEF Next, UpdateStep, BumpStep, Replicate, Tick, vars

LEMMA BlocksStep == Typed /\ ByStore /\ BlocksCounted /\ [Next]_vars => BlocksCounted'
<1> SUFFICES ASSUME Typed, ByStore, BlocksCounted, [Next]_vars, NEW b \in Buckets
             PROVE  rows'[b].blocked <= Cardinality(Delivered(b)')
  BY DEF BlocksCounted
<1> DEFINE S == Delivered(b)
           T == Delivered(b)'
<1>1. /\ rows[b].blocked \in Nat /\ rows[b].blocked <= Cardinality(S)
      /\ IsFiniteSet(S) /\ Cardinality(S) \in Nat
      /\ IsFiniteSet(T) /\ Cardinality(T) \in Nat
  BY SetsFinite DEF Typed, TypeOK, RowType, BlocksCounted
<1>2. \/ S \subseteq T /\ rows'[b].blocked = rows[b].blocked
      \/ /\ S \subseteq T /\ \E x \in T : x \notin S
         /\ rows'[b].blocked = rows[b].blocked + 1
  BY BlockedStep
<1> HIDE DEF S, T
<1>3. /\ S \subseteq T => Cardinality(S) <= Cardinality(T)
      /\ \A x \in T \ S : S \subseteq T => Cardinality(S) + 1 <= Cardinality(T)
  BY <1>1, Larger
<1>4. rows'[b].blocked <= Cardinality(T)
  BY <1>1, <1>2, <1>3
<1> QED
  BY <1>4 DEF T

\* A step stamps a call only when it executes its write, which is a hit.
LEMMA StampedStep ==
  ASSUME Typed, [Next]_vars, ~valkey, NEW b \in Buckets
  PROVE  \/ StampedIn(b)' \subseteq StampedIn(b) /\ rows'[b].hits >= rows[b].hits
         \/ /\ \E x : StampedIn(b)' \subseteq StampedIn(b) \cup {x}
            /\ rows'[b].hits = rows[b].hits + 1
<1> DEFINE Same == StampedIn(b)' \subseteq StampedIn(b) /\ rows'[b].hits >= rows[b].hits
           More == /\ \E x : StampedIn(b)' \subseteq StampedIn(b) \cup {x}
                   /\ rows'[b].hits = rows[b].hits + 1
<1>0. rows[b].hits \in Nat
  BY DEF Typed, TypeOK, RowType
<1> USE DEF Typed, TypeOK, CallType, Goto
<1>1. ASSUME NEW c \in Calls, NEW d \in Devices, Update(c, d) PROVE Same
  BY <1>0, <1>1 DEF Update, StampedIn, Stamped, BucketOf
<1>2. ASSUME NEW c \in Calls, SkipUpdate(c) PROVE Same
  BY <1>0, <1>2 DEF SkipUpdate, StampedIn, Stamped, BucketOf
<1>3. ASSUME NEW c \in Calls, ReadSketch(c) PROVE Same
  BY <1>0, <1>3 DEF ReadSketch, StampedIn, Stamped, BucketOf
<1>4. ASSUME NEW c \in Calls, SendWrite(c) PROVE Same
  BY <1>0, <1>4 DEF SendWrite, Send, StampedIn, Stamped, BucketOf
<1>5. ASSUME NEW c \in Calls, ResendWrite(c) PROVE Same
  BY <1>0, <1>5 DEF ResendWrite, Send, StampedIn, Stamped, BucketOf
<1>6. ASSUME NEW c \in Calls, ExecutePipelined(c) PROVE Same
  <2>1. rows'[b].hits >= rows[b].hits
    BY <1>0, <1>6 DEF ExecutePipelined, PipedRow, RowType, BucketOf
  <2>2. StampedIn(b)' \subseteq StampedIn(b)
    BY <1>6 DEF ExecutePipelined, StampedIn, Stamped, BucketOf
  <2> QED
    BY <2>1, <2>2
<1>7. ASSUME NEW c \in Calls, RefusePipelined(c) PROVE Same
  BY <1>0, <1>7 DEF RefusePipelined, StampedIn, Stamped, BucketOf
<1>8. ASSUME NEW c \in Calls, AnswerPipeline(c) PROVE Same
  BY <1>8 DEF AnswerPipeline
<1>9. ASSUME NEW c \in Calls, ReconnectPipelined(c) PROVE Same
  BY <1>9 DEF ReconnectPipelined
<1>10. ASSUME NEW c \in Calls, FailUpdate(c) PROVE Same
  BY <1>0, <1>10 DEF FailUpdate, StampedIn, Stamped, BucketOf
<1>11. ASSUME NEW c \in Calls, NEW k \in 1 .. MaxAttempts, ExecuteWrite(c, k) PROVE Same \/ More
  <2>1. CASE calls[c].bucket # b
    <3>1. UNCHANGED calls => StampedIn(b)' \subseteq StampedIn(b)
      BY DEF StampedIn, Stamped, BucketOf
    <3>2. Goto(c, "sent", "done") => StampedIn(b)' \subseteq StampedIn(b)
      BY <2>1 DEF StampedIn, Stamped, BucketOf
    <3>3. rows'[b] = rows[b]
      BY <1>11, <2>1 DEF ExecuteWrite, BucketOf
    <3> QED
      BY <1>0, <1>11, <3>1, <3>2, <3>3 DEF ExecuteWrite
  <2>2. CASE calls[c].bucket = b
    <3>1. UNCHANGED calls => StampedIn(b)' \subseteq StampedIn(b) \cup {c}
      BY DEF StampedIn, Stamped, BucketOf
    <3>2. Goto(c, "sent", "done") => StampedIn(b)' \subseteq StampedIn(b) \cup {c}
      BY DEF StampedIn, Stamped, BucketOf
    <3>3. rows'[b].hits = rows[b].hits + 1
      BY <1>11, <2>2 DEF ExecuteWrite, WrittenRow, BucketOf, RowType
    <3> QED
      BY <1>11, <3>1, <3>2, <3>3 DEF ExecuteWrite
  <2> QED
    BY <2>1, <2>2
<1>12. ASSUME NEW c \in Calls, Bump(c) PROVE Same
  BY <1>0, <1>12 DEF Bump, StampedIn, Stamped, BucketOf
<1>13. ASSUME NEW c \in Calls, ResendBump(c) PROVE Same
  BY <1>0, <1>13 DEF ResendBump, Send, StampedIn, Stamped, BucketOf
<1>14. ASSUME NEW c \in Calls, FailBump(c) PROVE Same
  BY <1>0, <1>14 DEF FailBump, StampedIn, Stamped, BucketOf
<1>15. ASSUME NEW c \in Calls, NEW k \in 1 .. MaxAttempts, ExecuteBump(c, k) PROVE Same
  <2>1. rows'[b].hits = rows[b].hits
    BY <1>15 DEF ExecuteBump, BumpedBucket, BucketOf, RowType
  <2>2. UNCHANGED calls => StampedIn(b)' \subseteq StampedIn(b)
    BY DEF StampedIn, Stamped, BucketOf
  <2>3. Goto(c, "bumping", "bumped") => StampedIn(b)' \subseteq StampedIn(b)
    BY DEF StampedIn, Stamped, BucketOf
  <2> QED
    BY <1>0, <1>15, <2>1, <2>2, <2>3 DEF ExecuteBump
<1>16. ASSUME UNCHANGED <<calls, rows>> PROVE Same
  BY <1>0, <1>16 DEF StampedIn, Stamped, BucketOf
<1> QED
  BY <1>1, <1>2, <1>3, <1>4, <1>5, <1>6, <1>7, <1>8, <1>9, <1>10, <1>11, <1>12,
     <1>13, <1>14, <1>15, <1>16
     DEF Next, UpdateStep, BumpStep, Replicate, Tick, vars

LEMMA HitsStep == Typed /\ HitsCounted /\ [Next]_vars => HitsCounted'
<1> SUFFICES ASSUME Typed, HitsCounted, [Next]_vars, ~valkey, NEW b \in Buckets
             PROVE  Cardinality(StampedIn(b)') <= rows'[b].hits
  BY StoreIsFixed DEF HitsCounted
<1> DEFINE S == StampedIn(b)
           T == StampedIn(b)'
<1>1. /\ rows[b].hits \in Nat /\ rows'[b].hits \in Nat /\ Cardinality(S) <= rows[b].hits
      /\ IsFiniteSet(S) /\ Cardinality(S) \in Nat
      /\ IsFiniteSet(T) /\ Cardinality(T) \in Nat
  BY SetsFinite, TypeStep DEF Typed, TypeOK, RowType, HitsCounted
<1>2. \/ T \subseteq S /\ rows'[b].hits >= rows[b].hits
      \/ (\E x : T \subseteq S \cup {x}) /\ rows'[b].hits = rows[b].hits + 1
  BY StampedStep
<1> HIDE DEF S, T
<1>3. /\ T \subseteq S => Cardinality(T) <= Cardinality(S)
      /\ \A x : T \subseteq S \cup {x} => Cardinality(T) <= Cardinality(S) + 1
  BY <1>1, Larger
<1>4. Cardinality(T) <= rows'[b].hits
  BY <1>1, <1>2, <1>3
<1> QED
  BY <1>4 DEF T

LEMMA TimesMonotonic ==
  ASSUME NEW n \in Nat, NEW i \in Nat, NEW j \in Nat, i <= j
  PROVE  n * i <= n * j
<1>1. PICK d \in Nat : j = i + d
  BY j - i \in Nat
<1>2. n * j = n * i + n * d /\ n * i \in Nat /\ n * d \in Nat
  BY <1>1
<1> QED
  BY <1>2

\* A bump of a bucket is one of at most MaxAttempts of a call stamped with it.
LEMMA CountsSuffice == Typed /\ BlocksCounted /\ HitsCounted => BlocksAreOfTheHour
<1> SUFFICES ASSUME Typed, BlocksCounted, HitsCounted, NEW b \in Buckets
             PROVE  /\ rows[b].blocked <= MaxAttempts * Cardinality(StampedIn(b))
                    /\ ~valkey => rows[b].blocked <= MaxAttempts * rows[b].hits
  BY DEF BlocksAreOfTheHour, StampedIn
<1> DEFINE S == StampedIn(b)
           A == 1 .. MaxAttempts
<1>1. /\ IsFiniteSet(S) /\ Cardinality(S) \in Nat
      /\ IsFiniteSet(A) /\ Cardinality(A) = MaxAttempts /\ MaxAttempts \in Nat
  BY SetsFinite, FS_Interval, AttemptsAssumption
<1>2. IsFiniteSet(S \X A) /\ Cardinality(S \X A) = Cardinality(S) * Cardinality(A)
  BY <1>1, FS_Product
<1>3. Delivered(b) \in SUBSET (S \X A)
  BY DEF Delivered, StampedIn, Stamped, BucketOf
<1>4. Cardinality(Delivered(b)) <= Cardinality(S \X A)
  BY <1>2, <1>3, FS_Subset
<1>5. rows[b].blocked \in Nat /\ rows[b].hits \in Nat
      /\ rows[b].blocked <= Cardinality(Delivered(b)) /\ Cardinality(Delivered(b)) \in Nat
  BY SetsFinite DEF Typed, TypeOK, RowType, BlocksCounted
<1>6. Cardinality(S) * MaxAttempts = MaxAttempts * Cardinality(S)
      /\ MaxAttempts * Cardinality(S) \in Nat
  BY <1>1
<1>7. rows[b].blocked <= MaxAttempts * Cardinality(S)
  BY <1>1, <1>2, <1>4, <1>5, <1>6
<1>8. ASSUME ~valkey PROVE rows[b].blocked <= MaxAttempts * rows[b].hits
  <2>1. Cardinality(S) <= rows[b].hits
    BY <1>8 DEF HitsCounted
  <2>2. PICK hits \in Nat : hits = rows[b].hits
    BY <1>5
  <2>3. PICK stamped \in Nat : stamped = Cardinality(S)
    BY <1>1
  <2>4. PICK n \in Nat : n = MaxAttempts
    BY <1>1
  <2>5. n * stamped <= n * hits
    BY <2>1, <2>2, <2>3, TimesMonotonic
  <2>6. PICK counted \in Nat : counted = n * stamped
    BY <1>6, <2>3, <2>4
  <2>7. PICK atMost \in Nat : atMost = n * hits
    OBVIOUS
  <2>8. rows[b].blocked <= counted
    BY <1>7, <2>3, <2>4, <2>6
  <2>9. counted <= atMost
    BY <2>5, <2>6, <2>7
  <2>10. rows[b].blocked <= atMost
    BY <1>5, <2>8, <2>9
  <2> QED
    BY <2>2, <2>4, <2>7, <2>10
<1> QED
  BY <1>7, <1>8

\* The blocks of a bucket are those of submissions stamped with it, each up to
\* what the client resends, and in DynamoDB these are among its hits, although
\* the hour may turn between a submission's update and its bump.
THEOREM BlocksBelong == Spec => []BlocksAreOfTheHour
<1>1. Init => BlocksCounted /\ HitsCounted
  <2> SUFFICES ASSUME Init, NEW b \in Buckets
               PROVE  /\ rows[b].blocked <= Cardinality(Delivered(b))
                      /\ Cardinality(StampedIn(b)) <= rows[b].hits
    BY DEF BlocksCounted, HitsCounted
  <2>1. StampedIn(b) = {} /\ rows[b].blocked = 0 /\ rows[b].hits = 0
    BY DEF Init, StampedIn, Stamped, EmptyRow
  <2>2. Cardinality(Delivered(b)) \in Nat
    BY SetsFinite
  <2> QED
    BY <2>1, <2>2, FS_EmptySet
<1> QED
  BY <1>1, BlocksStep, HitsStep, CountsSuffice, TypedInvariant, ByStoreInvariant, PTL
     DEF Spec
=============================================================================
