----------------------------- MODULE IpVelocity -----------------------------
(***************************************************************************)
(* The per-IP, per-hour velocity rollup: hits, blocked hits and a sketch   *)
(* of the devices seen, updated by every submission while it is ingested.  *)
(*                                                                         *)
(* Each element of Calls is one submission's use of the rollup of one IP:  *)
(* an update before the verdict is known and, for a block verdict, a bump  *)
(* of the blocked counter after it. Two stores implement it, chosen by the *)
(* environment: a DynamoDB row (read the sketch, add to it locally, write  *)
(* it back with an atomic ADD on the counters) and a family of Valkey keys *)
(* (one pipeline of atomic commands, which other clients may interleave).  *)
(*                                                                         *)
(* Both clients resend what was not answered, so a write may be executed   *)
(* twice, and also after its caller gave up. The HyperLogLog sketch is the *)
(* set of devices added to it, and time is counted in hours: the first and *)
(* last seen times of a row are left out.                                  *)
(***************************************************************************)
EXTENDS Integers, FiniteSets, Sequences

CONSTANTS
  Calls,          \* submissions from the IP
  Devices,        \* device ids (public key or client uuid)
  MaxAttempts,    \* times a client sends one command
  MaxHour,        \* bound: the last hour
  None            \* no device

ASSUME CallsAssumption == IsFiniteSet(Calls)
ASSUME AttemptsAssumption == MaxAttempts \in Nat \ {0}
ASSUME HourAssumption == MaxHour \in Nat
ASSUME NoneAssumption == None \notin Devices

VARIABLES
  valkey,     \* USE_VALKEY_IP_VELOCITY
  hour,       \* hourBucket(Date.now())
  rows,       \* the rollup of each bucket
  replica,    \* the sketch as the DynamoDB replica of each row has it
  expiring,   \* the <<bucket, column>> pairs that have a TTL
  calls,      \* the state of each call
  wire        \* commands sent and not (yet) executed

vars == <<valkey, hour, rows, replica, expiring, calls, wire>>

Buckets == 0 .. MaxHour
Columns == {"hits", "blocked", "devices"}

EmptyRow == [hits |-> 0, blocked |-> 0, devices |-> {}]

\* Whether a column of a bucket holds anything (in Valkey, the key exists).
Present(b, col) ==
  CASE col = "hits" -> rows[b].hits > 0
    [] col = "blocked" -> rows[b].blocked > 0
    [] col = "devices" -> rows[b].devices # {}

\* The Valkey pipeline, in command order. The three EXPIREs are one command;
\* PFCOUNT and the two GETs, which change nothing, are left out.
Pipeline == <<"pfadd", "incr", "expire">>
Commands == {"pfadd", "incr", "expire"}

RowType == [hits : Nat, blocked : Nat, devices : SUBSET Devices]
\* In Valkey, next is the pipeline command to be executed next (0: none),
\* and replies those answered while the call waits on this connection.
CallType ==
  [pc : {"idle", "reading", "writing", "sent", "done", "failed",
         "bumping", "bumped"},
   device : Devices \cup {None}, bucket : Buckets, sketch : SUBSET Devices,
   attempt : 0 .. MaxAttempts, next : 0 .. Len(Pipeline) + 1,
   replies : SUBSET Commands]

TypeOK ==
  /\ valkey \in BOOLEAN
  /\ hour \in Buckets
  /\ rows \in [Buckets -> RowType]
  /\ replica \in [Buckets -> SUBSET Devices]
  /\ expiring \subseteq Buckets \X Columns
  /\ calls \in [Calls -> CallType]
  /\ wire \subseteq Calls \X {"write", "bump"} \X (1 .. MaxAttempts)

Init ==
  /\ valkey \in BOOLEAN
  /\ hour = 0
  /\ rows = [b \in Buckets |-> EmptyRow]
  /\ replica = [b \in Buckets |-> {}]
  /\ expiring = {}
  /\ calls = [c \in Calls |->
       [pc |-> "idle", device |-> None, bucket |-> 0, sketch |-> {},
        attempt |-> 0, next |-> 0, replies |-> {}]]
  /\ wire = {}

\* The bucket a call updates and bumps: the one it was stamped with.
BucketOf(c) == calls[c].bucket

Goto(c, from, to) ==
  /\ calls[c].pc = from
  /\ calls' = [calls EXCEPT ![c].pc = to]

-----------------------------------------------------------------------------
(* updateIpVelocity.                                                       *)

\* The call fixes its bucket before its first await.
Update(c, d) ==
  /\ calls[c].pc = "idle"
  /\ calls' = [calls EXCEPT ![c] =
       [@ EXCEPT !.pc = IF valkey THEN "sent" ELSE "reading",
                 !.device = d, !.bucket = hour,
                 !.attempt = IF valkey THEN 1 ELSE 0,
                 !.next = IF valkey THEN 1 ELSE 0]]
  /\ UNCHANGED <<valkey, hour, rows, replica, expiring, wire>>

\* Variant: The sketch of the wrong hour.
LoadHllPreviousHour(b) ==
  IF b = 0 THEN {{}} ELSE {rows[b - 1].devices, replica[b - 1], {}}

\* What loadHll may return: the row as its leader or a replica has it (the
\* read is not consistent), and the empty sketch when the read fails.
LoadHll(b) == {rows[b].devices, replica[b], {}}

\* The read returns; the device is added to the sketch in memory.
ReadSketch(c) ==
  /\ calls[c].pc = "reading"
  /\ \E seen \in LoadHll(BucketOf(c)) :
       calls' = [calls EXCEPT ![c] =
         [@ EXCEPT !.pc = "writing", !.sketch = seen \cup {calls[c].device}]]
  /\ UNCHANGED <<valkey, hour, rows, replica, expiring, wire>>

\* No table or no Valkey endpoint is configured: nothing is stamped.
SkipUpdate(c) ==
  /\ Goto(c, "idle", "failed")
  /\ UNCHANGED <<valkey, hour, rows, replica, expiring, wire>>

\* The client puts one more attempt of a command on the wire.
Send(c, kind, from, to) ==
  /\ calls[c].pc = from
  /\ calls[c].attempt < MaxAttempts
  /\ calls' = [calls EXCEPT ![c] = [@ EXCEPT !.pc = to, !.attempt = calls[c].attempt + 1]]
  /\ wire' = wire \cup {<<c, kind, calls[c].attempt + 1>>}

SendWrite(c) ==
  /\ Send(c, "write", "writing", "sent")
  /\ UNCHANGED <<valkey, hour, rows, replica, expiring>>

ResendWrite(c) ==
  /\ ~valkey
  /\ Send(c, "write", "sent", "sent")
  /\ UNCHANGED <<valkey, hour, rows, replica, expiring>>

\* ADD hits 1, blocked 0 and SET of the sketch.
WrittenRow(c) ==
  [rows[BucketOf(c)] EXCEPT !.hits = @ + 1, !.devices = calls[c].sketch]

\* Variant: An UpdateItem that forgets the ttl attribute.
TtlSetByNothing(c) == {}

\* The columns an UpdateItem leaves covered by the row's ttl attribute.
TtlSetBy(c) == {BucketOf(c)} \X Columns

\* The table executes attempt k; the caller may get the answer.
ExecuteWrite(c, k) ==
  /\ <<c, "write", k>> \in wire
  /\ wire' = wire \ {<<c, "write", k>>}
  /\ rows' = [rows EXCEPT ![BucketOf(c)] = WrittenRow(c)]
  /\ expiring' = expiring \cup TtlSetBy(c)
  /\ UNCHANGED calls \/ (calls[c].attempt = k /\ Goto(c, "sent", "done"))
  /\ UNCHANGED <<valkey, hour, replica>>

Replicate(b) ==
  /\ ~valkey /\ replica[b] # rows[b].devices
  /\ replica' = [replica EXCEPT ![b] = rows[b].devices]
  /\ UNCHANGED <<valkey, hour, rows, expiring, calls, wire>>

\* Variant: The sketch read, added to and set by the client, as in DynamoDB.
PipedRowOverwritten(c, cmd) ==
  LET b == BucketOf(c) IN
  CASE cmd = "pfadd" -> [rows[b] EXCEPT !.devices = {calls[c].device}]
    [] cmd = "incr" -> [rows[b] EXCEPT !.hits = @ + 1]
    [] OTHER -> rows[b]

\* What one command of the pipeline does to the row of its bucket.
PipedRow(c, cmd) ==
  LET b == BucketOf(c) IN
  CASE cmd = "pfadd" -> [rows[b] EXCEPT !.devices = @ \cup {calls[c].device}]
    [] cmd = "incr" -> [rows[b] EXCEPT !.hits = @ + 1]
    [] OTHER -> rows[b]

\* EXPIRE is a no-op on a key that does not exist.
Expirable(b) == {<<b, col>> : col \in {x \in Columns : Present(b, x)}}

\* Valkey executes the next command of c's pipeline.
ExecutePipelined(c) ==
  /\ calls[c].next \in 1 .. Len(Pipeline)
  /\ LET cmd == Pipeline[calls[c].next] IN
       /\ rows' = [rows EXCEPT ![BucketOf(c)] = PipedRow(c, cmd)]
       /\ expiring' = IF cmd = "expire"
                        THEN expiring \cup Expirable(BucketOf(c)) ELSE expiring
       /\ calls' = [calls EXCEPT ![c] = [@ EXCEPT
            !.next = calls[c].next + 1,
            !.replies = IF calls[c].pc = "sent" THEN calls[c].replies \cup {cmd}
                                                ELSE calls[c].replies]]
  /\ UNCHANGED <<valkey, hour, replica, wire>>

\* The next command is not executed: Valkey answers it with an error, or it is
\* lost with its connection.
RefusePipelined(c) ==
  /\ calls[c].next \in 1 .. Len(Pipeline)
  /\ calls' = [calls EXCEPT ![c].next = @ + 1]
  /\ UNCHANGED <<valkey, hour, rows, replica, expiring, wire>>

\* exec() resolves when every command has an answer or an error (a timeout, a
\* lost connection): the snapshot is made of the answers that came and of the
\* fallbacks of pick(). A command whose answer is late or lost is one that is
\* executed after this step.
AnswerPipeline(c) ==
  /\ valkey
  /\ Goto(c, "sent", "done")
  /\ UNCHANGED <<valkey, hour, rows, replica, expiring, wire>>

\* Variant: Resending without counting the attempts.
ReconnectPipelinedForever(c) ==
  /\ valkey /\ calls[c].pc = "sent"
  /\ calls' = [calls EXCEPT ![c] =
                 [@ EXCEPT !.next = 1, !.replies = {}, !.attempt = calls[c].attempt + 1]]
  /\ UNCHANGED <<valkey, hour, rows, replica, expiring, wire>>

\* The connection is lost before any answer came: what was not executed is
\* dropped, and the client resends the whole pipeline on a new connection.
ReconnectPipelined(c) ==
  /\ valkey /\ calls[c].pc = "sent" /\ calls[c].attempt < MaxAttempts
  /\ calls' = [calls EXCEPT ![c] =
                 [@ EXCEPT !.next = 1, !.replies = {}, !.attempt = calls[c].attempt + 1]]
  /\ UNCHANGED <<valkey, hour, rows, replica, expiring, wire>>

\* The UpdateItem rejects: its attempts are used up or the table refused it.
\* What is on the wire may still be executed.
FailUpdate(c) ==
  /\ ~valkey /\ calls[c].pc \in {"sent", "writing"}
  /\ calls' = [calls EXCEPT ![c].pc = "failed"]
  /\ UNCHANGED <<valkey, hour, rows, replica, expiring, wire>>

-----------------------------------------------------------------------------
(* bumpVelocityBlocked, for a call whose snapshot was stamped.             *)

Bump(c) ==
  /\ calls[c].pc = "done"
  /\ calls' = [calls EXCEPT ![c] = [@ EXCEPT !.pc = "bumping", !.attempt = 1]]
  /\ wire' = wire \cup {<<c, "bump", 1>>}
  /\ UNCHANGED <<valkey, hour, rows, replica, expiring>>

ResendBump(c) ==
  /\ Send(c, "bump", "bumping", "bumping")
  /\ UNCHANGED <<valkey, hour, rows, replica, expiring>>

\* Variant: The hour it is when the counter is bumped.
BumpedBucketNow(c) == hour

\* The bucket of the snapshot on the record.
BumpedBucket(c) == BucketOf(c)

\* Valkey executes what a connection sent in order: the pipeline first.
ExecuteBump(c, k) ==
  /\ <<c, "bump", k>> \in wire
  /\ calls[c].next \notin 1 .. Len(Pipeline)
  /\ wire' = wire \ {<<c, "bump", k>>}
  /\ rows' = [rows EXCEPT ![BumpedBucket(c)].blocked = @ + 1]
  /\ UNCHANGED calls \/ (calls[c].attempt = k /\ Goto(c, "bumping", "bumped"))
  /\ UNCHANGED <<valkey, hour, replica, expiring>>

\* A failed bump is logged and otherwise ignored.
FailBump(c) ==
  /\ Goto(c, "bumping", "bumped")
  /\ UNCHANGED <<valkey, hour, rows, replica, expiring, wire>>

-----------------------------------------------------------------------------
Tick ==
  /\ hour < MaxHour
  /\ hour' = hour + 1
  /\ UNCHANGED <<valkey, rows, replica, expiring, calls, wire>>

UpdateStep(c) ==
  \/ ReadSketch(c) \/ SendWrite(c) \/ ResendWrite(c)
  \/ ExecutePipelined(c) \/ RefusePipelined(c) \/ AnswerPipeline(c)
  \/ ReconnectPipelined(c) \/ FailUpdate(c)
  \/ \E k \in 1 .. MaxAttempts : ExecuteWrite(c, k)

BumpStep(c) ==
  \/ ResendBump(c) \/ FailBump(c)
  \/ \E k \in 1 .. MaxAttempts : ExecuteBump(c, k)

Next ==
  \/ \E c \in Calls : SkipUpdate(c) \/ UpdateStep(c) \/ Bump(c) \/ BumpStep(c)
  \/ \E c \in Calls, d \in Devices : Update(c, d)
  \/ \E b \in Buckets : Replicate(b)
  \/ Tick

Spec == Init /\ [][Next]_vars

-----------------------------------------------------------------------------
(* Properties.                                                             *)

Stamped(c) == calls[c].pc \in {"done", "bumping", "bumped"}

\* The block rate a merchant is shown cannot come from blocks of another
\* hour: a bucket's blocks are those of submissions stamped with it, up to
\* what the client resends, even when the hour turns before the bump; and in
\* DynamoDB each of these submissions is also among its hits.
BlocksAreOfTheHour ==
  \A b \in Buckets :
    /\ rows[b].blocked <= MaxAttempts * Cardinality({c \in Calls :
                             Stamped(c) /\ BucketOf(c) = b})
    /\ ~valkey => rows[b].blocked <= MaxAttempts * rows[b].hits

\* In DynamoDB a bucket never claims more devices than hits, however stale
\* the sketch a concurrent submission started from.
DevicesWithinHits ==
  ~valkey => \A b \in Buckets : Cardinality(rows[b].devices) <= rows[b].hits

\* In Valkey no device is lost: the sketch of a bucket has the device of
\* every call whose PFADD was answered, whatever ran concurrently.
NoDeviceLost ==
  \A c \in Calls : "pfadd" \in calls[c].replies =>
    calls[c].device \in rows[BucketOf(c)].devices

\* Old DynamoDB buckets prune themselves: a row that exists has its ttl,
\* whichever of update, late update and bump touched it last.
RowsExpire ==
  ~valkey => \A b \in Buckets, col \in Columns :
    Present(b, col) => <<b, col>> \in expiring
=============================================================================
