------------------------------ MODULE Ingestion ------------------------------
(***************************************************************************)
(* POST /v1/integrity-collect: a browser SDK submits a scan.               *)
(*                                                                         *)
(* Each element of Submissions is one invocation of the ingestion Lambda;  *)
(* an SDK that resends a scan is one more submission of the same shape.    *)
(* A container runs one invocation at a time and keeps the tracker of      *)
(* redeemed STUN candidates in memory; containers meet in the              *)
(* integrity-results table, the velocity rollup (IpVelocity) and the       *)
(* archive stream. Code between two awaits is one action.                  *)
(***************************************************************************)
EXTENDS Integers, FiniteSets

CONSTANTS
  Submissions,       \* handler invocations
  Containers,        \* Lambda containers
  Cpis, Sessions,    \* identifiers of scans
  Devices,           \* device ids (public key or client uuid)
  Candidates,        \* STUN candidates, by ciphertext
  SubmissionShapes,  \* the submissions clients may make
  PutAttempts,       \* times the SDK sends one PutItem
  VelocityAttempts,  \* times a client sends one velocity command
  MaxHour,           \* bound: see IpVelocity
  None               \* no device, candidate, container or row

Keys == Cpis \X Sessions

\* What redeemSigintTokens can hydrate.
Probes == {"tcp", "h2", "cf"}

\* tokens: the probe tokens that are genuine, fresh and from this address;
\* mac: whether the device MAC matches; stun: the candidate that decodes.
SubmissionType ==
  [key : Keys, proxy : BOOLEAN, tokens : SUBSET Probes, mac : BOOLEAN,
   device : Devices \cup {None}, stun : Candidates \cup {None}]

ASSUME ShapesAssumption == SubmissionShapes \subseteq SubmissionType
ASSUME PutAssumption == PutAttempts \in Nat \ {0}
ASSUME VelocityAssumption ==
  IsFiniteSet(Submissions) /\ VelocityAttempts \in Nat \ {0} /\ MaxHour \in Nat
ASSUME NoneAssumption ==
  None \notin SubmissionType \cup Devices \cup Candidates \cup Containers
              \cup Submissions \cup Sessions

VARIABLES
  pc,        \* where an invocation is, or what it answered
  input,     \* what it was sent
  host,      \* the container it runs in
  attempt,   \* PutItem attempts made
  wire,      \* PutItem attempts sent and not (yet) executed
  rows,      \* integrity-results: the submission whose record is stored
  archive,   \* the archive put of each submission
  tracker,   \* per container, the session each candidate was redeemed by
  forgot,    \* history: claims a container no longer remembers
  \* The velocity rollup of the submissions' address.
  valkey, hour, rollup, replica, expiring, calls, velocityWire

velocity == <<valkey, hour, rollup, replica, expiring, calls, velocityWire>>
own == <<pc, input, host, attempt, wire, rows, archive, tracker, forgot>>
vars == <<own, velocity>>

V == INSTANCE IpVelocity WITH
  Calls <- Submissions, MaxAttempts <- VelocityAttempts,
  rows <- rollup, wire <- velocityWire

SessionOf(key) == key[2]

Working == {"hydrate", "identity", "velocity", "bumping", "put", "putting"}
\* stored and duplicate are both a 200; rejected is a 400, conflict a 409.
Answers == {"stored", "duplicate", "rejected", "conflict", "unavailable", "error"}
Outcomes == Answers \cup {"killed"}

OwnTypeOK ==
  /\ pc \in [Submissions -> {"idle"} \cup Working \cup Outcomes]
  /\ input \in [Submissions -> SubmissionShapes \cup {None}]
  /\ host \in [Submissions -> Containers \cup {None}]
  /\ attempt \in [Submissions -> 0 .. PutAttempts]
  /\ wire \subseteq Submissions \X (1 .. PutAttempts)
  /\ rows \in [Keys -> Submissions \cup {None}]
  /\ archive \in [Submissions -> {"none", "started", "archived"}]
  /\ tracker \in [Containers -> [Candidates -> Sessions \cup {None}]]
  /\ forgot \subseteq Containers \X Candidates

TypeOK == OwnTypeOK /\ V!TypeOK

Init ==
  /\ pc = [r \in Submissions |-> "idle"]
  /\ input = [r \in Submissions |-> None]
  /\ host = [r \in Submissions |-> None]
  /\ attempt = [r \in Submissions |-> 0]
  /\ wire = {}
  /\ rows = [k \in Keys |-> None]
  /\ archive = [r \in Submissions |-> "none"]
  /\ tracker = [c \in Containers |-> [n \in Candidates |-> None]]
  /\ forgot = {}
  /\ V!Init

Goto(r, from, to) ==
  /\ pc[r] = from
  /\ pc' = [pc EXCEPT ![r] = to]

Busy(c) == \E r \in Submissions : host[r] = c /\ pc[r] \in Working

-----------------------------------------------------------------------------
(* Request checks and evidence.                                            *)

\* The middleware and the router let a request through to a free container.
Receive(r) ==
  /\ Goto(r, "idle", "hydrate")
  /\ \E q \in SubmissionShapes : input' = [input EXCEPT ![r] = q]
  /\ \E c \in Containers :
       /\ ~Busy(c)
       /\ host' = [host EXCEPT ![r] = c]
  /\ UNCHANGED <<attempt, wire, rows, archive, tracker, forgot, velocity>>

\* A malformed, unsealed or misrouted request, or no key to open it with.
RejectRequest(r) ==
  /\ \E to \in {"rejected", "unavailable"} : Goto(r, "idle", to)
  /\ UNCHANGED <<input, host, attempt, wire, rows, archive, tracker, forgot, velocity>>

\* Variant: The device MAC is not looked at.
AfterHydrateNoMac(q, got) ==
  IF got = {} \/ (q.proxy /\ got # Probes) THEN "rejected" ELSE "identity"

\* Where hydrateSigint, the proxy branch and enforceDeviceMac leave the
\* submission, given the probes that were redeemed.
AfterHydrate(q, got) ==
  CASE got = {} -> "rejected"
    [] got # {} /\ q.proxy /\ got # Probes -> "rejected"
    [] got # {} /\ ~q.proxy /\ ~q.mac -> "rejected"
    [] OTHER -> "identity"

\* The probe-token reads are eventually consistent and may miss a token.
Hydrate(r) ==
  /\ pc[r] = "hydrate"
  /\ \E missed \in SUBSET {"tcp", "h2"} :
       pc' = [pc EXCEPT ![r] = AfterHydrate(input[r], input[r].tokens \ missed)]
  /\ UNCHANGED <<input, host, attempt, wire, rows, archive, tracker, forgot, velocity>>

\* The sigint environment is missing or a probe-token read throws.
HydrateFails(r) ==
  /\ Goto(r, "hydrate", "unavailable")
  /\ UNCHANGED <<input, host, attempt, wire, rows, archive, tracker, forgot, velocity>>

\* A proxy scan does not catch a failed dataset prewarm.
PrewarmFails(r) ==
  /\ pc[r] = "identity" /\ input[r].proxy
  /\ Goto(r, "identity", "error")
  /\ UNCHANGED <<input, host, attempt, wire, rows, archive, tracker, forgot, velocity>>

-----------------------------------------------------------------------------
(* The record: STUN single use, velocity, projection.                      *)

\* Variant: Any candidate is accepted again.
AcceptsClaimAlways(c, q) == TRUE

\* claimStunNonce: a candidate is free, or this session's already.
AcceptsClaim(c, q) ==
  q.stun # None => tracker[c][q.stun] \in {None, SessionOf(q.key)}

Claim(c, q) ==
  IF q.stun = None THEN tracker
  ELSE [tracker EXCEPT ![c][q.stun] =
          IF @ = None THEN SessionOf(q.key) ELSE @]

\* Identity and merchant are known: the record is built, the candidate is
\* claimed and the velocity update, if there is a device id, is started.
BuildRecord(r) ==
  /\ Goto(r, "identity", "velocity")
  /\ AcceptsClaim(host[r], input[r])
  /\ tracker' = Claim(host[r], input[r])
  /\ IF input[r].device = None
       THEN UNCHANGED velocity
       ELSE V!Update(r, input[r].device) \/ V!SkipUpdate(r)
  /\ UNCHANGED <<input, host, attempt, wire, rows, archive, forgot>>

RejectReplay(r) ==
  /\ Goto(r, "identity", "conflict")
  /\ ~AcceptsClaim(host[r], input[r])
  /\ UNCHANGED <<input, host, attempt, wire, rows, archive, tracker, forgot, velocity>>

\* Variant: Archival only begins once the row is known to be stored.
StartArchiveLater(r) == archive

\* persistIntegrityRecord starts the archive put before the table's.
StartArchive(r) == [archive EXCEPT ![r] = "started"]

Persist(r, from) ==
  /\ Goto(r, from, "put")
  /\ archive' = StartArchive(r)

\* The race is over: the record, stamped or not, is projected. A block on a
\* stamped record is counted before the record is persisted.
Project(r) ==
  /\ pc[r] = "velocity"
  /\ calls[r].pc \in {"idle", "done", "failed"}
  /\ \/ Persist(r, "velocity") /\ UNCHANGED velocity
     \/ Goto(r, "velocity", "bumping") /\ V!Bump(r) /\ UNCHANGED archive
  /\ UNCHANGED <<input, host, attempt, wire, rows, tracker, forgot>>

\* Variant: No deadline: the update is awaited whatever it takes.
VelocityDeadlineNone(r) == FALSE /\ UNCHANGED vars

\* 1.5 s are over: the record is persisted without a stamp, and the update
\* goes on in the background.
VelocityDeadline(r) ==
  /\ calls[r].pc \notin {"idle", "done", "failed"}
  /\ Persist(r, "velocity")
  /\ UNCHANGED <<input, host, attempt, wire, rows, tracker, forgot, velocity>>

BumpReturns(r) ==
  /\ calls[r].pc = "bumped"
  /\ Persist(r, "bumping")
  /\ UNCHANGED <<input, host, attempt, wire, rows, tracker, forgot, velocity>>

-----------------------------------------------------------------------------
(* Persistence.                                                            *)

SendPut(r) ==
  /\ Goto(r, "put", "putting")
  /\ attempt' = [attempt EXCEPT ![r] = @ + 1]
  /\ wire' = wire \cup {<<r, attempt[r] + 1>>}
  /\ UNCHANGED <<input, host, rows, archive, tracker, forgot, velocity>>

\* Variant: A Put without a condition.
PutConditionNone(k) == TRUE

\* ConditionExpression "attribute_not_exists(cpi)".
PutCondition(k) == rows[k] = None

\* The table executes attempt k of r's PutItem, atomically.
ExecutePut(r, k) ==
  /\ <<r, k>> \in wire
  /\ wire' = wire \ {<<r, k>>}
  /\ rows' = IF PutCondition(input[r].key)
               THEN [rows EXCEPT ![input[r].key] = r] ELSE rows
  /\ \/ UNCHANGED pc           \* the answer is lost, late, or not waited for
     \/ /\ attempt[r] = k
        /\ Goto(r, "putting",
                IF PutCondition(input[r].key) THEN "stored" ELSE "duplicate")
  /\ UNCHANGED <<input, host, attempt, archive, tracker, forgot, velocity>>

\* Variant: Off by one: an attempt too many.
RetryPutOnceMore(r) ==
  /\ attempt[r] <= PutAttempts
  /\ Goto(r, "putting", "put")
  /\ UNCHANGED <<input, host, attempt, wire, rows, archive, tracker, forgot, velocity>>

\* The attempt's request timeout expires and the SDK makes another.
RetryPut(r) ==
  /\ attempt[r] < PutAttempts
  /\ Goto(r, "putting", "put")
  /\ UNCHANGED <<input, host, attempt, wire, rows, archive, tracker, forgot, velocity>>

\* Variant: Any failure taken for the conditional one.
AfterFailedPutDuplicate == "duplicate"

\* Any failure but the conditional one is a 503.
AfterFailedPut == "unavailable"

\* The last attempt times out, or one is refused without being executed.
FailPut(r) ==
  /\ Goto(r, "putting", AfterFailedPut)
  /\ \/ attempt[r] = PutAttempts /\ UNCHANGED wire
     \/ <<r, attempt[r]>> \in wire /\ wire' = wire \ {<<r, attempt[r]>>}
  /\ UNCHANGED <<input, host, attempt, rows, archive, tracker, forgot, velocity>>

\* The stream takes the record, at any time after the put was started, or
\* never: a failure is only logged.
ArchivePut(r) ==
  /\ archive[r] = "started"
  /\ archive' = [archive EXCEPT ![r] = "archived"]
  /\ UNCHANGED <<pc, input, host, attempt, wire, rows, tracker, forgot, velocity>>

-----------------------------------------------------------------------------
(* The platform.                                                           *)

\* The invocation runs into the Lambda timeout.
Kill(r) ==
  /\ pc[r] \in Working
  /\ pc' = [pc EXCEPT ![r] = "killed"]
  /\ UNCHANGED <<input, host, attempt, wire, rows, archive, tracker, forgot, velocity>>

\* A claim is dropped: its TTL is over, the LRU is full, or the container
\* is replaced.
ForgetClaim(c, n) ==
  /\ tracker[c][n] # None
  /\ tracker' = [tracker EXCEPT ![c][n] = None]
  /\ forgot' = forgot \cup {<<c, n>>}
  /\ UNCHANGED <<pc, input, host, attempt, wire, rows, archive, velocity>>

\* What the handler's own code and timers do, whatever the stores do.
Handler(r) ==
  \/ Hydrate(r) \/ HydrateFails(r) \/ PrewarmFails(r)
  \/ BuildRecord(r) \/ RejectReplay(r)
  \/ Project(r) \/ VelocityDeadline(r) \/ BumpReturns(r)
  \/ SendPut(r) \/ RetryPut(r) \/ FailPut(r)

\* The velocity promise of r goes on, in the handler or behind its back.
VelocityRuns(r) ==
  /\ V!UpdateStep(r) \/ V!BumpStep(r)
  /\ UNCHANGED own

Rollup ==
  /\ V!Tick \/ \E b \in V!Buckets : V!Replicate(b)
  /\ UNCHANGED own

Next ==
  \/ \E r \in Submissions :
       \/ Receive(r) \/ RejectRequest(r) \/ Handler(r) \/ Kill(r)
       \/ ArchivePut(r) \/ VelocityRuns(r)
       \/ \E k \in 1 .. PutAttempts : ExecutePut(r, k)
  \/ \E c \in Containers, n \in Candidates : ForgetClaim(c, n)
  \/ Rollup

\* A started invocation goes on running, and so do the timers of its
\* clients: the bump's command times out. Nothing is assumed of the stores,
\* nor that the velocity update ever ends.
Fairness ==
  \A r \in Submissions :
    WF_vars(Handler(r)) /\ WF_vars(V!FailBump(r) /\ UNCHANGED own)

Spec == Init /\ [][Next]_vars
FairSpec == Spec /\ Fairness

-----------------------------------------------------------------------------
(* Properties.                                                             *)

Acknowledged(r) == pc[r] \in {"stored", "duplicate"}

\* A 200 is only given for a scan that has a record, and the first record of
\* a scan is never replaced: not by a retry, a concurrent submission, or a
\* Put executed after its caller gave up.
Scans == INSTANCE ScanStore WITH
  Values <- Submissions, NoValue <- None, store <- rows,
  acked <- {input[r].key : r \in {x \in Submissions : Acknowledged(x)}}
StorePromise == Scans!StoreSpec

\* At most one submission of a scan is metered as stored; the others are
\* retries ("IntegrityStored" counts scans).
StoredOnce ==
  \A r, s \in Submissions :
    pc[r] = "stored" /\ pc[s] = "stored" /\ r # s => input[r].key # input[s].key

Refused(r) == pc[r] \in {"rejected", "conflict"}

\* No probe vouches for the submission, or its device MAC is wrong.
Unproven(q) == q.tokens = {} \/ (~q.proxy /\ ~q.mac)

\* A submission refused for its evidence, its MAC or a replayed candidate
\* leaves nothing behind: no row, no archived record, no velocity hit, and
\* nothing under way that could still become one.
RejectionLeavesNoTrace ==
  \A r \in Submissions :
    Refused(r) \/ (input[r] # None /\ Unproven(input[r])) =>
      /\ \A k \in Keys : rows[k] # r
      /\ archive[r] = "none" /\ calls[r].pc = "idle"
      /\ \A k \in 1 .. PutAttempts : <<r, k>> \notin wire

\* Every record in the table had its archival started, even when its handler
\* was stopped right after the write.
StoredIsArchiving ==
  \A k \in Keys : rows[k] # None => archive[rows[k]] # "none"

\* Submissions that got past the STUN check.
PastClaim(r) ==
  pc[r] \in {"velocity", "bumping", "put", "putting", "stored", "duplicate"}

\* While a container remembers a STUN candidate, two sessions never both get
\* past it there.
SingleUse ==
  \A r, s \in Submissions :
    /\ PastClaim(r) /\ PastClaim(s) /\ host[r] = host[s]
    /\ input[r].stun = input[s].stun /\ input[r].stun # None
    /\ SessionOf(input[r].key) # SessionOf(input[s].key)
    => <<host[r], input[r].stun>> \in forgot

\* The claims of candidates, as ingestion makes and forgets them, keep the
\* promise that StunRedemption shows the tracker of a container to keep.
Claims == INSTANCE CandidateClaims WITH
  Names <- Containers \X Candidates, Claimants <- Sessions, Nobody <- None,
  holder <- [x \in Containers \X Candidates |-> tracker[x[1]][x[2]]],
  refused <- {<<<<host[r], input[r].stun>>, SessionOf(input[r].key)>> :
                r \in {x \in Submissions : pc[x] = "conflict"}}
ClaimsPromise == Claims!ClaimsSpec

\* Every submission is answered, also when the velocity store never answers.
EverySubmissionAnswered ==
  \A r \in Submissions : pc[r] \in Working ~> pc[r] \in Outcomes
=============================================================================
