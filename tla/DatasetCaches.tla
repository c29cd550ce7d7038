---------------------------- MODULE DatasetCaches ----------------------------
(***************************************************************************)
(* What one container keeps in memory of a source outside it, and how it   *)
(* is refreshed. There are six such caches, written at different times and *)
(* not alike in what expires, who shares a load and what a failed load     *)
(* leaves behind; a behaviour is about one of them.                        *)
(*                                                                         *)
(*   "overlay"  auto-overlay.ts, apple-relay.ts                            *)
(*   "dataset"  asn-classifier.ts, browser-baselines.ts                    *)
(*   "secret"   get-aws-secrets.ts                                         *)
(*   "ecdh"     get-ecdh-keys.ts                                           *)
(*   "pubkey"   token-verifier.ts                                          *)
(*   "cpi"      cpi-merchant-resolver.ts, one cpi                          *)
(*                                                                         *)
(* Time is counted in ticks of many minutes. A load that a call waits for  *)
(* takes seconds and ends before the next tick; one in the background may  *)
(* be frozen with the container and thawed much later.                     *)
(***************************************************************************)
EXTENDS Integers

CONSTANTS
  Kinds,       \* caches a behaviour may be about
  Calls,       \* concurrent callers in the container
  Ttl,         \* ticks until a cached value expires
  MaxTime,     \* bound: the last tick
  MaxVersion,  \* bound: the newest version of the source
  Nothing      \* no value, no load

ASSUME CacheAssumption ==
  /\ Kinds \subseteq {"overlay", "dataset", "secret", "ecdh", "pubkey", "cpi"}
  /\ Ttl \in Nat \ {0} /\ MaxTime \in Nat /\ MaxVersion \in Nat \ {0}

VARIABLES
  kind,      \* which cache
  now,       \* the clock
  origin,    \* the version at the source, 0 for none
  replaced,  \* history: when each version was replaced
  cached,    \* [value, at] or Nothing
  shared,    \* the load in the module's variable, or Nothing
  own,       \* per caller, the load it waits for alone, or Nothing
  call,      \* per caller, where it is, what it got and (history) whether
             \* a load failed while it waited
  failure    \* history: when a load last failed

cacheVars == <<kind, now, origin, replaced, cached, shared, own, call, failure>>

Times == 0 .. MaxTime
Versions == 0 .. MaxVersion

\* Who waits together: a promise of the module, kept in a variable.
SharesLoads == {"overlay", "dataset", "ecdh"}
\* A stale value is served while one load refreshes it behind the scenes.
Background == {"pubkey"}

\* A load is "sent", then "failed" or "read" with the version read. A promise
\* that was rejected and never cleared stays "rejected".
Sent == [is |-> "sent", version |-> 0]
Rejected == [is |-> "rejected", version |-> 0]
LoadType == [is : {"sent", "read", "failed", "rejected"}, version : Versions]
CacheType == [value : Versions, at : Times]

ASSUME NothingAssumption == Nothing \notin LoadType \cup CacheType \cup Times

CacheInit ==
  /\ kind \in Kinds
  /\ now = 0 /\ origin = 0
  /\ replaced = [v \in Versions |-> Nothing]
  /\ cached = Nothing /\ shared = Nothing
  /\ own = [c \in Calls |-> Nothing]
  /\ call = [c \in Calls |-> [pc |-> "idle", began |-> 0, got |-> 0, saw |-> FALSE]]
  /\ failure = Nothing

-----------------------------------------------------------------------------
(* The decisions of a call.                                                *)

\* Variant: The age is never looked at.
IsFreshForever == cached # Nothing

\* A cpi that was found is good for ever, any other value for Ttl ticks.
IsFresh ==
  /\ cached # Nothing
  /\ (kind = "cpi" /\ cached.value > 0) \/ now - cached.at < Ttl

Begin(c, pc, value) ==
  call' = [call EXCEPT ![c] =
             [pc |-> pc, began |-> now, got |-> value, saw |-> FALSE]]

\* A fresh value is served at once.
ServeCached(c) ==
  /\ call[c].pc \in {"idle", "served", "rejected"} /\ IsFresh
  /\ Begin(c, "served", cached.value)
  /\ UNCHANGED <<kind, now, origin, replaced, cached, shared, own, failure>>

\* A stale key is served too, and refreshed by one load at a time.
ServeStale(c) ==
  /\ kind \in Background /\ cached # Nothing /\ ~IsFresh
  /\ call[c].pc \in {"idle", "served", "rejected"}
  /\ Begin(c, "served", cached.value)
  /\ shared' = IF shared = Nothing THEN Sent ELSE shared
  /\ UNCHANGED <<kind, now, origin, replaced, cached, own, failure>>

\* One load for all: the first caller starts it, the others await the same
\* promise. One that was rejected before rejects them at once.
Join(c) ==
  /\ kind \in SharesLoads /\ ~IsFresh
  /\ call[c].pc \in {"idle", "served", "rejected"}
  /\ IF shared = Rejected
       THEN Begin(c, "rejected", 0) /\ UNCHANGED shared
       ELSE Begin(c, "joined", 0) /\ shared' = IF shared = Nothing THEN Sent ELSE shared
  /\ UNCHANGED <<kind, now, origin, replaced, cached, own, failure>>

\* A load of its own, even when another caller has one under way.
LoadAlone(c) ==
  /\ kind \notin SharesLoads /\ ~IsFresh /\ ~(kind \in Background /\ cached # Nothing)
  /\ call[c].pc \in {"idle", "served", "rejected"}
  /\ Begin(c, "own", 0)
  /\ own' = [own EXCEPT ![c] = Sent]
  /\ UNCHANGED <<kind, now, origin, replaced, cached, shared, failure>>

-----------------------------------------------------------------------------
(* The source executes a load, or it fails.                                *)

Outcomes == {[is |-> "read", version |-> origin], [is |-> "failed", version |-> 0]}

AnswerShared ==
  /\ shared = Sent
  /\ shared' \in Outcomes
  /\ UNCHANGED <<kind, now, origin, replaced, cached, own, call, failure>>

AnswerOwn(c) ==
  /\ own[c] = Sent
  /\ \E answer \in Outcomes : own' = [own EXCEPT ![c] = answer]
  /\ UNCHANGED <<kind, now, origin, replaced, cached, shared, call, failure>>

-----------------------------------------------------------------------------
(* The container takes up what came back.                                  *)

\* A source without a value: no overlay is an empty one, and an unknown cpi
\* is remembered; without dataset, secret or key the load is an error, and
\* without ECDH keys it is nothing.
Loaded(answer) ==
  answer.is = "read" /\ (answer.version > 0 \/ kind \in {"overlay", "cpi"})

\* What a load leaves in the cache. Any failure to read an overlay, too, is
\* taken for an empty overlay.
CacheAfter(answer) ==
  IF Loaded(answer) THEN [value |-> answer.version, at |-> now]
  ELSE IF kind = "overlay" THEN [value |-> 0, at |-> now] ELSE cached

\* What those who wait are answered: without new ECDH keys the old ones, or
\* none; without anything else an error.
AnswerTo(answer) ==
  IF Loaded(answer) THEN <<"served", answer.version>>
  ELSE IF kind = "overlay" THEN <<"served", 0>>
  ELSE IF kind = "ecdh" /\ answer.is = "failed" /\ cached # Nothing
    THEN <<"served", cached.value>>
  ELSE IF kind = "ecdh" THEN <<"served", 0>>
  ELSE <<"rejected", 0>>


Answered(c, answer) ==
  [call[c] EXCEPT !.pc = AnswerTo(answer)[1], !.got = AnswerTo(answer)[2],
                  !.saw = ~Loaded(answer)]

\* Variant: A rejected promise is kept for all of them.
SharedAfterKept(answer) == IF Loaded(answer) THEN Nothing ELSE Rejected

\* The promise of a dataset is cleared by its success only.
SharedAfter(answer) ==
  IF ~Loaded(answer) /\ kind = "dataset" THEN Rejected ELSE Nothing

SettleShared ==
  /\ shared \notin {Nothing, Sent, Rejected}
  /\ cached' = CacheAfter(shared)
  /\ call' = [c \in Calls |->
       IF call[c].pc = "joined" THEN Answered(c, shared) ELSE call[c]]
  /\ shared' = SharedAfter(shared)
  /\ failure' = IF Loaded(shared) THEN failure ELSE now
  /\ UNCHANGED <<kind, now, origin, replaced, own>>

SettleOwn(c) ==
  /\ own[c] \notin {Nothing, Sent}
  /\ cached' = CacheAfter(own[c])
  /\ call' = [call EXCEPT ![c] = Answered(c, own[c])]
  /\ own' = [own EXCEPT ![c] = Nothing]
  /\ failure' = IF Loaded(own[c]) THEN failure ELSE now
  /\ UNCHANGED <<kind, now, origin, replaced, shared>>

-----------------------------------------------------------------------------
(* The source and the clock.                                               *)

\* A builder, an operator or the platform writes a new version. A cpi is
\* created once and never reassigned.
Change ==
  /\ origin < (IF kind = "cpi" THEN 1 ELSE MaxVersion)
  /\ origin' = origin + 1
  /\ replaced' = [replaced EXCEPT ![origin] = now]
  /\ UNCHANGED <<kind, now, cached, shared, own, call, failure>>

CacheTick ==
  /\ now < MaxTime
  /\ \A c \in Calls : call[c].pc \notin {"joined", "own"}
  /\ now' = now + 1
  /\ UNCHANGED <<kind, origin, replaced, cached, shared, own, call, failure>>

Container ==
  \/ AnswerShared \/ SettleShared
  \/ \E c \in Calls : AnswerOwn(c) \/ SettleOwn(c)

Use ==
  \E c \in Calls : ServeCached(c) \/ ServeStale(c) \/ Join(c) \/ LoadAlone(c)

CacheNext == Container \/ Use \/ Change \/ CacheTick

-----------------------------------------------------------------------------
(* Properties.                                                             *)

\* Whether version v was at the source some time in the last Ttl ticks before
\* caller c came, or since.
WasCurrent(c, v) == replaced[v] = Nothing \/ call[c].began - replaced[v] < Ttl

\* A caller is never given what was replaced at the source a TTL ago - except
\* the key served while it is refreshed, ECDH keys when their reload failed,
\* and the empty overlay that a failed load leaves for one TTL.
StaleOnlyAfterFailure ==
  \A c \in Calls : call[c].pc = "served" /\ kind \notin Background =>
    \/ WasCurrent(c, call[c].got)
    \/ kind = "ecdh" /\ call[c].saw
    \/ /\ kind = "overlay" /\ call[c].got = 0
       /\ failure # Nothing /\ call[c].began - failure < Ttl

\* Whether a load failed while the rejected caller waited.
RejectedDuringOutage(c) == call[c].pc = "rejected" => call[c].saw

\* Once the source answers again, nobody is rejected for an outage that is
\* over: no cache but the datasets remembers a failure.
OutageForgotten == kind # "dataset" => \A c \in Calls : RejectedDuringOutage(c)

\* asn-classifier.ts: "refreshes lazily once per day". Not after one load
\* that failed: its rejected promise is what every later call awaits.
DatasetRecovers == kind = "dataset" => \A c \in Calls : RejectedDuringOutage(c)
=============================================================================
