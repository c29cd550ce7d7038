------------------------- MODULE NetworkData_proofs -------------------------
(***************************************************************************)
(* Theorems about NetworkData: for any set of callers, requests, builds,   *)
(* registries, archives and lifetimes, of the caches, of the sealed        *)
(* transport, of the ASN dataset, of the overlay and of the histograms.    *)
(***************************************************************************)
EXTENDS NetworkData, ScanValues_proofs, FiniteSetTheorems, WellFoundedInduction, TLAPS

-----------------------------------------------------------------------------
(* A container's cache: types.                                             *)

LEMMA ReaderCalls == Reader \in Calls
BY TransportAssumption DEF Reader

LEMMA TransportCaches == TransportNext => [CacheNext]_cacheVars
<1> SUFFICES ASSUME TransportNext PROVE [CacheNext]_cacheVars
  OBVIOUS
<1>1. ASSUME NEW q \in Requests, AnswerPlain(q) PROVE UNCHANGED cacheVars
  BY <1>1 DEF AnswerPlain
<1>2. ASSUME NEW q \in Requests, AskForKeys(q) PROVE ServeCached(Reader) \/ Join(Reader)
  BY <1>2 DEF AskForKeys
<1>3. CASE Decrypt \/ HandOn \/ Publish
  BY <1>3 DEF Decrypt, HandOn, Publish
<1>4. CASE Container
  BY <1>4 DEF CacheNext
<1>5. CASE Rotate
  BY <1>5 DEF Rotate, CacheNext
<1>6. CASE TransportTick
  BY <1>6 DEF TransportTick, CacheNext
<1> QED
  BY <1>1, <1>2, <1>3, <1>4, <1>5, <1>6, ReaderCalls DEF TransportNext, CacheNext, Use

LEMMA CacheMoves == [Next]_vars => [CacheNext]_cacheVars
<1> SUFFICES ASSUME [Next]_vars PROVE [CacheNext]_cacheVars
  OBVIOUS
<1>1. CASE UNCHANGED vars
  BY <1>1 DEF vars
<1>2. CASE UNCHANGED cacheVars
  BY <1>2
<1>3. CASE CacheNext
  BY <1>3
<1>4. CASE TransportNext
  BY <1>4, TransportCaches
<1> QED
  BY <1>1, <1>2, <1>3, <1>4 DEF Next

\* Every load under way is "sent", or has come back; none is kept rejected that
\* one caller waits for alone.
CallType ==
  [pc : {"idle", "served", "rejected", "joined", "own"}, began : Times,
   got : Versions, saw : BOOLEAN]
CacheTyped ==
  /\ kind \in Kinds /\ now \in Times /\ origin \in Versions
  /\ replaced \in [Versions -> Times \cup {Nothing}]
  /\ cached \in CacheType \cup {Nothing}
  /\ shared \in LoadType \cup {Nothing}
  /\ own \in [Calls -> LoadType \cup {Nothing}]
  /\ \A c \in Calls : own[c] # Nothing => own[c].is # "rejected"
  /\ shared # Nothing /\ shared.is = "rejected" => shared = Rejected
  /\ shared # Nothing /\ shared.is = "sent" => shared = Sent
  /\ \A c \in Calls : own[c] # Nothing /\ own[c].is = "sent" => own[c] = Sent
  /\ call \in [Calls -> CallType]
  /\ failure \in Times \cup {Nothing}

LEMMA LoadFacts ==
  /\ Sent \in LoadType /\ Rejected \in LoadType /\ Sent # Rejected
  /\ Sent # Nothing /\ Rejected # Nothing
  /\ origin \in Versions => Outcomes \subseteq LoadType
  /\ 0 \in Versions /\ Versions \subseteq Nat /\ Times \subseteq Nat
BY CacheAssumption, NothingAssumption
   DEF Sent, Rejected, LoadType, Outcomes, Versions, Times

LEMMA SetCall ==
  ASSUME CacheTyped, NEW c \in Calls, NEW r \in CallType
  PROVE  [call EXCEPT ![c] = r] \in [Calls -> CallType]
BY DEF CacheTyped

LEMMA BeginFacts ==
  ASSUME CacheTyped, NEW c \in Calls, NEW v \in Versions,
         NEW p \in {"served", "rejected", "joined", "own"}, Begin(c, p, v)
  PROVE  /\ call' \in [Calls -> CallType]
         /\ call'[c].pc = p /\ call'[c].began = now /\ call'[c].got = v
         /\ call'[c].saw = FALSE
         /\ \A d \in Calls \ {c} : call'[d] = call[d]
<1> DEFINE r == [pc |-> p, began |-> now, got |-> v, saw |-> FALSE]
<1>1. r \in CallType
  BY DEF CallType, CacheTyped
<1>2. call' = [call EXCEPT ![c] = r]
  BY DEF Begin
<1> HIDE DEF r
<1>3. call' \in [Calls -> CallType] /\ call'[c] = r /\ \A d \in Calls \ {c} : call'[d] = call[d]
  BY <1>1, <1>2, SetCall DEF CacheTyped
<1> QED
  BY <1>3 DEF r

\* A caller who is served at once.
LEMMA JoinFacts ==
  ASSUME CacheTyped, NEW c \in Calls, Join(c)
  PROVE  \E p \in {"rejected", "joined"} :
           /\ Begin(c, p, 0)
           /\ call'[c].pc = p /\ call'[c].began = now /\ call'[c].got = 0
           /\ \A d \in Calls \ {c} : call'[d] = call[d]
<1>1. PICK p \in {"rejected", "joined"} : Begin(c, p, 0)
  BY DEF Join
<1>2. PICK v \in Versions : v = 0
  BY LoadFacts
<1>3. p \in {"served", "rejected", "joined", "own"} /\ Begin(c, p, v)
  BY <1>1, <1>2
<1>4. call'[c].pc = p /\ call'[c].began = now /\ call'[c].got = v
  BY <1>3, BeginFacts
<1>5. \A d \in Calls \ {c} : call'[d] = call[d]
  BY <1>3, BeginFacts
<1> QED
  BY <1>1, <1>2, <1>4, <1>5

LEMMA ServedFacts ==
  ASSUME CacheTyped, NEW c \in Calls, NEW v \in Versions, Begin(c, "served", v)
  PROVE  call'[c].pc = "served" /\ \A d \in Calls \ {c} : call'[d] = call[d]
<1>1. PICK p \in {"served", "rejected", "joined", "own"} : p = "served"
  OBVIOUS
<1>2. Begin(c, p, v)
  BY <1>1
<1>3. call'[c].pc = p /\ \A d \in Calls \ {c} : call'[d] = call[d]
  BY <1>2, BeginFacts
<1> QED
  BY <1>1, <1>3

\* What came back of a load.
Returned == {a \in LoadType : a.is \in {"read", "failed"}}

LEMMA AnswerFacts ==
  ASSUME CacheTyped, NEW a \in Returned
  PROVE  /\ AnswerTo(a)[1] \in {"served", "rejected"} /\ AnswerTo(a)[2] \in Versions
         /\ CacheAfter(a) \in CacheType \cup {Nothing}
         /\ Loaded(a) \in BOOLEAN
<1>1. Loaded(a) \in BOOLEAN
  BY DEF Loaded
<1>2. a.version \in Versions /\ now \in Times /\ 0 \in Versions
  BY LoadFacts DEF Returned, LoadType, CacheTyped
<1>3. cached # Nothing => cached.value \in Versions
  BY DEF CacheTyped, CacheType
<1>4. AnswerTo(a)[1] \in {"served", "rejected"} /\ AnswerTo(a)[2] \in Versions
  <2>1. AnswerTo(a) \in {"served", "rejected"} \X Versions
    BY <1>2, <1>3 DEF AnswerTo
  <2> QED
    BY <2>1
<1>5. CacheAfter(a) \in CacheType \cup {Nothing}
  BY <1>2 DEF CacheAfter, CacheType, CacheTyped
<1> QED
  BY <1>1, <1>4, <1>5

LEMMA AnsweredType ==
  ASSUME CacheTyped, NEW c \in Calls, NEW a \in Returned
  PROVE  /\ Answered(c, a) \in CallType
         /\ Answered(c, a).pc = AnswerTo(a)[1] /\ Answered(c, a).got = AnswerTo(a)[2]
         /\ Answered(c, a).began = call[c].began /\ (Answered(c, a).saw <=> ~Loaded(a))
<1> DEFINE p == AnswerTo(a)[1]
           v == AnswerTo(a)[2]
           l == ~Loaded(a)
<1>1. p \in {"served", "rejected"} /\ v \in Versions /\ l \in BOOLEAN
  BY AnswerFacts
<1>2. Answered(c, a) = [call[c] EXCEPT !.pc = p, !.got = v, !.saw = l]
  BY DEF Answered
<1>3. call[c] \in CallType
  BY DEF CacheTyped
<1> HIDE DEF p, v, l
<1>4. /\ Answered(c, a) \in CallType /\ Answered(c, a).pc = p /\ Answered(c, a).got = v
      /\ Answered(c, a).began = call[c].began /\ Answered(c, a).saw = l
  BY <1>1, <1>2, <1>3 DEF CallType
<1> QED
  BY <1>1, <1>4 DEF p, v, l

LEMMA CacheTypeStep == CacheTyped /\ [CacheNext]_cacheVars => CacheTyped'
<1> SUFFICES ASSUME CacheTyped, [CacheNext]_cacheVars PROVE CacheTyped'
  OBVIOUS
<1>0. CacheTyped
  OBVIOUS
<1> USE DEF CacheTyped
<1>1. ASSUME NEW c \in Calls, ServeCached(c) PROVE CacheTyped'
  <2>1. cached.value \in Versions
    BY <1>1 DEF ServeCached, IsFresh, CacheType
  <2>2. call' \in [Calls -> CallType]
    BY <1>1, <2>1, BeginFacts DEF ServeCached
  <2> QED
    BY <1>1, <2>2 DEF ServeCached
<1>2. ASSUME NEW c \in Calls, ServeStale(c) PROVE CacheTyped'
  <2>1. cached.value \in Versions
    BY <1>2 DEF ServeStale, CacheType
  <2>2. call' \in [Calls -> CallType]
    BY <1>2, <2>1, BeginFacts DEF ServeStale
  <2>3. shared' = shared \/ shared' = Sent
    BY <1>2 DEF ServeStale
  <2>4. UNCHANGED <<kind, now, origin, replaced, cached, own, failure>>
    BY <1>2 DEF ServeStale
  <2>5. Sent.is = "sent" /\ Sent \in LoadType
    BY LoadFacts DEF Sent
  <2> QED
    BY <2>2, <2>3, <2>4, <2>5
<1>3. ASSUME NEW c \in Calls, Join(c) PROVE CacheTyped'
  <2>1. call' \in [Calls -> CallType]
    BY <1>3, BeginFacts, LoadFacts DEF Join
  <2>3. shared' = shared \/ shared' = Sent
    BY <1>3 DEF Join
  <2>4. UNCHANGED <<kind, now, origin, replaced, cached, own, failure>>
    BY <1>3 DEF Join
  <2>5. Sent.is = "sent" /\ Sent \in LoadType
    BY LoadFacts DEF Sent
  <2> QED
    BY <2>1, <2>3, <2>4, <2>5
<1>4. ASSUME NEW c \in Calls, LoadAlone(c) PROVE CacheTyped'
  <2>1. call' \in [Calls -> CallType]
    BY <1>4, BeginFacts, LoadFacts DEF LoadAlone
  <2>3. own' = [own EXCEPT ![c] = Sent]
    BY <1>4 DEF LoadAlone
  <2>4. UNCHANGED <<kind, now, origin, replaced, cached, shared, failure>>
    BY <1>4 DEF LoadAlone
  <2>5. Sent.is = "sent" /\ Sent \in LoadType
    BY LoadFacts DEF Sent
  <2> QED
    BY <2>1, <2>3, <2>4, <2>5
<1>5. CASE AnswerShared
  <2>1. \A a \in Outcomes : a \in LoadType /\ a.is \in {"read", "failed"}
    BY LoadFacts DEF Outcomes
  <2> QED
    BY <1>5, <2>1 DEF AnswerShared
<1>6. ASSUME NEW c \in Calls, AnswerOwn(c) PROVE CacheTyped'
  <2>1. \A a \in Outcomes : a \in LoadType /\ a.is \in {"read", "failed"}
    BY LoadFacts DEF Outcomes
  <2> QED
    BY <1>6, <2>1 DEF AnswerOwn
<1>7. CASE SettleShared
  <2>1. shared \in Returned
    BY <1>7 DEF SettleShared, Returned, LoadType
  <2>2. \A c \in Calls : Answered(c, shared) \in CallType
    BY <2>1, AnsweredType
  <2>3. call' \in [Calls -> CallType]
    BY <1>7, <2>2 DEF SettleShared
  <2>4. cached' \in CacheType \cup {Nothing}
    BY <1>7, <2>1, AnswerFacts DEF SettleShared
  <2>5. shared' = Nothing \/ (shared' = Rejected /\ Rejected \in LoadType /\ Rejected.is = "rejected")
    BY <1>7, LoadFacts DEF SettleShared, SharedAfter, Rejected
  <2> QED
    BY <1>7, <2>3, <2>4, <2>5 DEF SettleShared
<1>8. ASSUME NEW c \in Calls, SettleOwn(c) PROVE CacheTyped'
  <2>1. own[c] \in Returned
    BY <1>8 DEF SettleOwn, Returned, LoadType
  <2>3. call' \in [Calls -> CallType]
    BY <1>8, <2>1, AnsweredType, SetCall DEF SettleOwn
  <2>4. cached' \in CacheType \cup {Nothing}
    BY <1>8, <2>1, AnswerFacts DEF SettleOwn
  <2> QED
    BY <1>8, <2>3, <2>4 DEF SettleOwn
<1>9. CASE Change
  <2>1. origin + 1 \in Versions
    BY <1>9, CacheAssumption DEF Change, Versions
  <2> QED
    BY <1>9, <2>1 DEF Change
<1>10. CASE CacheTick
  <2>1. now + 1 \in Times
    BY <1>10, CacheAssumption DEF CacheTick, Times
  <2> QED
    BY <1>10, <2>1 DEF CacheTick
<1>11. CASE UNCHANGED cacheVars
  BY <1>11 DEF cacheVars
<1> QED
  BY <1>1, <1>2, <1>3, <1>4, <1>5, <1>6, <1>7, <1>8, <1>9, <1>10, <1>11
     DEF CacheNext, Container, Use

LEMMA CacheTypeInit == CacheInit => CacheTyped
<1> SUFFICES ASSUME CacheInit PROVE CacheTyped
  OBVIOUS
<1>1. 0 \in Times /\ 0 \in Versions
  BY CacheAssumption DEF Times, Versions
<1> QED
  BY <1>1 DEF CacheInit, CacheTyped, CallType

-----------------------------------------------------------------------------
(* A container's cache: failures.                                          *)

\* No cache but the datasets keeps a promise that was rejected.
NoneKeptRejected == kind # "dataset" => shared # Rejected

\* Whoever is rejected saw the failure.
LEMMA OutageStep ==
  CacheTyped /\ NoneKeptRejected /\ OutageForgotten /\ [CacheNext]_cacheVars
    => (NoneKeptRejected /\ OutageForgotten)'
<1> SUFFICES ASSUME CacheTyped, NoneKeptRejected, OutageForgotten, [CacheNext]_cacheVars,
                    kind' # "dataset"
             PROVE  shared' # Rejected /\ \A d \in Calls : RejectedDuringOutage(d)'
  BY DEF NoneKeptRejected, OutageForgotten
<1>0. kind # "dataset" /\ UNCHANGED kind
  BY DEF CacheNext, Container, Use, ServeCached, ServeStale, Join, LoadAlone, AnswerShared,
         AnswerOwn, SettleShared, SettleOwn, Change, CacheTick, cacheVars
<1>00. shared # Rejected /\ \A c \in Calls : RejectedDuringOutage(c)
  BY <1>0 DEF NoneKeptRejected, OutageForgotten
<1> USE <1>00 DEF RejectedDuringOutage
<1>1. ASSUME NEW c \in Calls,
             ServeCached(c)
      PROVE  shared' # Rejected /\ \A d \in Calls : RejectedDuringOutage(d)'
  <2>1. cached.value \in Versions
    BY <1>1, LoadFacts DEF ServeCached, IsFresh, CacheTyped, CacheType
  <2>2. PICK v \in Versions : v = cached.value
    BY <2>1
  <2>3. Begin(c, "served", v)
    BY <1>1, <2>2 DEF ServeCached
  <2>4. call'[c].pc = "served" /\ \A d \in Calls \ {c} : call'[d] = call[d]
    BY <2>3, ServedFacts
  <2> QED
    BY <1>1, <2>4 DEF ServeCached
<1>2. ASSUME NEW c \in Calls,
             ServeStale(c)
      PROVE  shared' # Rejected /\ \A d \in Calls : RejectedDuringOutage(d)'
  <2>1. cached.value \in Versions
    BY <1>2, LoadFacts DEF ServeStale, IsFresh, CacheTyped, CacheType
  <2>2. PICK v \in Versions : v = cached.value
    BY <2>1
  <2>3. Begin(c, "served", v)
    BY <1>2, <2>2 DEF ServeStale
  <2>4. call'[c].pc = "served" /\ \A d \in Calls \ {c} : call'[d] = call[d]
    BY <2>3, ServedFacts
  <2> QED
    BY <1>2, <2>4, LoadFacts DEF ServeStale
<1>3. ASSUME NEW c \in Calls,
             Join(c)
      PROVE  shared' # Rejected /\ \A d \in Calls : RejectedDuringOutage(d)'
  <2>2. Begin(c, "joined", 0)
    BY <1>3 DEF Join
  <2>3. call'[c].pc = "joined" /\ \A d \in Calls \ {c} : call'[d] = call[d]
    BY <2>2, BeginFacts, LoadFacts
  <2> QED
    BY <1>3, <2>3, LoadFacts DEF Join
<1>4. ASSUME NEW c \in Calls,
             LoadAlone(c)
      PROVE  shared' # Rejected /\ \A d \in Calls : RejectedDuringOutage(d)'
  <2>2. Begin(c, "own", 0)
    BY <1>4 DEF LoadAlone
  <2>3. call'[c].pc = "own" /\ \A d \in Calls \ {c} : call'[d] = call[d]
    BY <2>2, BeginFacts, LoadFacts
  <2> QED
    BY <1>4, <2>3 DEF LoadAlone
<1>5. CASE AnswerShared
  <2>1. \A a \in Outcomes : a # Rejected
    BY DEF Outcomes, Rejected
  <2> QED
    BY <1>5, <2>1 DEF AnswerShared
<1>6. ASSUME NEW c \in Calls,
             AnswerOwn(c)
      PROVE  shared' # Rejected /\ \A d \in Calls : RejectedDuringOutage(d)'
  BY <1>6 DEF AnswerOwn
<1>7. CASE SettleShared
  <2>1. shared \in Returned
    BY <1>7 DEF SettleShared, Returned, LoadType, CacheTyped, Rejected
  <2>2. AnswerTo(shared)[1] = "rejected" => ~Loaded(shared)
    BY DEF AnswerTo
  <2>3. \A c \in Calls : Answered(c, shared).pc = "rejected" => Answered(c, shared).saw
    BY <2>1, <2>2, AnsweredType
  <2>4. shared' # Rejected
    BY <1>7, <1>0, LoadFacts DEF SettleShared, SharedAfter
  <2> QED
    BY <1>7, <2>3, <2>4 DEF SettleShared
<1>8. ASSUME NEW c \in Calls,
             SettleOwn(c)
      PROVE  shared' # Rejected /\ \A d \in Calls : RejectedDuringOutage(d)'
  <2>1. own[c] \in Returned
    BY <1>8 DEF SettleOwn, Returned, LoadType, CacheTyped, Rejected
  <2>2. AnswerTo(own[c])[1] = "rejected" => ~Loaded(own[c])
    BY DEF AnswerTo
  <2>3. Answered(c, own[c]).pc = "rejected" => Answered(c, own[c]).saw
    BY <2>1, <2>2, AnsweredType
  <2> QED
    BY <1>8, <2>3 DEF SettleOwn, CacheTyped
<1>9. CASE Change
  BY <1>9 DEF Change
<1>10. CASE CacheTick
  BY <1>10 DEF CacheTick
<1>11. CASE UNCHANGED cacheVars
  BY <1>11 DEF cacheVars
<1> QED
  BY <1>1, <1>2, <1>3, <1>4, <1>5, <1>6, <1>7, <1>8, <1>9, <1>10, <1>11
     DEF CacheNext, Container, Use

LEMMA CacheInvariant == Spec => [](CacheTyped /\ NoneKeptRejected /\ OutageForgotten)
<1>1. Init => CacheTyped /\ NoneKeptRejected /\ OutageForgotten
  <2> SUFFICES ASSUME Init PROVE CacheTyped /\ NoneKeptRejected /\ OutageForgotten
    OBVIOUS
  <2>1. CacheTyped
    BY CacheTypeInit DEF Init
  <2>2. NoneKeptRejected /\ OutageForgotten
    BY LoadFacts DEF Init, CacheInit, NoneKeptRejected, OutageForgotten, RejectedDuringOutage
  <2> QED
    BY <2>1, <2>2
<1>2. CacheTyped /\ NoneKeptRejected /\ OutageForgotten /\ [Next]_vars
        => (CacheTyped /\ NoneKeptRejected /\ OutageForgotten)'
  BY CacheMoves, CacheTypeStep, OutageStep
<1> QED
  BY <1>1, <1>2, PTL DEF Spec

\* No cache but the datasets rejects a caller for an outage that was over when it
\* came: whoever is rejected waited for the load that failed.
THEOREM OutagesAreForgotten == Spec => []OutageForgotten
BY CacheInvariant, PTL

-----------------------------------------------------------------------------
(* A container's cache: ages.                                              *)

\* Who waits came in this tick; nobody waits alone where loads are shared, and a
\* shared load has somebody waiting for it.
Waiting ==
  /\ \A c \in Calls :
       /\ own[c] # Nothing => call[c].pc = "own"
       /\ call[c].pc = "joined" => kind \in SharesLoads
       /\ call[c].pc \in {"joined", "own"} => call[c].began = now
       /\ call[c].began <= now
  /\ kind \in SharesLoads /\ shared \notin {Nothing, Rejected} =>
       \E c \in Calls : call[c].pc = "joined"

\* Versions are replaced one after the other, a cpi never is.
Sourced ==
  /\ \A v \in Versions : v >= origin => replaced[v] = Nothing
  /\ kind = "cpi" => origin <= 1
  /\ failure # Nothing => failure <= now

\* What was read and is waited for was at the source in this tick.
Recent(v) == replaced[v] \in {Nothing, now}
ReadsAreRecent ==
  /\ kind \in SharesLoads /\ shared # Nothing /\ shared.is = "read" =>
       Recent(shared.version)
  /\ \A c \in Calls : own[c] # Nothing /\ own[c].is = "read" => Recent(own[c].version)

\* What is cached was at the source when it was cached, but for the empty overlay
\* that stands for a failure.
CachedWasCurrent ==
  cached # Nothing /\ kind \notin Background =>
    /\ cached.at <= now
    /\ \/ replaced[cached.value] = Nothing \/ replaced[cached.value] >= cached.at
       \/ /\ kind = "overlay" /\ cached.value = 0
          /\ failure # Nothing /\ failure >= cached.at

\* What a step may do to the source's history, to the clock and to the calls.
LEMMA StepFrame ==
  ASSUME CacheTyped, [CacheNext]_cacheVars
  PROVE  /\ kind' = kind /\ now' >= now
         /\ \A v \in Versions : replaced'[v] \in {replaced[v], now}
         /\ failure' \in {failure, now}
<1>0. now \in Nat /\ now >= now
  BY LoadFacts DEF CacheTyped
<1>1. ASSUME NEW c \in Calls,
             ServeCached(c)
      PROVE  kind' = kind /\ now' >= now
         /\ (\A v \in Versions : replaced'[v] \in {replaced[v], now})
         /\ failure' \in {failure, now}
  BY <1>1, <1>0 DEF ServeCached, Begin
<1>2. ASSUME NEW c \in Calls,
             ServeStale(c)
      PROVE  kind' = kind /\ now' >= now
         /\ (\A v \in Versions : replaced'[v] \in {replaced[v], now})
         /\ failure' \in {failure, now}
  BY <1>2, <1>0 DEF ServeStale, Begin
<1>3. ASSUME NEW c \in Calls,
             Join(c)
      PROVE  kind' = kind /\ now' >= now
         /\ (\A v \in Versions : replaced'[v] \in {replaced[v], now})
         /\ failure' \in {failure, now}
  BY <1>3, <1>0 DEF Join, Begin
<1>4. ASSUME NEW c \in Calls,
             LoadAlone(c)
      PROVE  kind' = kind /\ now' >= now
         /\ (\A v \in Versions : replaced'[v] \in {replaced[v], now})
         /\ failure' \in {failure, now}
  BY <1>4, <1>0 DEF LoadAlone, Begin
<1>5. CASE AnswerShared
  BY <1>5, <1>0 DEF AnswerShared
<1>6. ASSUME NEW c \in Calls,
             AnswerOwn(c)
      PROVE  kind' = kind /\ now' >= now
         /\ (\A v \in Versions : replaced'[v] \in {replaced[v], now})
         /\ failure' \in {failure, now}
  BY <1>6, <1>0 DEF AnswerOwn
<1>7. CASE SettleShared
  BY <1>7, <1>0 DEF SettleShared
<1>8. ASSUME NEW c \in Calls,
             SettleOwn(c)
      PROVE  kind' = kind /\ now' >= now
         /\ (\A v \in Versions : replaced'[v] \in {replaced[v], now})
         /\ failure' \in {failure, now}
  BY <1>8, <1>0 DEF SettleOwn
<1>9. CASE Change
  BY <1>9, <1>0 DEF Change, CacheTyped
<1>10. CASE CacheTick
  BY <1>10, <1>0 DEF CacheTick
<1>11. CASE UNCHANGED cacheVars
  BY <1>0, <1>11 DEF cacheVars
<1> QED
  BY <1>1, <1>2, <1>3, <1>4, <1>5, <1>6, <1>7, <1>8, <1>9, <1>10, <1>11
     DEF CacheNext, Container, Use

LEMMA WaitingStep == CacheTyped /\ Waiting /\ [CacheNext]_cacheVars => Waiting'
<1> SUFFICES ASSUME CacheTyped, Waiting, [CacheNext]_cacheVars PROVE Waiting'
  OBVIOUS
<1>0. now \in Nat /\ now <= now /\ \A c \in Calls : call[c].began \in Nat
  <2>1. Times \subseteq Nat
    BY LoadFacts
  <2>2. now \in Times /\ \A c \in Calls : call[c].began \in Times
    BY DEF CacheTyped, CallType
  <2>3. now \in Nat
    BY <2>1, <2>2
  <2>4. ASSUME NEW c \in Calls PROVE call[c].began \in Nat
    <3>1. call[c].began \in Times
      BY <2>2
    <3> QED
      BY <2>1, <3>1
  <2> QED
    BY <2>3, <2>4
<1>1. ASSUME NEW c \in Calls, ServeCached(c) PROVE Waiting'
  <2>0. cached.value \in Versions
    BY <1>1, LoadFacts DEF ServeCached, IsFresh, CacheTyped, CacheType
  <2>1. Begin(c, "served", cached.value)
    BY <1>1 DEF ServeCached
  <2>2. /\ call'[c].pc = "served" /\ call'[c].began = now /\ call'[c].got = cached.value
        /\ \A d \in Calls \ {c} : call'[d] = call[d]
    BY <2>0, <2>1, BeginFacts
  <2>3. own[c] = Nothing /\ call[c].pc # "joined"
    BY <1>1 DEF ServeCached, Waiting
  <2>4. UNCHANGED <<kind, now, own, shared>>
    BY <1>1 DEF ServeCached
  <2> QED
    BY <1>0, <2>2, <2>3, <2>4 DEF Waiting
<1>2. ASSUME NEW c \in Calls, ServeStale(c) PROVE Waiting'
  <2>0. cached.value \in Versions
    BY <1>2, LoadFacts DEF ServeStale, IsFresh, CacheTyped, CacheType
  <2>1. Begin(c, "served", cached.value)
    BY <1>2 DEF ServeStale
  <2>2. /\ call'[c].pc = "served" /\ call'[c].began = now /\ call'[c].got = cached.value
        /\ \A d \in Calls \ {c} : call'[d] = call[d]
    BY <2>0, <2>1, BeginFacts
  <2>3. own[c] = Nothing /\ call[c].pc # "joined" /\ kind \notin SharesLoads
    BY <1>2 DEF ServeStale, Waiting, Background, SharesLoads
  <2>4. UNCHANGED <<kind, now, own>>
    BY <1>2 DEF ServeStale
  <2> QED
    BY <1>0, <2>2, <2>3, <2>4 DEF Waiting
<1>3. ASSUME NEW c \in Calls, Join(c) PROVE Waiting'
  <2>1. PICK p \in {"rejected", "joined"} :
          /\ Begin(c, p, 0)
          /\ call'[c].pc = p /\ call'[c].began = now /\ call'[c].got = 0
          /\ \A d \in Calls \ {c} : call'[d] = call[d]
    BY <1>3, JoinFacts
  <2>2. /\ call'[c].pc = p /\ call'[c].began = now /\ call'[c].got = 0
        /\ \A d \in Calls \ {c} : call'[d] = call[d]
    BY <2>1
  <2>3. own[c] = Nothing /\ call[c].pc # "joined" /\ kind \in SharesLoads
    BY <1>3 DEF Join, Waiting
  <2>4. UNCHANGED <<kind, now, own>>
    BY <1>3 DEF Join
  <2>5. CASE shared = Rejected
    <3>1. UNCHANGED shared
      BY <1>3, <2>5 DEF Join
    <3> QED
      BY <1>0, <2>2, <2>3, <2>4, <2>5, <3>1 DEF Waiting
  <2>6. CASE shared # Rejected
    <3>1. Begin(c, "joined", 0)
      BY <1>3, <2>6 DEF Join
    <3>2. call'[c].pc = "joined"
      BY <3>1, BeginFacts, LoadFacts
    <3> QED
      BY <1>0, <2>2, <2>3, <2>4, <3>2 DEF Waiting
  <2> QED
    BY <2>5, <2>6
<1>4. ASSUME NEW c \in Calls, LoadAlone(c) PROVE Waiting'
  <2>1. Begin(c, "own", 0)
    BY <1>4 DEF LoadAlone
  <2>2. /\ call'[c].pc = "own" /\ call'[c].began = now /\ call'[c].got = 0
        /\ \A d \in Calls \ {c} : call'[d] = call[d]
    BY <2>1, BeginFacts, LoadFacts
  <2>3. call[c].pc # "joined" /\ kind \notin SharesLoads
    BY <1>4 DEF LoadAlone
  <2>4. UNCHANGED <<kind, now>> /\ own' = [own EXCEPT ![c] = Sent]
    BY <1>4 DEF LoadAlone
  <2> QED
    BY <1>0, <2>2, <2>3, <2>4 DEF Waiting, CacheTyped
<1>5. CASE AnswerShared
  <2>1. shared \notin {Nothing, Rejected}
    BY <1>5, LoadFacts DEF AnswerShared
  <2> QED
    BY <1>5, <1>0, <2>1 DEF AnswerShared, Waiting
<1>6. ASSUME NEW c \in Calls, AnswerOwn(c) PROVE Waiting'
  <2>1. own[c] # Nothing
    BY <1>6, LoadFacts DEF AnswerOwn
  <2>2. PICK a : own' = [own EXCEPT ![c] = a]
    BY <1>6 DEF AnswerOwn
  <2> QED
    BY <1>6, <1>0, <2>1, <2>2 DEF AnswerOwn, Waiting, CacheTyped
<1>7. CASE SettleShared
  <2>1. shared \in Returned
    BY <1>7 DEF SettleShared, Returned, LoadType, CacheTyped, Rejected
  <2>2. \A c \in Calls : /\ Answered(c, shared).pc \in {"served", "rejected"}
                         /\ Answered(c, shared).began = call[c].began
    BY <2>1, AnsweredType, AnswerFacts
  <2>3. shared' \in {Nothing, Rejected}
    BY <1>7 DEF SettleShared, SharedAfter
  <2>4. \A c \in Calls : call'[c] \in {call[c], Answered(c, shared)}
    BY <1>7 DEF SettleShared
  <2>5. \A c \in Calls : call[c].pc = "joined" => call'[c] = Answered(c, shared)
    BY <1>7 DEF SettleShared
  <2>6. \A c \in Calls : call[c].pc # "joined" => call'[c] = call[c]
    BY <1>7 DEF SettleShared
  <2>7. UNCHANGED <<kind, now, own>>
    BY <1>7 DEF SettleShared
  <2> QED
    BY <1>0, <2>2, <2>3, <2>5, <2>6, <2>7 DEF Waiting
<1>8. ASSUME NEW c \in Calls, SettleOwn(c) PROVE Waiting'
  <2>1. own[c] \in Returned
    BY <1>8 DEF SettleOwn, Returned, LoadType, CacheTyped
  <2>2. /\ Answered(c, own[c]).pc \in {"served", "rejected"}
        /\ Answered(c, own[c]).began = call[c].began
    BY <2>1, AnsweredType, AnswerFacts
  <2>3. call[c].pc = "own"
    BY <1>8 DEF SettleOwn, Waiting
  <2>4. call' = [call EXCEPT ![c] = Answered(c, own[c])] /\ own' = [own EXCEPT ![c] = Nothing]
    BY <1>8 DEF SettleOwn
  <2>5. UNCHANGED <<kind, now, shared>>
    BY <1>8 DEF SettleOwn
  <2> QED
    BY <1>0, <2>2, <2>3, <2>4, <2>5 DEF Waiting, CacheTyped
<1>9. CASE Change
  BY <1>9, <1>0 DEF Change, Waiting
<1>10. CASE CacheTick
  <2>1. \A c \in Calls : call[c].pc \notin {"joined", "own"}
    BY <1>10 DEF CacheTick
  <2>2. now' >= now /\ UNCHANGED <<kind, own, shared, call>> /\ now' \in Nat
    BY <1>10, <1>0 DEF CacheTick
  <2>3. ~(kind \in SharesLoads /\ shared \notin {Nothing, Rejected})
    BY <2>1 DEF Waiting
  <2>4. \A c \in Calls : call'[c].began <= now'
    BY <1>0, <2>2 DEF Waiting
  <2> QED
    BY <2>1, <2>2, <2>3, <2>4 DEF Waiting
<1>11. CASE UNCHANGED cacheVars
  BY <1>0, <1>11 DEF cacheVars, Waiting
<1> QED
  BY <1>1, <1>2, <1>3, <1>4, <1>5, <1>6, <1>7, <1>8, <1>9, <1>10, <1>11
     DEF CacheNext, Container, Use

LEMMA SourcedStep == CacheTyped /\ Sourced /\ [CacheNext]_cacheVars => Sourced'
<1> SUFFICES ASSUME CacheTyped, Sourced, [CacheNext]_cacheVars PROVE Sourced'
  OBVIOUS
<1>0. now \in Nat /\ now <= now /\ origin \in Nat /\ Versions \subseteq Nat
      /\ (failure # Nothing => failure \in Nat)
  <2>1. Times \subseteq Nat /\ Versions \subseteq Nat
    BY LoadFacts
  <2>2. now \in Times /\ origin \in Versions /\ failure \in Times \cup {Nothing}
    BY DEF CacheTyped
  <2> QED
    BY <2>1, <2>2
<1>1. ASSUME NEW c \in Calls, ServeCached(c) PROVE Sourced'
  <2>1. UNCHANGED <<kind, now, origin, replaced, failure>>
    BY <1>1 DEF ServeCached
  <2> QED
    BY <2>1 DEF Sourced
<1>2. ASSUME NEW c \in Calls, ServeStale(c) PROVE Sourced'
  <2>1. UNCHANGED <<kind, now, origin, replaced, failure>>
    BY <1>2 DEF ServeStale
  <2> QED
    BY <2>1 DEF Sourced
<1>3. ASSUME NEW c \in Calls, Join(c) PROVE Sourced'
  <2>1. UNCHANGED <<kind, now, origin, replaced, failure>>
    BY <1>3 DEF Join
  <2> QED
    BY <2>1 DEF Sourced
<1>4. ASSUME NEW c \in Calls, LoadAlone(c) PROVE Sourced'
  <2>1. UNCHANGED <<kind, now, origin, replaced, failure>>
    BY <1>4 DEF LoadAlone
  <2> QED
    BY <2>1 DEF Sourced
<1>5. CASE AnswerShared
  <2>1. UNCHANGED <<kind, now, origin, replaced, failure>>
    BY <1>5 DEF AnswerShared
  <2> QED
    BY <2>1 DEF Sourced
<1>6. ASSUME NEW c \in Calls, AnswerOwn(c) PROVE Sourced'
  <2>1. UNCHANGED <<kind, now, origin, replaced, failure>>
    BY <1>6 DEF AnswerOwn
  <2> QED
    BY <2>1 DEF Sourced
<1>7. CASE SettleShared
  <2>1. failure' = failure \/ failure' = now
    BY <1>7 DEF SettleShared
  <2>2. UNCHANGED <<kind, now, origin, replaced>>
    BY <1>7 DEF SettleShared
  <2> QED
    BY <1>0, <2>1, <2>2 DEF Sourced
<1>8. ASSUME NEW c \in Calls, SettleOwn(c) PROVE Sourced'
  <2>1. failure' = failure \/ failure' = now
    BY <1>8 DEF SettleOwn
  <2>2. UNCHANGED <<kind, now, origin, replaced>>
    BY <1>8 DEF SettleOwn
  <2> QED
    BY <1>0, <2>1, <2>2 DEF Sourced
<1>9. CASE Change
  <2>1. origin' = origin + 1 /\ replaced' = [replaced EXCEPT ![origin] = now]
    BY <1>9 DEF Change
  <2>2. kind = "cpi" => origin < 1
    BY <1>9 DEF Change
  <2>3. UNCHANGED <<kind, now, failure>>
    BY <1>9 DEF Change
  <2> QED
    BY <1>0, <2>1, <2>2, <2>3 DEF CacheTyped, Sourced
<1>10. CASE CacheTick
  <2>1. now' = now + 1 /\ UNCHANGED <<kind, origin, replaced, failure>>
    BY <1>10 DEF CacheTick
  <2> QED
    BY <1>0, <2>1 DEF Sourced
<1>11. CASE UNCHANGED cacheVars
  BY <1>11 DEF cacheVars, Sourced
<1> QED
  BY <1>1, <1>2, <1>3, <1>4, <1>5, <1>6, <1>7, <1>8, <1>9, <1>10, <1>11
     DEF CacheNext, Container, Use

LEMMA ReadsStep == CacheTyped /\ Waiting /\ Sourced /\ ReadsAreRecent /\ [CacheNext]_cacheVars => ReadsAreRecent'
<1> SUFFICES ASSUME CacheTyped, Waiting, Sourced, ReadsAreRecent, [CacheNext]_cacheVars PROVE ReadsAreRecent'
  OBVIOUS
<1>1. ASSUME NEW c \in Calls, ServeCached(c) PROVE ReadsAreRecent'
  BY <1>1 DEF ServeCached, ReadsAreRecent, Recent
<1>2. ASSUME NEW c \in Calls, ServeStale(c) PROVE ReadsAreRecent'
  <2>1. kind' \notin SharesLoads
    BY <1>2 DEF ServeStale, SharesLoads, Background
  <2> QED
    BY <1>2, <2>1 DEF ServeStale, ReadsAreRecent, Recent
<1>3. ASSUME NEW c \in Calls, Join(c) PROVE ReadsAreRecent'
  <2>1. shared' = shared \/ shared' = Sent
    BY <1>3 DEF Join
  <2>2. UNCHANGED <<kind, now, replaced, own>>
    BY <1>3 DEF Join
  <2> QED
    BY <2>1, <2>2 DEF ReadsAreRecent, Recent, Sent
<1>4. ASSUME NEW c \in Calls, LoadAlone(c) PROVE ReadsAreRecent'
  <2>1. own' = [own EXCEPT ![c] = Sent] /\ UNCHANGED <<kind, now, replaced, shared>>
    BY <1>4 DEF LoadAlone
  <2> QED
    BY <2>1 DEF ReadsAreRecent, Recent, Sent, CacheTyped
<1>5. CASE AnswerShared
  <2>1. \A a \in Outcomes : a.is = "read" => a.version = origin
    BY DEF Outcomes
  <2>2. replaced[origin] = Nothing
    BY LoadFacts DEF Sourced, CacheTyped
  <2> QED
    BY <1>5, <2>1, <2>2 DEF AnswerShared, ReadsAreRecent, Recent
<1>6. ASSUME NEW c \in Calls, AnswerOwn(c) PROVE ReadsAreRecent'
  <2>1. \A a \in Outcomes : a.is = "read" => a.version = origin
    BY DEF Outcomes
  <2>2. replaced[origin] = Nothing
    BY LoadFacts DEF Sourced, CacheTyped
  <2>3. PICK a \in Outcomes : own' = [own EXCEPT ![c] = a]
    BY <1>6 DEF AnswerOwn
  <2>4. UNCHANGED <<kind, now, replaced, shared>>
    BY <1>6 DEF AnswerOwn
  <2> QED
    BY <2>1, <2>2, <2>3, <2>4 DEF ReadsAreRecent, Recent, CacheTyped
<1>7. CASE SettleShared
  <2>1. shared' = Nothing \/ shared' = Rejected
    BY <1>7 DEF SettleShared, SharedAfter
  <2>2. UNCHANGED <<kind, now, replaced, own>>
    BY <1>7 DEF SettleShared
  <2> QED
    BY <2>1, <2>2 DEF ReadsAreRecent, Recent, Rejected
<1>8. ASSUME NEW c \in Calls, SettleOwn(c) PROVE ReadsAreRecent'
  <2>1. own' = [own EXCEPT ![c] = Nothing] /\ UNCHANGED <<kind, now, replaced, shared>>
    BY <1>8 DEF SettleOwn
  <2> QED
    BY <2>1 DEF ReadsAreRecent, Recent, CacheTyped
<1>9. CASE Change
  <2>1. \A v \in Versions : replaced'[v] \in {replaced[v], now}
    BY StepFrame
  <2> QED
    BY <1>9, <2>1 DEF Change, ReadsAreRecent, Recent, CacheTyped, LoadType
<1>10. CASE CacheTick
  <2>1. \A c \in Calls : own[c] = Nothing /\ call[c].pc # "joined"
    BY <1>10 DEF CacheTick, Waiting
  <2>2. kind \in SharesLoads => shared \in {Nothing, Rejected}
    BY <2>1 DEF Waiting
  <2> QED
    BY <1>10, <2>1, <2>2 DEF CacheTick, ReadsAreRecent, Rejected
<1>11. CASE UNCHANGED cacheVars
  BY <1>11 DEF cacheVars, ReadsAreRecent, Recent
<1> QED
  BY <1>1, <1>2, <1>3, <1>4, <1>5, <1>6, <1>7, <1>8, <1>9, <1>10, <1>11
     DEF CacheNext, Container, Use

\* Only shared and background loads are in the module's variable.
SharedNeedsKind == kind \in Background \cup SharesLoads \/ shared = Nothing

LEMMA NeedsKindStep == CacheTyped /\ SharedNeedsKind /\ [CacheNext]_cacheVars => SharedNeedsKind'
<1> SUFFICES ASSUME CacheTyped, SharedNeedsKind, [CacheNext]_cacheVars PROVE SharedNeedsKind'
  OBVIOUS
<1>1. ASSUME NEW c \in Calls, ServeCached(c) PROVE SharedNeedsKind'
  BY <1>1 DEF ServeCached, Begin, SharedNeedsKind
<1>2. ASSUME NEW c \in Calls, ServeStale(c) PROVE SharedNeedsKind'
  BY <1>2 DEF ServeStale, Begin, SharedNeedsKind
<1>3. ASSUME NEW c \in Calls, Join(c) PROVE SharedNeedsKind'
  BY <1>3 DEF Join, Begin, SharedNeedsKind
<1>4. ASSUME NEW c \in Calls, LoadAlone(c) PROVE SharedNeedsKind'
  BY <1>4 DEF LoadAlone, Begin, SharedNeedsKind
<1>5. CASE AnswerShared
  BY <1>5, LoadFacts DEF AnswerShared, SharedNeedsKind
<1>6. ASSUME NEW c \in Calls, AnswerOwn(c) PROVE SharedNeedsKind'
  BY <1>6 DEF AnswerOwn, SharedNeedsKind
<1>7. CASE SettleShared
  BY <1>7 DEF SettleShared, SharedNeedsKind
<1>8. ASSUME NEW c \in Calls, SettleOwn(c) PROVE SharedNeedsKind'
  BY <1>8 DEF SettleOwn, SharedNeedsKind
<1>9. CASE Change
  BY <1>9 DEF Change, SharedNeedsKind
<1>10. CASE CacheTick
  BY <1>10 DEF CacheTick, SharedNeedsKind
<1>11. CASE UNCHANGED cacheVars
  BY <1>11 DEF cacheVars, SharedNeedsKind
<1> QED
  BY <1>1, <1>2, <1>3, <1>4, <1>5, <1>6, <1>7, <1>8, <1>9, <1>10, <1>11
     DEF CacheNext, Container, Use

LEMMA CachedStep == CacheTyped /\ SharedNeedsKind /\ ReadsAreRecent /\ CachedWasCurrent /\ [CacheNext]_cacheVars => CachedWasCurrent'
<1> SUFFICES ASSUME CacheTyped, SharedNeedsKind, ReadsAreRecent, CachedWasCurrent, [CacheNext]_cacheVars PROVE CachedWasCurrent'
  OBVIOUS
<1>0. now \in Nat /\ now <= now /\ now # Nothing /\ (cached # Nothing => cached.at \in Nat)
  <2>1. Times \subseteq Nat
    BY LoadFacts
  <2>2. now \in Nat /\ now # Nothing
    BY <2>1, NothingAssumption DEF CacheTyped
  <2>3. cached # Nothing => cached.at \in Nat
    <3>1. cached # Nothing => cached.at \in Times
      BY DEF CacheTyped, CacheType
    <3> QED
      BY <2>1, <3>1
  <2> QED
    BY <2>2, <2>3
<1>00. kind \notin Background /\ kind \notin SharesLoads => shared = Nothing
  BY DEF SharedNeedsKind
<1>1. ASSUME NEW c \in Calls, ServeCached(c) PROVE CachedWasCurrent'
  <2>1. UNCHANGED <<kind, now, replaced, failure, cached>>
    BY <1>1 DEF ServeCached
  <2> QED
    BY <2>1 DEF CachedWasCurrent
<1>2. ASSUME NEW c \in Calls, ServeStale(c) PROVE CachedWasCurrent'
  <2>1. UNCHANGED <<kind, now, replaced, failure, cached>>
    BY <1>2 DEF ServeStale
  <2> QED
    BY <2>1 DEF CachedWasCurrent
<1>3. ASSUME NEW c \in Calls, Join(c) PROVE CachedWasCurrent'
  <2>1. UNCHANGED <<kind, now, replaced, failure, cached>>
    BY <1>3 DEF Join
  <2> QED
    BY <2>1 DEF CachedWasCurrent
<1>4. ASSUME NEW c \in Calls, LoadAlone(c) PROVE CachedWasCurrent'
  <2>1. UNCHANGED <<kind, now, replaced, failure, cached>>
    BY <1>4 DEF LoadAlone
  <2> QED
    BY <2>1 DEF CachedWasCurrent
<1>5. CASE AnswerShared
  <2>1. UNCHANGED <<kind, now, replaced, failure, cached>>
    BY <1>5 DEF AnswerShared
  <2> QED
    BY <2>1 DEF CachedWasCurrent
<1>6. ASSUME NEW c \in Calls, AnswerOwn(c) PROVE CachedWasCurrent'
  <2>1. UNCHANGED <<kind, now, replaced, failure, cached>>
    BY <1>6 DEF AnswerOwn
  <2> QED
    BY <2>1 DEF CachedWasCurrent
<1>7. CASE SettleShared
  <2>1. shared \in Returned
    BY <1>7 DEF SettleShared, Returned, LoadType, CacheTyped, Rejected
  <2>2. cached' = CacheAfter(shared) /\ UNCHANGED <<kind, now, replaced>>
    BY <1>7 DEF SettleShared
  <2>3. CASE Loaded(shared)
    <3>1. cached' = [value |-> shared.version, at |-> now]
      BY <2>2, <2>3 DEF CacheAfter
    <3>2. shared.is = "read"
      BY <2>3 DEF Loaded
    <3>4. shared # Nothing
      BY <1>7 DEF SettleShared
    <3>3. kind \notin Background => replaced[shared.version] \in {Nothing, now}
      BY <3>2, <3>4, <1>00 DEF ReadsAreRecent, Recent
    <3> QED
      BY <1>0, <2>2, <3>1, <3>3 DEF CachedWasCurrent
  <2>4. CASE ~Loaded(shared) /\ kind = "overlay"
    <3>1. cached' = [value |-> 0, at |-> now] /\ failure' = now
      BY <1>7, <2>2, <2>4 DEF CacheAfter, SettleShared
    <3> QED
      BY <1>0, <2>2, <2>4, <3>1 DEF CachedWasCurrent
  <2>5. CASE ~Loaded(shared) /\ kind # "overlay"
    <3>1. cached' = cached
      BY <2>2, <2>5 DEF CacheAfter
    <3> QED
      BY <2>2, <2>5, <3>1 DEF CachedWasCurrent
  <2> QED
    BY <2>3, <2>4, <2>5
<1>8. ASSUME NEW c \in Calls, SettleOwn(c) PROVE CachedWasCurrent'
  <2>1. own[c] \in Returned
    BY <1>8 DEF SettleOwn, Returned, LoadType, CacheTyped, Rejected
  <2>2. cached' = CacheAfter(own[c]) /\ UNCHANGED <<kind, now, replaced>>
    BY <1>8 DEF SettleOwn
  <2>3. CASE Loaded(own[c])
    <3>1. cached' = [value |-> own[c].version, at |-> now]
      BY <2>2, <2>3 DEF CacheAfter
    <3>2. own[c].is = "read"
      BY <2>3 DEF Loaded
    <3>4. own[c] # Nothing
      BY <1>8 DEF SettleOwn
    <3>3. kind \notin Background => replaced[own[c].version] \in {Nothing, now}
      BY <3>2, <3>4, <1>00 DEF ReadsAreRecent, Recent
    <3> QED
      BY <1>0, <2>2, <3>1, <3>3 DEF CachedWasCurrent
  <2>4. CASE ~Loaded(own[c]) /\ kind = "overlay"
    <3>1. cached' = [value |-> 0, at |-> now] /\ failure' = now
      BY <1>8, <2>2, <2>4 DEF CacheAfter, SettleOwn
    <3> QED
      BY <1>0, <2>2, <2>4, <3>1 DEF CachedWasCurrent
  <2>5. CASE ~Loaded(own[c]) /\ kind # "overlay"
    <3>1. cached' = cached
      BY <2>2, <2>5 DEF CacheAfter
    <3> QED
      BY <2>2, <2>5, <3>1 DEF CachedWasCurrent
  <2> QED
    BY <2>3, <2>4, <2>5
<1>9. CASE Change
  <2>1. \A v \in Versions : replaced'[v] \in {replaced[v], now}
    BY StepFrame
  <2>2. cached # Nothing => cached.value \in Versions
    BY DEF CacheTyped, CacheType
  <2> QED
    BY <1>9, <2>1, <2>2, <1>0 DEF Change, CachedWasCurrent
<1>10. CASE CacheTick
  <2>1. now' = now + 1 /\ UNCHANGED <<kind, replaced, failure, cached>>
    BY <1>10 DEF CacheTick
  <2> QED
    BY <1>0, <2>1 DEF CachedWasCurrent
<1>11. CASE UNCHANGED cacheVars
  BY <1>11 DEF cacheVars, CachedWasCurrent
<1> QED
  BY <1>1, <1>2, <1>3, <1>4, <1>5, <1>6, <1>7, <1>8, <1>9, <1>10, <1>11
     DEF CacheNext, Container, Use

\* What one caller was served.
ServedFresh(c) ==
  call[c].pc = "served" /\ kind \notin Background =>
    \/ WasCurrent(c, call[c].got)
    \/ kind = "ecdh" /\ call[c].saw
    \/ /\ kind = "overlay" /\ call[c].got = 0
       /\ failure # Nothing /\ call[c].began - failure < Ttl

LEMMA ServedFreshStays ==
  ASSUME CacheTyped, Waiting, [CacheNext]_cacheVars, NEW c \in Calls,
         ServedFresh(c), call'[c] = call[c]
  PROVE  ServedFresh(c)'
<1>1. /\ kind' = kind /\ failure' \in {failure, now}
      /\ \A v \in Versions : replaced'[v] \in {replaced[v], now}
  BY StepFrame
<1>2. call[c].began \in Nat /\ now \in Nat /\ call[c].began <= now /\ Ttl \in Nat \ {0}
  <2>1. Times \subseteq Nat
    BY LoadFacts
  <2>2. call[c].began \in Times /\ now \in Times
    BY DEF CacheTyped, CallType
  <2> QED
    BY <2>1, <2>2, CacheAssumption DEF Waiting
<1>3. call[c].got \in Versions
  BY DEF CacheTyped, CallType
<1>4. WasCurrent(c, call[c].got) => WasCurrent(c, call[c].got)'
  BY <1>1, <1>2, <1>3 DEF WasCurrent
<1>5. failure # Nothing /\ call[c].began - failure < Ttl =>
        failure' # Nothing /\ call[c].began - failure' < Ttl
  <2>1. now # Nothing
    BY NothingAssumption DEF CacheTyped
  <2> QED
    BY <1>1, <1>2, <2>1
<1> QED
  BY <1>1, <1>4, <1>5 DEF ServedFresh

\* A value that is served because it is fresh.
LEMMA FreshIsCurrent ==
  ASSUME CacheTyped, Sourced, CachedWasCurrent, IsFresh, kind \notin Background
  PROVE  \/ replaced[cached.value] = Nothing \/ now - replaced[cached.value] < Ttl
         \/ /\ kind = "overlay" /\ cached.value = 0
            /\ failure # Nothing /\ now - failure < Ttl
<1>1. cached # Nothing /\ cached.value \in Versions /\ cached.at \in Times
  BY DEF IsFresh, CacheTyped, CacheType
<1>2. Times \subseteq Nat /\ Versions \subseteq Nat
  BY LoadFacts
<1>3. now \in Nat /\ cached.at \in Nat /\ cached.value \in Nat /\ Ttl \in Nat /\ origin \in Nat
  BY <1>1, <1>2, CacheAssumption DEF CacheTyped
<1>4. CASE kind = "cpi" /\ cached.value > 0
  <2>1. cached.value >= origin
    BY <1>3, <1>4 DEF Sourced
  <2> QED
    BY <1>1, <2>1 DEF Sourced
<1>5. CASE now - cached.at < Ttl
  <2>1. replaced[cached.value] \in Nat \cup {Nothing} /\ failure \in Nat \cup {Nothing}
    BY <1>1, <1>2 DEF CacheTyped
  <2> QED
    BY <1>1, <1>3, <1>5, <2>1 DEF CachedWasCurrent
<1> QED
  BY <1>4, <1>5 DEF IsFresh

\* What a load that was waited for brings.
LEMMA AnswerIsCurrent ==
  ASSUME CacheTyped, SharedNeedsKind, NEW c \in Calls, NEW a \in Returned,
         call[c].began = now, kind \notin Background,
         a.is = "read" => Recent(a.version),
         UNCHANGED <<kind, replaced>>,
         call'[c] = Answered(c, a), failure' = IF Loaded(a) THEN failure ELSE now
  PROVE  ServedFresh(c)'
<1>1. /\ call'[c].pc = AnswerTo(a)[1] /\ call'[c].got = AnswerTo(a)[2]
      /\ call'[c].began = now /\ (call'[c].saw <=> ~Loaded(a))
  BY AnsweredType
<1>2. now \in Nat /\ Ttl \in Nat \ {0} /\ now - now = 0 /\ 0 < Ttl /\ now # Nothing
  <2>1. now \in Nat
    BY LoadFacts DEF CacheTyped
  <2> QED
    BY <2>1, CacheAssumption, NothingAssumption DEF CacheTyped
<1>3. CASE Loaded(a)
  <2>1. AnswerTo(a) = <<"served", a.version>>
    BY <1>3 DEF AnswerTo
  <2>2. replaced[a.version] = Nothing \/ replaced[a.version] = now
    BY <1>3 DEF Loaded, Recent
  <2> QED
    BY <1>1, <1>2, <2>1, <2>2 DEF ServedFresh, WasCurrent
<1>4. CASE ~Loaded(a) /\ kind = "overlay"
  <2>1. AnswerTo(a) = <<"served", 0>>
    BY <1>4 DEF AnswerTo
  <2> QED
    BY <1>1, <1>2, <1>4, <2>1 DEF ServedFresh
<1>5. CASE ~Loaded(a) /\ kind = "ecdh"
  BY <1>1, <1>5 DEF ServedFresh
<1>6. CASE ~Loaded(a) /\ kind \notin {"overlay", "ecdh"}
  <2>1. AnswerTo(a) = <<"rejected", 0>>
    BY <1>6 DEF AnswerTo
  <2> QED
    BY <1>1, <2>1 DEF ServedFresh
<1> QED
  BY <1>3, <1>4, <1>5, <1>6

LEMMA StaleStep == CacheTyped /\ SharedNeedsKind /\ Waiting /\ Sourced /\ ReadsAreRecent /\ CachedWasCurrent /\ StaleOnlyAfterFailure /\ [CacheNext]_cacheVars => StaleOnlyAfterFailure'
<1> SUFFICES ASSUME CacheTyped, SharedNeedsKind, Waiting, Sourced, ReadsAreRecent, CachedWasCurrent, StaleOnlyAfterFailure, [CacheNext]_cacheVars PROVE StaleOnlyAfterFailure'
  OBVIOUS
<1> SUFFICES \A c \in Calls : ServedFresh(c)'
  BY DEF StaleOnlyAfterFailure, ServedFresh
<1>0. \A c \in Calls : call'[c] = call[c] => ServedFresh(c)'
  BY ServedFreshStays DEF StaleOnlyAfterFailure, ServedFresh
<1>1. ASSUME NEW c \in Calls, ServeCached(c) PROVE \A x \in Calls : ServedFresh(x)'
  <2>0. cached.value \in Versions
    BY <1>1, LoadFacts DEF ServeCached, IsFresh, CacheTyped, CacheType
  <2>1. Begin(c, "served", cached.value)
    BY <1>1 DEF ServeCached
  <2>2. /\ call'[c].pc = "served" /\ call'[c].began = now /\ call'[c].got = cached.value
        /\ \A d \in Calls \ {c} : call'[d] = call[d]
    BY <2>0, <2>1, BeginFacts
  <2>3. kind \notin Background =>
          \/ replaced[cached.value] = Nothing \/ now - replaced[cached.value] < Ttl
          \/ /\ kind = "overlay" /\ cached.value = 0
             /\ failure # Nothing /\ now - failure < Ttl
    BY <1>1, FreshIsCurrent DEF ServeCached
  <2>4. UNCHANGED <<kind, replaced, failure>>
    BY <1>1 DEF ServeCached
  <2>5. ServedFresh(c)'
    BY <2>2, <2>3, <2>4 DEF ServedFresh, WasCurrent
  <2> QED
    BY <1>0, <2>2, <2>5
<1>2. ASSUME NEW c \in Calls, ServeStale(c) PROVE \A x \in Calls : ServedFresh(x)'
  <2>0. cached.value \in Versions
    BY <1>2, LoadFacts DEF ServeStale, IsFresh, CacheTyped, CacheType
  <2>1. Begin(c, "served", cached.value)
    BY <1>2 DEF ServeStale
  <2>2. /\ call'[c].pc = "served" /\ call'[c].began = now /\ call'[c].got = cached.value
        /\ \A d \in Calls \ {c} : call'[d] = call[d]
    BY <2>0, <2>1, BeginFacts
  <2>5. ServedFresh(c)'
    BY <1>2 DEF ServedFresh, ServeStale
  <2> QED
    BY <1>0, <2>2, <2>5
<1>3. ASSUME NEW c \in Calls, Join(c) PROVE \A x \in Calls : ServedFresh(x)'
  <2>1. PICK p \in {"rejected", "joined"} :
          /\ Begin(c, p, 0)
          /\ call'[c].pc = p /\ call'[c].began = now /\ call'[c].got = 0
          /\ \A d \in Calls \ {c} : call'[d] = call[d]
    BY <1>3, JoinFacts
  <2>2. /\ call'[c].pc = p /\ call'[c].began = now /\ call'[c].got = 0
        /\ \A d \in Calls \ {c} : call'[d] = call[d]
    BY <2>1
  <2>5. ServedFresh(c)'
    BY <2>1, <2>2 DEF ServedFresh
  <2> QED
    BY <1>0, <2>2, <2>5
<1>4. ASSUME NEW c \in Calls, LoadAlone(c) PROVE \A x \in Calls : ServedFresh(x)'
  <2>1. Begin(c, "own", 0)
    BY <1>4 DEF LoadAlone
  <2>2. /\ call'[c].pc = "own" /\ call'[c].began = now /\ call'[c].got = 0
        /\ \A d \in Calls \ {c} : call'[d] = call[d]
    BY <2>1, BeginFacts, LoadFacts
  <2>5. ServedFresh(c)'
    BY <2>1, <2>2 DEF ServedFresh
  <2> QED
    BY <1>0, <2>2, <2>5
<1>5. CASE AnswerShared
  <2>1. UNCHANGED call
    BY <1>5 DEF AnswerShared
  <2> QED
    BY <1>0, <2>1
<1>6. ASSUME NEW c \in Calls, AnswerOwn(c) PROVE \A x \in Calls : ServedFresh(x)'
  <2>1. UNCHANGED call
    BY <1>6 DEF AnswerOwn
  <2> QED
    BY <1>0, <2>1
<1>7. CASE SettleShared
  <2>1. shared \in Returned
    BY <1>7 DEF SettleShared, Returned, LoadType, CacheTyped, Rejected
  <2>2. UNCHANGED <<kind, replaced>> /\ failure' = IF Loaded(shared) THEN failure ELSE now
    BY <1>7 DEF SettleShared
  <2>3. ASSUME NEW c \in Calls, call[c].pc = "joined" PROVE ServedFresh(c)'
    <3>1. call'[c] = Answered(c, shared)
      BY <1>7, <2>3 DEF SettleShared
    <3>2. kind \in SharesLoads /\ call[c].began = now
      BY <2>3 DEF Waiting
    <3>3. kind \notin Background /\ (shared.is = "read" => Recent(shared.version))
      BY <1>7, <3>2 DEF SharesLoads, Background, ReadsAreRecent, SettleShared
    <3> QED
      BY <2>1, <2>2, <3>1, <3>2, <3>3, AnswerIsCurrent
  <2>4. ASSUME NEW c \in Calls, call[c].pc # "joined" PROVE ServedFresh(c)'
    <3>1. call'[c] = call[c]
      BY <1>7, <2>4 DEF SettleShared
    <3> QED
      BY <1>0, <3>1
  <2> QED
    BY <2>3, <2>4
<1>8. ASSUME NEW c \in Calls, SettleOwn(c) PROVE \A x \in Calls : ServedFresh(x)'
  <2>1. own[c] \in Returned
    BY <1>8 DEF SettleOwn, Returned, LoadType, CacheTyped
  <2>2. UNCHANGED <<kind, replaced>> /\ failure' = IF Loaded(own[c]) THEN failure ELSE now
    BY <1>8 DEF SettleOwn
  <2>3. call' = [call EXCEPT ![c] = Answered(c, own[c])]
    BY <1>8 DEF SettleOwn
  <2>4. call'[c] = Answered(c, own[c]) /\ \A d \in Calls \ {c} : call'[d] = call[d]
    BY <2>3 DEF CacheTyped
  <2>5. call[c].began = now /\ (own[c].is = "read" => Recent(own[c].version))
    BY <1>8 DEF SettleOwn, Waiting, ReadsAreRecent
  <2>6. ServedFresh(c)'
    <3>1. CASE kind \in Background
      BY <2>2, <3>1 DEF ServedFresh
    <3>2. CASE kind \notin Background
      BY <2>1, <2>2, <2>4, <2>5, <3>2, AnswerIsCurrent
    <3> QED
      BY <3>1, <3>2
  <2> QED
    BY <1>0, <2>4, <2>6
<1>9. CASE Change
  <2>1. UNCHANGED call
    BY <1>9 DEF Change
  <2> QED
    BY <1>0, <2>1
<1>10. CASE CacheTick
  <2>1. UNCHANGED call
    BY <1>10 DEF CacheTick
  <2> QED
    BY <1>0, <2>1
<1>11. CASE UNCHANGED cacheVars
  BY <1>0, <1>11 DEF cacheVars
<1> QED
  BY <1>1, <1>2, <1>3, <1>4, <1>5, <1>6, <1>7, <1>8, <1>9, <1>10, <1>11
     DEF CacheNext, Container, Use

Ages ==
  /\ SharedNeedsKind /\ Waiting /\ Sourced /\ ReadsAreRecent /\ CachedWasCurrent
  /\ StaleOnlyAfterFailure

LEMMA AgesInvariant == Spec => []Ages
<1>1. Init => Ages
  <2> SUFFICES ASSUME Init PROVE Ages
    OBVIOUS
  <2>1. 0 <= 0 /\ 0 <= 1
    OBVIOUS
  <2>2. CacheInit
    BY DEF Init
  <2>3. SharedNeedsKind /\ Waiting /\ Sourced
    BY <2>1, <2>2 DEF CacheInit, SharedNeedsKind, Waiting, Sourced
  <2>4. ReadsAreRecent /\ CachedWasCurrent /\ StaleOnlyAfterFailure
    BY <2>2 DEF CacheInit, ReadsAreRecent, CachedWasCurrent, StaleOnlyAfterFailure
  <2> QED
    BY <2>3, <2>4 DEF Ages
<1>2. CacheTyped /\ Ages /\ [Next]_vars => Ages'
  BY CacheMoves, NeedsKindStep, WaitingStep, SourcedStep, ReadsStep, CachedStep, StaleStep
     DEF Ages
<1> QED
  BY <1>1, <1>2, CacheInvariant, PTL DEF Spec

\* A caller is given what was at the source in the last TTL, or later; of the
\* caches whose owner does not wait for the reload, and of those that swallow
\* a failure, only what the property names.
THEOREM StaleValuesAreExcused == Spec => []StaleOnlyAfterFailure
<1>1. Ages => StaleOnlyAfterFailure
  BY DEF Ages
<1> QED
  BY <1>1, AgesInvariant, PTL

-----------------------------------------------------------------------------
(* The sealed transport: what a request is answered.                       *)

LEMMA DivBounds ==
  ASSUME NEW T \in Nat \ {0}, NEW t \in Int
  PROVE  /\ t \div T \in Int
         /\ T * (t \div T) <= t /\ t < T * (t \div T) + T
OBVIOUS

LEMMA MulMono ==
  ASSUME NEW T \in Nat, NEW a \in Int, NEW b \in Int, a <= b
  PROVE  T * a \in Int /\ T * b \in Int /\ T * a <= T * b
<1>1. T * (b - a) >= 0
  OBVIOUS
<1>2. T * (b - a) = T * b - T * a
  OBVIOUS
<1> QED
  BY <1>1, <1>2

\* What was sealed up to a day ago is of today or of yesterday.
LEMMA LatelyIsSalted ==
  ASSUME NEW t \in Int, NEW age \in 0 .. TicksPerDay
  PROVE  DayOf(t - age) \in {DayOf(t), DayOf(t) - 1}
<1> DEFINE T == TicksPerDay
           d == t \div T
           e == (t - age) \div T
<1>1. T \in Nat \ {0} /\ age \in Int /\ 0 <= age /\ age <= T
  BY TransportAssumption
<1>2. d \in Int /\ T * d <= t /\ t < T * d + T
  BY <1>1, DivBounds
<1>3. e \in Int /\ T * e <= t - age /\ t - age < T * e + T
  <2>1. t - age \in Int
    BY <1>1
  <2> QED
    BY <1>1, <2>1, DivBounds
<1> HIDE DEF d, e, T
<1>4. ~(e >= d + 1)
  <2> SUFFICES ASSUME e >= d + 1 PROVE FALSE
    OBVIOUS
  <2>1. T * (d + 1) <= T * e /\ T * e \in Int
    BY <1>1, <1>2, <1>3, MulMono
  <2>2. T * (d + 1) = T * d + T /\ T * d \in Int
    BY <1>1, <1>2
  <2> QED
    BY <1>1, <1>2, <1>3, <2>1, <2>2
<1>5. ~(e <= d - 2)
  <2> SUFFICES ASSUME e <= d - 2 PROVE FALSE
    OBVIOUS
  <2>1. T * e <= T * (d - 2) /\ T * e \in Int
    BY <1>1, <1>2, <1>3, MulMono
  <2>2. T * (d - 2) = T * d - 2 * T /\ T * d \in Int
    BY <1>1, <1>2
  <2> QED
    BY <1>1, <1>2, <1>3, <2>1, <2>2
<1>6. e = d \/ e = d - 1
  BY <1>2, <1>3, <1>4, <1>5
<1> QED
  BY <1>6 DEF DayOf, d, e, T

\* What is of today or of yesterday was sealed in the last two days.
LEMMA SaltedIsLate ==
  ASSUME NEW t \in Int, NEW age \in Int, DayOf(t - age) \in {DayOf(t), DayOf(t) - 1}
  PROVE  age < 2 * TicksPerDay
<1> DEFINE T == TicksPerDay
           d == t \div T
           e == (t - age) \div T
<1>1. T \in Nat \ {0}
  BY TransportAssumption
<1>2. d \in Int /\ T * d <= t /\ t < T * d + T
  BY <1>1, DivBounds
<1>3. e \in Int /\ T * e <= t - age /\ t - age < T * e + T
  <2>1. t - age \in Int
    OBVIOUS
  <2> QED
    BY <1>1, <2>1, DivBounds
<1>4. e = d \/ e = d - 1
  BY DEF DayOf
<1> HIDE DEF d, e, T
<1>5. T * (d - 1) <= T * e /\ T * e \in Int
  BY <1>1, <1>2, <1>3, <1>4, MulMono
<1>6. T * (d - 1) = T * d - T /\ T * d \in Int
  BY <1>1, <1>2
<1>7. age < 2 * T
  BY <1>1, <1>2, <1>3, <1>5, <1>6
<1> QED
  BY <1>7 DEF T

LEMMA OpenSealedIs ==
  ASSUME NEW q, NEW v
  PROVE  OpenSealed(q, v) =
           IF v = 0 THEN "503"
           ELSE IF q.integrity /\ ~RequireV3(q) THEN "400"
           ELSE IF ~Decrypts(q, Keyring(v)) THEN "400" ELSE "parsed"
<1> DEFINE p == <<<<v = 0, "503">>,
                  <<q.integrity /\ ~RequireV3(q), "400">>,
                  <<~Decrypts(q, Keyring(v)), "400">>,
                  <<TRUE, "parsed">>>>
<1>1. OpenSealed(q, v) = OneOf(p)
  BY DEF OpenSealed
<1>2. DOMAIN p = 1 .. 4 /\ p[4][1]
  OBVIOUS
<1>3. (p[1][1] <=> v = 0) /\ p[1][2] = "503"
  OBVIOUS
<1>4. (p[2][1] <=> q.integrity /\ ~RequireV3(q)) /\ p[2][2] = "400"
  OBVIOUS
<1>5. (p[3][1] <=> ~Decrypts(q, Keyring(v))) /\ p[3][2] = "400" /\ p[4][2] = "parsed"
  OBVIOUS
<1> HIDE DEF p
<1>6. /\ p[1][1] => OneOf(p) = p[1][2]
      /\ ~p[1][1] /\ p[2][1] => OneOf(p) = p[2][2]
      /\ ~p[1][1] /\ ~p[2][1] /\ p[3][1] => OneOf(p) = p[3][2]
      /\ ~p[1][1] /\ ~p[2][1] /\ ~p[3][1] => OneOf(p) = p[4][2]
  BY <1>2, OneOfFour
<1> QED
  BY <1>1, <1>3, <1>4, <1>5, <1>6

\* Nothing that is plain is handed on as a scan.
LEMMA PlainIsRefused ==
  ASSUME NEW q, q.integrity
  PROVE  OpenPlain(q) = "415"
<1> DEFINE p == <<<<q.integrity, "415">>, <<q.octet, Decompress(q)>>,
                  <<Faulty(q, {"large"}), "413">>, <<TRUE, Parsed(q)>>>>
<1>1. OpenPlain(q) = OneOf(p)
  BY DEF OpenPlain
<1>2. DOMAIN p = 1 .. 4
  OBVIOUS
<1>3. p[1][1] /\ p[1][2] = "415"
  OBVIOUS
<1>4. p[4][1]
  OBVIOUS
<1> HIDE DEF p
<1>5. OneOf(p) = p[1][2]
  BY <1>2, <1>3, <1>4, OneOfFour
<1> QED
  BY <1>1, <1>3, <1>5

LEMMA KeyringFacts ==
  ASSUME NEW v \in Nat, NEW p \in Keyring(v)
  PROVE  v # 0 /\ p \in Nat /\ 1 <= p /\ p <= v
BY DEF Keyring

-----------------------------------------------------------------------------
(* The sealed transport: its invariant.                                    *)

\* No value is newer than its source.
KnownVersions ==
  /\ cached # Nothing => cached.value <= origin
  /\ shared # Nothing => shared.version <= origin
  /\ \A c \in Calls : (own[c] # Nothing => own[c].version <= origin) /\ call[c].got <= origin


LEMMA KnownStep == CacheTyped /\ KnownVersions /\ [CacheNext]_cacheVars => KnownVersions'
<1> SUFFICES ASSUME CacheTyped, KnownVersions, [CacheNext]_cacheVars PROVE KnownVersions'
  OBVIOUS
<1>00. \A v \in Versions : v \in Nat
  BY LoadFacts
<1>0. origin \in Nat /\ 0 <= origin /\ origin <= origin
  BY <1>00 DEF CacheTyped
<1>1. ASSUME NEW c \in Calls, ServeCached(c) PROVE KnownVersions'
  <2>0. cached.value \in Versions
    BY <1>1, LoadFacts DEF ServeCached, IsFresh, CacheTyped, CacheType
  <2>1. Begin(c, "served", cached.value)
    BY <1>1 DEF ServeCached
  <2>2. /\ call'[c].pc = "served" /\ call'[c].began = now /\ call'[c].got = cached.value
        /\ \A d \in Calls \ {c} : call'[d] = call[d]
    BY <2>0, <2>1, BeginFacts
  <2>3. call'[c].got <= origin
    BY <1>1, <1>0, <2>2 DEF ServeCached, IsFresh, KnownVersions
  <2>4. \A d \in Calls : call'[d].got <= origin
    BY <2>2, <2>3 DEF KnownVersions
  <2> QED
    BY <1>1, <1>0, <2>4 DEF ServeCached, KnownVersions, Sent, CacheTyped
<1>2. ASSUME NEW c \in Calls, ServeStale(c) PROVE KnownVersions'
  <2>0. cached.value \in Versions
    BY <1>2, LoadFacts DEF ServeStale, IsFresh, CacheTyped, CacheType
  <2>1. Begin(c, "served", cached.value)
    BY <1>2 DEF ServeStale
  <2>2. /\ call'[c].pc = "served" /\ call'[c].began = now /\ call'[c].got = cached.value
        /\ \A d \in Calls \ {c} : call'[d] = call[d]
    BY <2>0, <2>1, BeginFacts
  <2>3. call'[c].got <= origin
    BY <1>2, <1>0, <2>2 DEF ServeStale, IsFresh, KnownVersions
  <2>4. \A d \in Calls : call'[d].got <= origin
    BY <2>2, <2>3 DEF KnownVersions
  <2> QED
    BY <1>2, <1>0, <2>4 DEF ServeStale, KnownVersions, Sent, CacheTyped
<1>3. ASSUME NEW c \in Calls, Join(c) PROVE KnownVersions'
  <2>1. PICK p \in {"rejected", "joined"} :
          /\ Begin(c, p, 0)
          /\ call'[c].pc = p /\ call'[c].began = now /\ call'[c].got = 0
          /\ \A d \in Calls \ {c} : call'[d] = call[d]
    BY <1>3, JoinFacts
  <2>2. /\ call'[c].pc = p /\ call'[c].began = now /\ call'[c].got = 0
        /\ \A d \in Calls \ {c} : call'[d] = call[d]
    BY <2>1
  <2>3. call'[c].got <= origin
    BY <1>3, <1>0, <2>2 DEF Join, IsFresh, KnownVersions
  <2>4. \A d \in Calls : call'[d].got <= origin
    BY <2>2, <2>3 DEF KnownVersions
  <2> QED
    BY <1>3, <1>0, <2>4 DEF Join, KnownVersions, Sent, CacheTyped
<1>4. ASSUME NEW c \in Calls, LoadAlone(c) PROVE KnownVersions'
  <2>1. Begin(c, "own", 0)
    BY <1>4 DEF LoadAlone
  <2>2. /\ call'[c].pc = "own" /\ call'[c].began = now /\ call'[c].got = 0
        /\ \A d \in Calls \ {c} : call'[d] = call[d]
    BY <2>1, BeginFacts, LoadFacts
  <2>3. call'[c].got <= origin
    BY <1>4, <1>0, <2>2 DEF LoadAlone, IsFresh, KnownVersions
  <2>4. \A d \in Calls : call'[d].got <= origin
    BY <2>2, <2>3 DEF KnownVersions
  <2> QED
    BY <1>4, <1>0, <2>4 DEF LoadAlone, KnownVersions, Sent, CacheTyped
<1>5. CASE AnswerShared
  <2>1. \A a \in Outcomes : a.version <= origin
    BY <1>0 DEF Outcomes
  <2> QED
    BY <1>5, <2>1 DEF AnswerShared, KnownVersions
<1>6. ASSUME NEW c \in Calls, AnswerOwn(c) PROVE KnownVersions'
  <2>1. \A a \in Outcomes : a.version <= origin
    BY <1>0 DEF Outcomes
  <2>2. PICK a \in Outcomes : own' = [own EXCEPT ![c] = a]
    BY <1>6 DEF AnswerOwn
  <2>3. UNCHANGED <<origin, cached, shared, call>>
    BY <1>6 DEF AnswerOwn
  <2> QED
    BY <2>1, <2>2, <2>3 DEF KnownVersions, CacheTyped
<1>7. CASE SettleShared
  <2>1. shared \in Returned /\ shared # Nothing
    BY <1>7 DEF SettleShared, Returned, LoadType, CacheTyped, Rejected
  <2>2. AnswerTo(shared)[2] \in {shared.version, 0} \cup (IF cached = Nothing THEN {} ELSE {cached.value})
    BY DEF AnswerTo
  <2>3. AnswerTo(shared)[2] <= origin
    BY <1>0, <2>1, <2>2 DEF KnownVersions
  <2>4. cached' \in {cached, [value |-> shared.version, at |-> now], [value |-> 0, at |-> now]}
    BY <1>7 DEF SettleShared, CacheAfter
  <2>5. cached' # Nothing => cached'.value <= origin
    BY <1>0, <2>1, <2>4 DEF KnownVersions
  <2>6. \A c \in Calls : call'[c].got <= origin
    <3> SUFFICES ASSUME NEW c \in Calls PROVE call'[c].got <= origin
      OBVIOUS
    <3>1. call'[c] = Answered(c, shared) \/ call'[c] = call[c]
      BY <1>7 DEF SettleShared
    <3>2. Answered(c, shared).got = AnswerTo(shared)[2]
      BY <2>1, AnsweredType
    <3> QED
      BY <2>3, <3>1, <3>2 DEF KnownVersions
  <2>7. shared' # Nothing => shared'.version <= origin
    BY <1>7, <1>0 DEF SettleShared, SharedAfter, Rejected
  <2>8. UNCHANGED <<origin, own>>
    BY <1>7 DEF SettleShared
  <2> QED
    BY <2>5, <2>6, <2>7, <2>8 DEF KnownVersions
<1>8. ASSUME NEW c \in Calls, SettleOwn(c) PROVE KnownVersions'
  <2>1. own[c] \in Returned /\ own[c] # Nothing
    BY <1>8 DEF SettleOwn, Returned, LoadType, CacheTyped, Rejected
  <2>2. AnswerTo(own[c])[2] \in {own[c].version, 0} \cup (IF cached = Nothing THEN {} ELSE {cached.value})
    BY DEF AnswerTo
  <2>3. AnswerTo(own[c])[2] <= origin
    BY <1>0, <2>1, <2>2 DEF KnownVersions
  <2>4. cached' \in {cached, [value |-> own[c].version, at |-> now], [value |-> 0, at |-> now]}
    BY <1>8 DEF SettleOwn, CacheAfter
  <2>5. cached' # Nothing => cached'.value <= origin
    BY <1>0, <2>1, <2>4 DEF KnownVersions
  <2>6. Answered(c, own[c]).got = AnswerTo(own[c])[2]
    BY <2>1, AnsweredType
  <2>7. call' = [call EXCEPT ![c] = Answered(c, own[c])]
    BY <1>8 DEF SettleOwn
  <2>8. \A d \in Calls : call'[d].got <= origin
    BY <2>3, <2>6, <2>7 DEF KnownVersions, CacheTyped
  <2>9. UNCHANGED <<origin, shared>> /\ own' = [own EXCEPT ![c] = Nothing]
    BY <1>8 DEF SettleOwn
  <2> QED
    BY <2>5, <2>8, <2>9 DEF KnownVersions, CacheTyped
<1>9. CASE Change
  <2>1. origin' = origin + 1 /\ UNCHANGED <<cached, shared, own, call>>
    BY <1>9 DEF Change
  <2>2. \A c \in Calls : call[c].got \in Nat /\ (own[c] # Nothing => own[c].version \in Nat)
    BY <1>00 DEF CacheTyped, CallType, LoadType
  <2>3. (cached # Nothing => cached.value \in Nat) /\ (shared # Nothing => shared.version \in Nat)
    BY <1>00 DEF CacheTyped, CacheType, LoadType
  <2> QED
    BY <1>0, <2>1, <2>2, <2>3 DEF KnownVersions
<1>10. CASE CacheTick
  BY <1>10 DEF CacheTick, KnownVersions
<1>11. CASE UNCHANGED cacheVars
  BY <1>11 DEF cacheVars, KnownVersions
<1> QED
  BY <1>1, <1>2, <1>3, <1>4, <1>5, <1>6, <1>7, <1>8, <1>9, <1>10, <1>11
     DEF CacheNext, Container, Use

\* A container without the transport's part has no request; with it, it keeps ECDH
\* keys, and whoever was answered with a look at the keys still holds them.
Answering ==
  /\ part = "transport" => kind = "ecdh"
  /\ part # "transport" => request = None
  /\ request = None => status = None
  /\ request \in Requests \cup {None}
  /\ request # None /\ status # None /\ NeedsKeys(request) => held.pc = "served"

\* A step keeps what a call that was served holds, as long as it asks for nothing.
LEMMA HeldStays ==
  ASSUME CacheTyped, Waiting, held.pc = "served", Container
  PROVE  held' = held
<1>1. ASSUME NEW c \in Calls, AnswerOwn(c) PROVE UNCHANGED call
  BY <1>1 DEF AnswerOwn
<1>2. CASE AnswerShared
  BY <1>2 DEF AnswerShared, held
<1>3. CASE SettleShared
  BY <1>3, ReaderCalls DEF SettleShared, held
<1>4. ASSUME NEW c \in Calls, SettleOwn(c) PROVE held' = held
  <2>1. call[c].pc = "own"
    BY <1>4 DEF SettleOwn, Waiting
  <2>2. c # Reader
    BY <2>1 DEF held
  <2> QED
    BY <1>4, <2>2, ReaderCalls DEF SettleOwn, held, CacheTyped
<1> QED
  BY <1>1, <1>2, <1>3, <1>4 DEF Container, held

LEMMA RotateKeeps ==
  ASSUME CacheTyped, Waiting, Rotate, NEW v \in 0 .. origin
  PROVE  /\ Keyring(v)' = Keyring(v)
         /\ WasCurrent(Reader, v) => WasCurrent(Reader, v)'
<1>1. /\ origin' = origin + 1 /\ UNCHANGED call
      /\ replaced' = [replaced EXCEPT ![origin] = now]
      /\ keeping' = keeping \/ keeping' = keeping \cup {origin'}
  BY DEF Rotate, Change
<1>2. origin \in Nat /\ now \in Nat /\ Ttl \in Nat \ {0}
  BY LoadFacts, CacheAssumption DEF CacheTyped
<1>3. v \in keeping' <=> v \in keeping
  BY <1>1, <1>2
<1>4. call[Reader].began \in Nat /\ call[Reader].began <= now
  <2>1. call[Reader].began \in Times
    BY ReaderCalls DEF CacheTyped, CallType
  <2> QED
    BY <2>1, ReaderCalls, LoadFacts DEF Waiting
<1>5. replaced'[v] = replaced[v] \/ replaced'[v] = now
  BY <1>1 DEF CacheTyped
<1>6. WasCurrent(Reader, v) => WasCurrent(Reader, v)'
  BY <1>1, <1>2, <1>4, <1>5 DEF WasCurrent
<1> QED
  BY <1>3, <1>6 DEF Keyring

\* What was opened is the seal's work; and a genuine scan is opened with any ring
\* that was current.
LEMMA DecryptSeals ==
  ASSUME CacheTyped, KnownVersions, StaleOnlyAfterFailure, Answering,
         part = "transport", Decrypt
  PROVE  SealHolds'
<1> DEFINE q == request
           v == held.got
<1>1. /\ request # None /\ held.pc = "served" /\ status' = OpenSealed(q, v)
      /\ UNCHANGED <<request, call, origin, replaced, keeping, now>>
  BY DEF Decrypt, cacheVars
<1>2. request \in Requests /\ (q.body # None => q.body.age \in Int)
  BY <1>1, RequestsAssumption DEF Answering
<1>3. v \in Nat /\ v <= origin /\ origin \in Nat /\ now \in Int
  <2>1. held.got \in Versions /\ origin \in Versions /\ now \in Times
    BY ReaderCalls DEF CacheTyped, CallType, held
  <2>2. held.got \in Nat /\ origin \in Nat /\ now \in Nat
    BY <2>1, LoadFacts
  <2> QED
    BY <2>2, ReaderCalls DEF KnownVersions, held
<1>4. /\ v = 0 => status' = "503"
      /\ v # 0 /\ q.integrity /\ ~RequireV3(q) => status' = "400"
      /\ v # 0 /\ ~(q.integrity /\ ~RequireV3(q)) /\ ~Decrypts(q, Keyring(v)) => status' = "400"
      /\ v # 0 /\ ~(q.integrity /\ ~RequireV3(q)) /\ Decrypts(q, Keyring(v)) => status' = "parsed"
  BY <1>1, OpenSealedIs
<1>5. ASSUME Genuine(q), ~held.saw,
             \A u \in 0 .. origin : WasCurrent(Reader, u) => q.body.pair \in Keyring(u)
      PROVE  status' = "parsed"
  <2>1. kind = "ecdh"
    BY DEF Answering
  <2>2. WasCurrent(Reader, v)
    <3>1. call[Reader].pc = "served" /\ ~call[Reader].saw /\ kind \notin Background
      BY <1>1, <1>5, <2>1 DEF held, Background
    <3>2. WasCurrent(Reader, call[Reader].got)
      BY <2>1, <3>1, ReaderCalls DEF StaleOnlyAfterFailure
    <3> QED
      BY <3>2 DEF held
  <2>3. q.body.pair \in Keyring(v)
    BY <1>3, <1>5, <2>2
  <2>4. v # 0
    BY <1>3, <2>3, KeyringFacts
  <2>5. q.integrity /\ RequireV3(q)
    BY <1>5 DEF Genuine, RequireV3
  <2>6. DayOf(now - q.body.age) \in Salts
    BY <1>3, <1>5, LatelyIsSalted DEF Genuine, Salts
  <2>7. ~Faulty(q, {"no JSON"})
    BY <1>5 DEF Genuine, Faulty
  <2>8. Decrypts(q, Keyring(v))
    BY <1>5, <2>3, <2>5, <2>6, <2>7 DEF Genuine, Decrypts
  <2> QED
    BY <1>4, <2>4, <2>5, <2>8
<1>6. GenuineIsOpened'
  BY <1>1, <1>5 DEF GenuineIsOpened, Genuine, NeedsKeys, held, WasCurrent, Keyring
<1>7. ASSUME status' = "parsed", q.integrity
      PROVE  /\ q.body # None /\ q.body.pair \in 1 .. origin /\ q.body.age < 2 * TicksPerDay
             /\ q.body.origin = q.origin /\ q.body.seed = q.session
  <2>1. v # 0 /\ Decrypts(q, Keyring(v))
    BY <1>4, <1>7
  <2>2. q.body # None /\ q.body.pair \in Keyring(v) /\ q.body.origin = q.origin
        /\ q.body.seed = q.session /\ DayOf(now - q.body.age) \in Salts
    BY <1>7, <2>1 DEF Decrypts
  <2>3. q.body.pair \in 1 .. origin
    BY <1>3, <2>2, KeyringFacts
  <2>4. q.body.age < 2 * TicksPerDay
    BY <1>2, <1>3, <2>2, SaltedIsLate DEF Salts
  <2> QED
    BY <2>2, <2>3, <2>4
<1>8. OpenedIsSealed'
  BY <1>1, <1>7 DEF OpenedIsSealed
<1> QED
  BY <1>6, <1>8 DEF SealHolds

\* Without an answer there is nothing to show, and neither is there for what no
\* key was asked for.
LEMMA NoStatusHolds == status = None => SealHolds
BY RequestsAssumption DEF SealHolds, GenuineIsOpened, OpenedIsSealed

LEMMA PrimedNoStatus == status' = None => SealHolds'
BY RequestsAssumption DEF SealHolds, GenuineIsOpened, OpenedIsSealed

LEMMA TransportNextHolds ==
  ASSUME CacheTyped, Ages, KnownVersions, Answering, SealHolds, part = "transport",
         part' = part, TransportNext
  PROVE  (Answering /\ SealHolds)'
<1>0. kind' = kind
  BY TransportCaches, StepFrame
<1>00. kind = "ecdh" /\ (request = None => status = None) /\ request \in Requests \cup {None}
  BY DEF Answering
<1>000. (status' = None => SealHolds') /\ \A q \in Requests : q # None
  BY RequestsAssumption, PrimedNoStatus
<1>1. ASSUME NEW q \in Requests, AnswerPlain(q) PROVE (Answering /\ SealHolds)'
  <2>1. request' = q /\ status' = OpenPlain(q) /\ ~NeedsKeys(q)
    BY <1>1 DEF AnswerPlain, Arrives
  <2>2. ~NeedsKeys(request)'
    BY <2>1 DEF NeedsKeys
  <2>3. GenuineIsOpened'
    BY <2>2 DEF GenuineIsOpened, Genuine
  <2>4. q.integrity => status' # "parsed"
    BY <2>1, PlainIsRefused
  <2>5. OpenedIsSealed'
    BY <2>1, <2>4 DEF OpenedIsSealed
  <2> QED
    BY <1>0, <1>00, <1>000, <2>1, <2>2, <2>3, <2>5 DEF Answering, SealHolds
<1>2. ASSUME NEW q \in Requests, AskForKeys(q) PROVE (Answering /\ SealHolds)'
  <2>1. request' = q /\ request = None /\ UNCHANGED status
    BY <1>2 DEF AskForKeys, Arrives
  <2> QED
    BY <1>0, <1>00, <1>000, <2>1 DEF Answering
<1>3. CASE Decrypt
  <2>1. SealHolds'
    BY <1>3, DecryptSeals DEF Ages
  <2>2. UNCHANGED <<request, call>> /\ request # None /\ held.pc = "served"
    BY <1>3 DEF Decrypt, cacheVars
  <2> QED
    BY <1>0, <1>00, <2>1, <2>2 DEF Answering, held
<1>4. CASE HandOn
  <2>1. request' = None /\ status' = None
    BY <1>4 DEF HandOn
  <2> QED
    BY <1>0, <1>00, <1>000, <2>1 DEF Answering
<1>5. CASE Container /\ UNCHANGED transportVars
  <2>1. UNCHANGED <<request, status, keeping, origin, replaced>>
    BY <1>5 DEF transportVars, Container, AnswerShared, SettleShared, AnswerOwn, SettleOwn
  <2>2. CASE status = None
    BY <1>0, <1>00, <1>000, <2>1, <2>2 DEF Answering
  <2>3. CASE status # None /\ NeedsKeys(request)
    <3>1. held.pc = "served" /\ request # None
      BY <1>00, <2>3 DEF Answering
    <3>2. held' = held
      BY <1>5, <3>1, HeldStays DEF Ages
    <3>3. SealHolds'
      BY <2>1, <3>2 DEF SealHolds, GenuineIsOpened, OpenedIsSealed, WasCurrent, Keyring, held,
                        Genuine, NeedsKeys
    <3> QED
      BY <1>0, <1>00, <2>1, <3>1, <3>2, <3>3 DEF Answering
  <2>4. CASE status # None /\ ~NeedsKeys(request)
    <3>1. ~NeedsKeys(request)'
      BY <2>1, <2>4 DEF NeedsKeys
    <3>2. GenuineIsOpened'
      BY <3>1 DEF GenuineIsOpened, Genuine
    <3>3. OpenedIsSealed'
      BY <2>1 DEF OpenedIsSealed, SealHolds
    <3> QED
      BY <1>0, <1>00, <2>1, <3>1, <3>2, <3>3 DEF Answering, SealHolds
  <2> QED
    BY <2>2, <2>3, <2>4
<1>6. CASE Rotate
  <2>1. origin' = origin + 1 /\ UNCHANGED <<request, status, call>> /\ origin \in Nat
    BY <1>6, LoadFacts DEF Rotate, Change, CacheTyped
  <2>2. \A v \in 0 .. origin : /\ Keyring(v)' = Keyring(v)
                               /\ WasCurrent(Reader, v) => WasCurrent(Reader, v)'
    BY <1>6, RotateKeeps DEF Ages
  <2>3. ASSUME status # None, Genuine(request), ~held.saw,
               \A v \in 0 .. origin' : WasCurrent(Reader, v)' => request.body.pair \in Keyring(v)'
        PROVE  status = "parsed"
    <3>1. \A v \in 0 .. origin : v \in 0 .. origin'
      BY <2>1
    <3>2. \A v \in 0 .. origin : WasCurrent(Reader, v) => request.body.pair \in Keyring(v)
      BY <2>2, <2>3, <3>1
    <3> QED
      BY <2>3, <3>2 DEF SealHolds, GenuineIsOpened
  <2>4. GenuineIsOpened'
    BY <2>1, <2>3 DEF GenuineIsOpened, Genuine, NeedsKeys, held
  <2>5. OpenedIsSealed'
    BY <2>1 DEF SealHolds, OpenedIsSealed
  <2> QED
    BY <1>0, <1>00, <2>1, <2>4, <2>5 DEF Answering, SealHolds, held
<1>7. CASE Publish
  <2>1. UNCHANGED <<keeping, request, status, cacheVars>>
    BY <1>7 DEF Publish
  <2>2. SealHolds'
    BY <2>1 DEF SealHolds, GenuineIsOpened, OpenedIsSealed, WasCurrent, Keyring, held,
                Genuine, NeedsKeys, cacheVars
  <2> QED
    BY <1>0, <1>00, <2>1, <2>2 DEF Answering, held, cacheVars
<1>8. CASE TransportTick
  <2>1. request = None /\ UNCHANGED <<request, status>>
    BY <1>8 DEF TransportTick, transportVars
  <2> QED
    BY <1>0, <1>00, <1>000, <2>1 DEF Answering
<1> QED
  BY <1>1, <1>2, <1>3, <1>4, <1>5, <1>6, <1>7, <1>8 DEF TransportNext

LEMMA SealStep ==
  CacheTyped /\ Ages /\ KnownVersions /\ Answering /\ SealHolds /\ [Next]_vars
    => (Answering /\ SealHolds)'
<1> SUFFICES ASSUME CacheTyped, Ages, KnownVersions, Answering, SealHolds, [Next]_vars
             PROVE  (Answering /\ SealHolds)'
  OBVIOUS
<1>1. CASE part = "transport" /\ TransportNext /\ part' = part
  BY <1>1, TransportNextHolds
<1>2. CASE UNCHANGED <<part, transportVars, cacheVars>>
  <2>1. SealHolds'
    BY <1>2 DEF SealHolds, GenuineIsOpened, OpenedIsSealed, WasCurrent, Keyring, held,
                Genuine, NeedsKeys, transportVars, cacheVars
  <2> QED
    BY <1>2, <2>1 DEF Answering, held, transportVars, cacheVars
<1>3. CASE part = "caches" /\ UNCHANGED <<part, transportVars>>
  <2>1. request = None /\ status = None /\ UNCHANGED <<request, status, part>>
    BY <1>3 DEF Answering, transportVars
  <2> QED
    BY <1>3, <2>1, NoStatusHolds, PrimedNoStatus DEF Answering
<1> QED
  BY <1>1, <1>2, <1>3 DEF Next, vars

LEMMA SealInvariant == Spec => [](KnownVersions /\ Answering /\ SealHolds)
<1>1. Init => KnownVersions /\ Answering /\ SealHolds
  <2> SUFFICES ASSUME Init PROVE KnownVersions /\ Answering /\ SealHolds
    OBVIOUS
  <2>1. KnownVersions
    BY DEF Init, CacheInit, KnownVersions
  <2>2. Answering
    BY DEF Init, TransportInit, Answering
  <2>3. SealHolds
    BY NoStatusHolds DEF Init, TransportInit
  <2> QED
    BY <2>1, <2>2, <2>3
<1>2. /\ CacheTyped /\ Ages /\ KnownVersions /\ Answering /\ SealHolds /\ [Next]_vars
      => (KnownVersions /\ Answering /\ SealHolds)'
  BY CacheMoves, KnownStep, SealStep
<1> QED
  BY <1>1, <1>2, CacheInvariant, AgesInvariant, PTL DEF Spec

\* Every genuine scan is opened, across midnight and across the rotations its pair
\* outlives, and every scan that is opened was sealed lately for its session.
THEOREM SealsHold == Spec => []SealHolds
BY SealInvariant, PTL

-----------------------------------------------------------------------------
(* The ASN dataset: what PeeringDB said outlives its outages.              *)

BuildType ==
  [pc : {"idle", "fetched", "built", "uploaded", "failed"}, asns : AsnDicts,
   orgs : OrgDicts, pdb : PdbDicts, mismatches : Mismatches, base : Nat \cup {Absent}]

AsnTyped ==
  /\ asnFile \in FileType \cup {Absent} /\ writes \in Nat
  /\ build \in [Builds -> BuildType]

\* A file was written when there is one; a build knows the last file it looked at,
\* and has taken PeeringDB's part from it if it had none itself.
CarriesForward ==
  /\ writes > 0 => asnFile # Absent
  /\ \A b \in Builds :
       /\ build[b].pc \in {"idle", "fetched"} => build[b].base = Absent
       /\ build[b].base \in Nat => build[b].base <= writes
       /\ build[b].pc = "built" /\ build[b].base = writes /\ writes > 0 /\ asnFile.pdb # <<>>
            => build[b].pdb # <<>>

LEMMA NoBuildTyped ==
  /\ NoBuild \in BuildType /\ NoBuild.base = Absent
  /\ \A to \in {"uploaded", "failed"} :
       /\ [NoBuild EXCEPT !.pc = to] \in BuildType
       /\ [NoBuild EXCEPT !.pc = to].base = Absent /\ [NoBuild EXCEPT !.pc = to].pc = to
BY DEF NoBuild, BuildType, AsnDicts, OrgDicts, PdbDicts, Mismatches

\* One build moves, the others stay.
LEMMA SetBuild ==
  ASSUME AsnTyped, NEW b \in Builds, NEW r \in BuildType, build' = [build EXCEPT ![b] = r]
  PROVE  /\ build' \in [Builds -> BuildType] /\ build'[b] = r
         /\ \A x \in Builds \ {b} : build'[x] = build[x]
BY DEF AsnTyped

LEMMA FetchFacts ==
  ASSUME AsnTyped, CarriesForward, NEW b \in Builds, FetchSources(b)
  PROVE  (AsnTyped /\ CarriesForward)'
<1>1. UNCHANGED <<asnFile, writes>> /\ build[b].pc = "idle"
  BY DEF FetchSources
<1>2. PICK r \in BuildType :
        /\ build' = [build EXCEPT ![b] = r]
        /\ r.pc \in {"fetched", "failed"} /\ r.base = Absent
  <2>1. CASE build' = [build EXCEPT ![b] = [NoBuild EXCEPT !.pc = "failed"]]
    BY <2>1, NoBuildTyped
  <2>2. CASE build' # [build EXCEPT ![b] = [NoBuild EXCEPT !.pc = "failed"]]
    <3>1. PICK rows \in AsnTables, pdb \in PdbAnswers \cup {<<>>} :
            build' = [build EXCEPT ![b] =
              [@ EXCEPT !.pc = "fetched", !.pdb = pdb,
                        !.asns = BuildClassificationDict(ParseAsnTable(rows)),
                        !.orgs = BuildOrgsDict(ParseAsnTable(rows)),
                        !.mismatches = CountMismatches(
                          BuildClassificationDict(ParseAsnTable(rows)), pdb)]]
      BY <2>2 DEF FetchSources
    <3> DEFINE d == BuildClassificationDict(ParseAsnTable(rows))
               g == BuildOrgsDict(ParseAsnTable(rows))
               n == CountMismatches(d, pdb)
               r == [build[b] EXCEPT !.pc = "fetched", !.pdb = pdb, !.asns = d, !.orgs = g,
                                     !.mismatches = n]
    <3>2. d \in AsnDicts /\ g \in OrgDicts /\ pdb \in PdbDicts
      BY DEF AsnDicts, OrgDicts, PdbDicts
    <3>3. n \in Mismatches
      BY <3>2 DEF Mismatches
    <3>4. build' = [build EXCEPT ![b] = r]
      BY <3>1
    <3> HIDE DEF d, g, n
    <3>5. r \in BuildType /\ r.pc = "fetched" /\ r.base = build[b].base
      BY <3>2, <3>3 DEF AsnTyped, BuildType
    <3>6. build[b].base = Absent
      BY <1>1 DEF CarriesForward
    <3> HIDE DEF r
    <3> QED
      BY <3>4, <3>5, <3>6
  <2> QED
    BY <2>1, <2>2
<1>3. /\ build' \in [Builds -> BuildType] /\ build'[b] = r
      /\ \A x \in Builds \ {b} : build'[x] = build[x]
  BY <1>2, SetBuild
<1> QED
  BY <1>1, <1>2, <1>3, AbsentAssumption DEF AsnTyped, CarriesForward

LEMMA CarryFacts ==
  ASSUME AsnTyped, CarriesForward, NEW b \in Builds, CarryForward(b)
  PROVE  (AsnTyped /\ CarriesForward)'
<1>1. UNCHANGED <<asnFile, writes>> /\ build[b].pc = "fetched"
  BY DEF CarryForward
<1>2. writes \in Nat /\ writes <= writes /\ build[b] \in BuildType /\ build[b].base = Absent
  BY <1>1 DEF AsnTyped, CarriesForward
<1>3. CASE build' = [build EXCEPT ![b] = [@ EXCEPT !.pc = "built", !.pdb = Carried(b),
                                                   !.base = writes]]
  <2> DEFINE p == Carried(b)
             r == [build[b] EXCEPT !.pc = "built", !.pdb = p, !.base = writes]
  <2>1. p \in PdbDicts
    BY <1>2 DEF Carried, AsnTyped, BuildType, FileType
  <2>2. writes > 0 /\ asnFile.pdb # <<>> => p # <<>>
    BY DEF Carried, CarriesForward
  <2>3. build' = [build EXCEPT ![b] = r]
    BY <1>3
  <2> HIDE DEF p
  <2>4. r \in BuildType /\ r.pc = "built" /\ r.base = writes /\ r.pdb = p
    BY <1>2, <2>1 DEF BuildType
  <2> HIDE DEF r
  <2>5. /\ build' \in [Builds -> BuildType] /\ build'[b] = r
        /\ \A x \in Builds \ {b} : build'[x] = build[x]
    BY <2>3, <2>4, SetBuild
  <2> QED
    BY <1>1, <1>2, <2>2, <2>4, <2>5 DEF AsnTyped, CarriesForward
<1>4. CASE build' = [build EXCEPT ![b] = [@ EXCEPT !.pc = "built"]]
  <2> DEFINE r == [build[b] EXCEPT !.pc = "built"]
  <2>1. r \in BuildType /\ r.pc = "built" /\ r.base = Absent
    BY <1>2 DEF BuildType
  <2>2. build' = [build EXCEPT ![b] = r]
    BY <1>4
  <2> HIDE DEF r
  <2>3. /\ build' \in [Builds -> BuildType] /\ build'[b] = r
        /\ \A x \in Builds \ {b} : build'[x] = build[x]
    BY <2>1, <2>2, SetBuild
  <2> QED
    BY <1>1, <1>2, <2>1, <2>3, AbsentAssumption DEF AsnTyped, CarriesForward
<1> QED
  BY <1>3, <1>4 DEF CarryForward

LEMMA UploadFacts ==
  ASSUME AsnTyped, CarriesForward, NEW b \in Builds, Upload(b)
  PROVE  (AsnTyped /\ CarriesForward)'
<1>1. PICK to \in {"uploaded", "failed"} : build' = [build EXCEPT ![b] = [NoBuild EXCEPT !.pc = to]]
  BY DEF Upload
<1> DEFINE r == [NoBuild EXCEPT !.pc = to]
<1>2. r \in BuildType /\ r.base = Absent /\ r.pc \in {"uploaded", "failed"}
  BY NoBuildTyped
<1>3. build' = [build EXCEPT ![b] = r]
  BY <1>1
<1> HIDE DEF r
<1>4. /\ build' \in [Builds -> BuildType] /\ build'[b] = r
      /\ \A x \in Builds \ {b} : build'[x] = build[x]
  BY <1>2, <1>3, SetBuild
<1>5. CASE UNCHANGED <<asnFile, writes>>
  BY <1>2, <1>4, <1>5, AbsentAssumption DEF AsnTyped, CarriesForward
<1>6. CASE /\ asnFile' = [asns |-> build[b].asns, orgs |-> build[b].orgs, pdb |-> build[b].pdb,
                          mismatches |-> build[b].mismatches]
           /\ writes' = writes + 1
  <2>1. asnFile' \in FileType
    BY <1>6 DEF AsnTyped, BuildType, FileType
  <2>2. asnFile' # Absent /\ Absent \notin Nat
    BY <2>1, AbsentAssumption
  <2>3. writes \in Nat /\ writes' \in Nat /\ writes < writes'
    BY <1>6 DEF AsnTyped
  <2>4. \A x \in Builds : build[x].base \in Nat \cup {Absent}
    BY DEF AsnTyped, BuildType
  <2> HIDE <1>6
  <2>5. \A x \in Builds : build'[x].base \in Nat => build'[x].base <= writes
    BY <1>2, <1>4, <2>2 DEF CarriesForward
  <2>6. \A x \in Builds : build'[x].base \in Nat => build'[x].base <= writes' /\ build'[x].base # writes'
    BY <2>3, <2>5
  <2>7. \A x \in Builds : build'[x].pc \in {"idle", "fetched"} => build'[x].base = Absent
    BY <1>2, <1>4 DEF CarriesForward
  <2>8. CarriesForward'
    BY <2>2, <2>3, <2>6, <2>7 DEF CarriesForward
  <2> QED
    BY <1>4, <2>1, <2>3, <2>8 DEF AsnTyped
<1> QED
  BY <1>5, <1>6 DEF Upload

LEMMA AsnMoves == [Next]_vars => [AsnNext]_asnVars
BY DEF Next, vars

LEMMA AsnInvariant == Spec => [](AsnTyped /\ CarriesForward)
<1>1. Init => AsnTyped /\ CarriesForward
  <2> SUFFICES ASSUME Init PROVE AsnTyped /\ CarriesForward
    OBVIOUS
  <2>1. asnFile = Absent /\ writes = 0 /\ build = [b \in Builds |-> NoBuild]
    BY DEF Init, AsnInit
  <2>2. NoBuild.pc = "idle"
    BY DEF NoBuild
  <2> QED
    BY <2>1, <2>2, NoBuildTyped, AbsentAssumption DEF AsnTyped, CarriesForward
<1>2. AsnTyped /\ CarriesForward /\ [Next]_vars => (AsnTyped /\ CarriesForward)'
  <2> SUFFICES ASSUME AsnTyped, CarriesForward, [Next]_vars
               PROVE  (AsnTyped /\ CarriesForward)'
    OBVIOUS
  <2>1. CASE UNCHANGED asnVars
    BY <2>1 DEF AsnTyped, CarriesForward, asnVars
  <2>2. CASE AsnNext
    BY <2>2, FetchFacts, CarryFacts, UploadFacts DEF AsnNext
  <2> QED
    BY <2>1, <2>2, AsnMoves
<1> QED
  BY <1>1, <1>2, PTL DEF Spec

Outlives ==
  \A b \in Builds :
    (writes' > writes /\ build[b].pc = "built" /\ build'[b].pc = "uploaded"
      /\ build[b].base = writes /\ writes > 0 /\ asnFile.pdb # <<>>)
    => asnFile'.pdb # <<>>

\* A build that read the file nobody has replaced since never empties what the
\* file has of PeeringDB, whatever PeeringDB answered it.
THEOREM PdbSurvives == Spec => PdbOutlivesOutage
<1>1. AsnTyped /\ CarriesForward /\ [Next]_vars => [Outlives]_asnVars
  <2> SUFFICES ASSUME AsnTyped, CarriesForward, AsnNext,
                      NEW b \in Builds, writes' > writes, build[b].pc = "built",
                      build'[b].pc = "uploaded", build[b].base = writes, writes > 0,
                      asnFile.pdb # <<>>
               PROVE  asnFile'.pdb # <<>>
    BY AsnMoves DEF Outlives
  <2>1. build[b].pdb # <<>>
    BY DEF CarriesForward
  <2>2. PICK x \in Builds : Upload(x)
    BY DEF AsnNext, FetchSources, CarryForward, AsnTyped
  <2>3. x = b
    BY <2>2 DEF Upload, AsnTyped
  <2>4. asnFile'.pdb = build[b].pdb
    BY <2>2, <2>3 DEF Upload, AsnTyped
  <2> QED
    BY <2>1, <2>4
<1> QED
  BY <1>1, AsnInvariant, PTL DEF Spec, PdbOutlivesOutage, Outlives

-----------------------------------------------------------------------------
(* The bisection: that it ends, and what it finds.                         *)

\* Bisect is a solution of this equation, if there is one.
Spans(n) == (1 .. n + 1) \X (0 .. n)
SearchStep(ranges, a, f, lo, hi) ==
  LET mid == (lo + hi) \div 2
  IN IF lo > hi THEN <<0, lo>>
     ELSE IF ranges[mid].range[1] > a THEN f[<<lo, mid - 1>>]
     ELSE IF ranges[mid].range[2] < a THEN f[<<mid + 1, hi>>]
     ELSE <<mid, lo>>
Search(ranges, a, f) ==
  [p \in Spans(Len(ranges)) |-> SearchStep(ranges, a, f, p[1], p[2])]

LEMMA BisectIsSearch ==
  ASSUME NEW ranges, NEW a
  PROVE  Bisect(ranges, a) = (CHOOSE f : f = Search(ranges, a, f))[<<1, Len(ranges)>>]
BY DEF Bisect, Search, SearchStep, Spans

\* A step looks at narrower spans only.
LEMMA StepAgrees ==
  ASSUME NEW n \in Nat, NEW ranges, NEW a, NEW f, NEW g, NEW lo \in 1 .. n + 1, NEW hi \in 0 .. n,
         \A l \in 1 .. n + 1, h \in 0 .. n : h - l < hi - lo => f[<<l, h>>] = g[<<l, h>>]
  PROVE  SearchStep(ranges, a, f, lo, hi) = SearchStep(ranges, a, g, lo, hi)
<1> DEFINE mid == (lo + hi) \div 2
<1>1. CASE lo > hi
  BY <1>1 DEF SearchStep
<1>2. CASE ~(lo > hi)
  <2>1. mid \in Int /\ lo <= mid /\ mid <= hi
    BY <1>2
  <2>2. f[<<lo, mid - 1>>] = g[<<lo, mid - 1>>] /\ f[<<mid + 1, hi>>] = g[<<mid + 1, hi>>]
    <3>1. mid - 1 \in 0 .. n /\ mid + 1 \in 1 .. n + 1
      BY <2>1
    <3>2. (mid - 1) - lo < hi - lo /\ hi - (mid + 1) < hi - lo
      BY <2>1
    <3> HIDE DEF mid
    <3> QED
      BY <3>1, <3>2
  <2> QED
    BY <2>2 DEF SearchStep
<1> QED
  BY <1>1, <1>2

\* The bisection ends: applying the step once for each width a span can have
\* gives a function that another step leaves alone.
LEMMA SearchHasSolution ==
  ASSUME NEW ranges, NEW a, Len(ranges) \in Nat
  PROVE  \E f : f = Search(ranges, a, f)
<1> DEFINE n == Len(ranges)
           Solves(f, k) == \A l \in 1 .. n + 1, h \in 0 .. n :
                             h - l < k => f[<<l, h>>] = SearchStep(ranges, a, f, l, h)
           T == {k \in Nat : ~ \E f : Solves(f, k)}
<1>1. \E f : Solves(f, 0)
  <2> DEFINE f == [p \in Spans(n) |-> <<0, p[1]>>]
  <2>1. \A l \in 1 .. n + 1, h \in 0 .. n : h - l < 0 => f[<<l, h>>] = SearchStep(ranges, a, f, l, h)
    <3> SUFFICES ASSUME NEW l \in 1 .. n + 1, NEW h \in 0 .. n, h - l < 0
                 PROVE  f[<<l, h>>] = SearchStep(ranges, a, f, l, h)
      OBVIOUS
    <3>1. l > h
      OBVIOUS
    <3>2. SearchStep(ranges, a, f, l, h) = <<0, l>>
      BY <3>1 DEF SearchStep
    <3> QED
      BY <3>2 DEF Spans
  <2> HIDE DEF f
  <2> QED
    BY <2>1
<1>2. ASSUME NEW k \in Nat, NEW f, Solves(f, k)
      PROVE  \E g : Solves(g, k + 1)
  <2> DEFINE g == [p \in Spans(n) |-> SearchStep(ranges, a, f, p[1], p[2])]
  <2>1. \A l \in 1 .. n + 1, h \in 0 .. n : g[<<l, h>>] = SearchStep(ranges, a, f, l, h)
    BY DEF Spans
  <2> HIDE DEF g
  <2>2. \A l \in 1 .. n + 1, h \in 0 .. n : h - l < k => f[<<l, h>>] = g[<<l, h>>]
    BY <1>2, <2>1
  <2>3. ASSUME NEW l \in 1 .. n + 1, NEW h \in 0 .. n, h - l < k + 1
        PROVE  g[<<l, h>>] = SearchStep(ranges, a, g, l, h)
    <3>1. \A x \in 1 .. n + 1, y \in 0 .. n : y - x < h - l => f[<<x, y>>] = g[<<x, y>>]
      BY <2>2, <2>3
    <3>2. n \in Nat
      OBVIOUS
    <3> HIDE DEF n, Solves, T
    <3>3. SearchStep(ranges, a, f, l, h) = SearchStep(ranges, a, g, l, h)
      BY <3>1, <3>2, StepAgrees
    <3> QED
      BY <2>1, <3>3
  <2> QED
    BY <2>3
<1>3. T = {}
  <2> SUFFICES ASSUME T # {} PROVE FALSE
    OBVIOUS
  <2>1. PICK m \in T : \A x \in T : m <= x
    BY LeastOf
  <2> HIDE DEF Solves
  <2>2. m # 0
    BY <1>1
  <2>3. m - 1 \in Nat /\ m - 1 \notin T
    BY <2>1, <2>2
  <2>4. PICK f : Solves(f, m - 1)
    BY <2>3
  <2>5. PICK k : k = m - 1
    OBVIOUS
  <2>6. \E g : Solves(g, k + 1)
    BY <1>2, <2>3, <2>4, <2>5
  <2> QED
    BY <2>5, <2>6
<1>4. PICK f : Solves(f, n + 1)
  <2> HIDE DEF Solves
  <2>1. n + 1 \in Nat
    OBVIOUS
  <2> QED
    BY <1>3, <2>1
<1> DEFINE g == [p \in Spans(n) |-> f[p]]
<1>5. \A l \in 1 .. n + 1, h \in 0 .. n : g[<<l, h>>] = f[<<l, h>>]
  BY DEF Spans
<1>6. \A l \in 1 .. n + 1, h \in 0 .. n : f[<<l, h>>] = SearchStep(ranges, a, g, l, h)
  <2> SUFFICES ASSUME NEW l \in 1 .. n + 1, NEW h \in 0 .. n
               PROVE  f[<<l, h>>] = SearchStep(ranges, a, g, l, h)
    OBVIOUS
  <2> HIDE DEF g
  <2>1. f[<<l, h>>] = SearchStep(ranges, a, f, l, h)
    BY <1>4
  <2>2. n \in Nat
    OBVIOUS
  <2>3. \A x \in 1 .. n + 1, y \in 0 .. n : y - x < h - l => f[<<x, y>>] = g[<<x, y>>]
    BY <1>5
  <2> HIDE DEF n, Solves, T
  <2>4. SearchStep(ranges, a, f, l, h) = SearchStep(ranges, a, g, l, h)
    BY <2>2, <2>3, StepAgrees
  <2> QED
    BY <2>1, <2>4
<1>7. \A p \in Spans(n) : p = <<p[1], p[2]>> /\ p[1] \in 1 .. n + 1 /\ p[2] \in 0 .. n
  BY DEF Spans
<1>8. g = Search(ranges, a, g)
  <2> DEFINE s == [p \in Spans(n) |-> SearchStep(ranges, a, g, p[1], p[2])]
  <2>1. \A p \in Spans(n) : f[p] = SearchStep(ranges, a, g, p[1], p[2])
    BY <1>6, <1>7
  <2>2. g = s
    BY <2>1
  <2> QED
    BY <2>2 DEF Search
<1> QED
  BY <1>8

\* Ranges of numbers, by their first ones.
ProperRanges(ranges, n) ==
  /\ \A k \in 1 .. n : /\ ranges[k].range[1] \in Int /\ ranges[k].range[2] \in Int
                       /\ ranges[k].range[1] <= ranges[k].range[2]
  /\ \A k, l \in 1 .. n : k < l => ranges[k].range[1] <= ranges[l].range[1]

Apart(ranges, n) ==
  \A k, l \in 1 .. n : k < l =>
    ranges[k].range[2] < ranges[l].range[1] \/ ranges[l].range[2] < ranges[k].range[1]

ExactFor(ranges, n, a, lo, hi, found) ==
  /\ found[1] \in 0 .. n /\ found[2] \in 1 .. n + 1
  /\ found[1] > 0 => Holds(ranges[found[1]].range, a)
  /\ Apart(ranges, n) =>
       \A k \in 1 .. n : lo <= k /\ k <= hi /\ Holds(ranges[k].range, a) => found[1] > 0

LEMMA StepIsExact ==
  ASSUME NEW n \in Nat, NEW ranges, ProperRanges(ranges, n), NEW a \in Int, NEW f,
         NEW lo \in 1 .. n + 1, NEW hi \in 0 .. n,
         \A l \in 1 .. n + 1, h \in 0 .. n :
           h - l < hi - lo => ExactFor(ranges, n, a, l, h, f[<<l, h>>])
  PROVE  ExactFor(ranges, n, a, lo, hi, SearchStep(ranges, a, f, lo, hi))
<1>1. CASE lo > hi
  <2>1. SearchStep(ranges, a, f, lo, hi) = <<0, lo>>
    BY <1>1 DEF SearchStep
  <2>2. \A k \in 1 .. n : ~(lo <= k /\ k <= hi)
    BY <1>1
  <2> QED
    BY <2>1, <2>2 DEF ExactFor
<1>2. CASE ~(lo > hi)
  <2>0. PICK mid : mid = (lo + hi) \div 2
    OBVIOUS
  <2>1. mid \in 1 .. n /\ lo <= mid /\ mid <= hi
    BY <1>2, <2>0
  <2>2. SearchStep(ranges, a, f, lo, hi) =
          IF ranges[mid].range[1] > a THEN f[<<lo, mid - 1>>]
          ELSE IF ranges[mid].range[2] < a THEN f[<<mid + 1, hi>>] ELSE <<mid, lo>>
    BY <1>2, <2>0 DEF SearchStep
  <2>3. PICK first, last \in Int : first = ranges[mid].range[1] /\ last = ranges[mid].range[2]
    BY <2>1 DEF ProperRanges
  <2>4. CASE first > a
    <3>1. ExactFor(ranges, n, a, lo, mid - 1, f[<<lo, mid - 1>>])
      <4>1. mid - 1 \in 0 .. n /\ (mid - 1) - lo < hi - lo
        BY <2>1
      <4> QED
        BY <4>1
    <3>2. \A k \in 1 .. n : mid <= k => ~Holds(ranges[k].range, a)
      <4> SUFFICES ASSUME NEW k \in 1 .. n, mid <= k PROVE ~Holds(ranges[k].range, a)
        OBVIOUS
      <4>1. ranges[k].range[1] \in Int /\ first <= ranges[k].range[1]
        <5>1. CASE k = mid
          BY <2>3, <5>1
        <5>2. CASE k # mid
          <6>1. mid < k
            BY <2>1, <5>2
          <6> QED
            BY <2>1, <2>3, <6>1 DEF ProperRanges
        <5> QED
          BY <5>1, <5>2
      <4> QED
        BY <2>3, <2>4, <4>1 DEF Holds
    <3>3. SearchStep(ranges, a, f, lo, hi) = f[<<lo, mid - 1>>]
      BY <2>2, <2>3, <2>4
    <3>4. \A k \in 1 .. n : lo <= k /\ k <= hi /\ Holds(ranges[k].range, a)
                            => lo <= k /\ k <= mid - 1
      BY <2>1, <3>2
    <3> QED
      BY <3>1, <3>3, <3>4 DEF ExactFor
  <2>5. CASE ~(first > a) /\ last < a
    <3>1. ExactFor(ranges, n, a, mid + 1, hi, f[<<mid + 1, hi>>])
      <4>1. mid + 1 \in 1 .. n + 1 /\ hi - (mid + 1) < hi - lo
        BY <2>1
      <4> QED
        BY <4>1
    <3>2. ASSUME Apart(ranges, n), NEW k \in 1 .. n, k <= mid
          PROVE  ~Holds(ranges[k].range, a)
      <4>1. CASE k = mid
        BY <2>3, <2>5, <4>1 DEF Holds
      <4>2. CASE k # mid
        <5>1. k < mid
          BY <2>1, <3>2, <4>2
        <5>2. PICK x, y \in Int : x = ranges[k].range[1] /\ y = ranges[k].range[2]
          BY DEF ProperRanges
        <5>3. x <= first /\ first <= last
          BY <2>1, <2>3, <5>1, <5>2 DEF ProperRanges
        <5>4. y < first \/ last < x
          BY <2>1, <2>3, <3>2, <5>1, <5>2 DEF Apart
        <5>5. y < a
          BY <2>5, <5>3, <5>4
        <5> QED
          BY <5>2, <5>5 DEF Holds
      <4> QED
        BY <4>1, <4>2
    <3>3. SearchStep(ranges, a, f, lo, hi) = f[<<mid + 1, hi>>]
      BY <2>2, <2>3, <2>5
    <3>4. Apart(ranges, n) =>
            \A k \in 1 .. n : lo <= k /\ k <= hi /\ Holds(ranges[k].range, a)
                              => mid + 1 <= k /\ k <= hi
      BY <2>1, <3>2
    <3> QED
      BY <3>1, <3>3, <3>4 DEF ExactFor
  <2>6. CASE ~(first > a) /\ ~(last < a)
    <3>1. SearchStep(ranges, a, f, lo, hi) = <<mid, lo>>
      BY <2>2, <2>3, <2>6
    <3>2. Holds(ranges[mid].range, a)
      BY <2>3, <2>6 DEF Holds
    <3> QED
      BY <2>1, <3>1, <3>2 DEF ExactFor
  <2> QED
    BY <2>4, <2>5, <2>6
<1> QED
  BY <1>1, <1>2

\* The bisection of ranges sorted by their starts finds a range that holds the
\* address or none, and none only if no range does or some overlap.
LEMMA BisectIsExact ==
  ASSUME NEW n \in Nat, NEW ranges, n = Len(ranges), ProperRanges(ranges, n), NEW a \in Int
  PROVE  ExactFor(ranges, n, a, 1, n, Bisect(ranges, a))
<1> DEFINE f == CHOOSE f : f = Search(ranges, a, f)
<1>1. f = Search(ranges, a, f)
  <2>1. \E g : g = Search(ranges, a, g)
    BY SearchHasSolution
  <2> QED
    BY <2>1
<1>2. Bisect(ranges, a) = f[<<1, n>>]
  BY BisectIsSearch
<1> HIDE DEF f
<1>3. \A l \in 1 .. n + 1, h \in 0 .. n : f[<<l, h>>] = SearchStep(ranges, a, f, l, h)
  <2> DEFINE s == [p \in Spans(n) |-> SearchStep(ranges, a, f, p[1], p[2])]
  <2>1. f = s
    BY <1>1 DEF Search
  <2>2. \A l \in 1 .. n + 1, h \in 0 .. n : s[<<l, h>>] = SearchStep(ranges, a, f, l, h)
    BY DEF Spans
  <2> HIDE DEF s
  <2> QED
    BY <2>1, <2>2
<1> DEFINE Wrong(k) == \E l \in 1 .. n + 1, h \in 0 .. n :
                         h - l + n + 1 = k /\ ~ExactFor(ranges, n, a, l, h, f[<<l, h>>])
           T == {k \in Nat : Wrong(k)}
<1>4. T = {}
  <2> SUFFICES ASSUME T # {} PROVE FALSE
    OBVIOUS
  <2>1. PICK m \in T : \A x \in T : m <= x
    BY LeastOf
  <2>2. PICK l \in 1 .. n + 1, h \in 0 .. n :
          h - l + n + 1 = m /\ ~ExactFor(ranges, n, a, l, h, f[<<l, h>>])
    OBVIOUS
  <2>3. ASSUME NEW x \in 1 .. n + 1, NEW y \in 0 .. n, y - x < h - l,
               ~ExactFor(ranges, n, a, x, y, f[<<x, y>>])
        PROVE  FALSE
    <3>1. PICK k : k = y - x + n + 1
      OBVIOUS
    <3>2. k \in Nat /\ k < m
      BY <2>2, <2>3, <3>1
    <3>3. Wrong(k)
      BY <2>3, <3>1
    <3> HIDE DEF Wrong
    <3> QED
      BY <2>1, <3>2, <3>3
  <2>4. \A x \in 1 .. n + 1, y \in 0 .. n :
          y - x < h - l => ExactFor(ranges, n, a, x, y, f[<<x, y>>])
    BY <2>3
  <2> HIDE DEF Wrong, T
  <2>5. ExactFor(ranges, n, a, l, h, SearchStep(ranges, a, f, l, h))
    BY <2>4, StepIsExact
  <2> QED
    BY <1>3, <2>2, <2>5
<1>5. \A l \in 1 .. n + 1, h \in 0 .. n : ExactFor(ranges, n, a, l, h, f[<<l, h>>])
  <2> SUFFICES ASSUME NEW l \in 1 .. n + 1, NEW h \in 0 .. n,
                      ~ExactFor(ranges, n, a, l, h, f[<<l, h>>])
               PROVE  FALSE
    OBVIOUS
  <2>1. PICK k : k = h - l + n + 1
    OBVIOUS
  <2>2. Wrong(k)
    BY <2>1
  <2>3. k \in Nat
    BY <2>1
  <2> HIDE DEF Wrong
  <2> QED
    BY <1>4, <2>2, <2>3
<1> QED
  BY <1>2, <1>5

-----------------------------------------------------------------------------
(* Sequences in order, and the rules that are searched.                    *)

\* Places are as many as elements, and none is taken twice.
LEMMA PlaceFacts ==
  ASSUME NEW S, IsFiniteSet(S), S \subseteq Int, NEW key, \A i \in S : key[i] \in Int,
         NEW n, n = Cardinality(S)
  PROVE  /\ n \in Nat
         /\ \A i \in S : Place(S, key, i) \in 1 .. n
         /\ \A i, j \in S : Before(key, i, j) => Place(S, key, i) < Place(S, key, j)
         /\ \A i, j \in S : i # j => Before(key, i, j) \/ Before(key, j, i)
<1> DEFINE earlier(i) == {j \in S : Before(key, j, i)}
<1>1. n \in Nat
  BY FS_CardinalityType
<1>2. \A i \in S : earlier(i) \in SUBSET S /\ i \notin earlier(i)
  BY DEF Before
<1>3. ASSUME NEW i \in S
      PROVE  Cardinality(earlier(i)) \in Nat /\ Cardinality(earlier(i)) < n /\ IsFiniteSet(earlier(i))
  <2>1. PICK e : e = earlier(i)
    OBVIOUS
  <2>2. e \in SUBSET S /\ e # S
    BY <1>2, <2>1
  <2>3. IsFiniteSet(e) /\ Cardinality(e) <= Cardinality(S) /\ Cardinality(S) # Cardinality(e)
    BY <2>2, FS_Subset
  <2>4. Cardinality(e) \in Nat
    BY <2>3, FS_CardinalityType
  <2> QED
    BY <1>1, <2>1, <2>3, <2>4
<1>4. ASSUME NEW i \in S, NEW j \in S, Before(key, i, j)
      PROVE  Cardinality(earlier(i)) < Cardinality(earlier(j))
  <2>1. PICK d, e : d = earlier(i) /\ e = earlier(j)
    OBVIOUS
  <2>2. d \in SUBSET e
    <3> SUFFICES ASSUME NEW k \in S, Before(key, k, i) PROVE Before(key, k, j)
      BY <2>1
    <3>1. key[k] \in Int /\ key[i] \in Int /\ key[j] \in Int /\ i \in Int /\ j \in Int /\ k \in Int
      OBVIOUS
    <3> QED
      BY <1>4, <3>1 DEF Before
  <2>3. i \in e /\ i \notin d
    BY <1>2, <1>4, <2>1
  <2>4. IsFiniteSet(e) /\ Cardinality(e) \in Nat /\ Cardinality(d) \in Nat
    BY <1>3, <2>1
  <2>5. Cardinality(d) <= Cardinality(e) /\ Cardinality(d) # Cardinality(e)
    BY <2>2, <2>3, <2>4, FS_Subset
  <2> QED
    BY <2>1, <2>4, <2>5
<1>5. \A i, j \in S : i # j => Before(key, i, j) \/ Before(key, j, i)
  BY DEF Before
<1>6. \A i \in S : Place(S, key, i) = Cardinality(earlier(i)) + 1
  BY DEF Place
<1> HIDE DEF earlier
<1> QED
  BY <1>1, <1>3, <1>4, <1>5, <1>6

Orders(order, n, S, key) ==
  /\ n \in Nat /\ order \in [1 .. n -> S]
  /\ \A i \in S : \E k \in 1 .. n : order[k] = i
  /\ \A k, l \in 1 .. n : k < l => Before(key, order[k], order[l])

\* Each element has its place, in the order of the keys.
LEMMA InOrderFacts ==
  ASSUME NEW S, IsFiniteSet(S), S \subseteq Int, NEW key, \A i \in S : key[i] \in Int,
         NEW n, n = Cardinality(S), NEW order, order = InOrder(S, key)
  PROVE  Orders(order, n, S, key)
<1>1. /\ n \in Nat
      /\ \A i \in S : Place(S, key, i) \in 1 .. n
      /\ \A i, j \in S : Before(key, i, j) => Place(S, key, i) < Place(S, key, j)
      /\ \A i, j \in S : i # j => Before(key, i, j) \/ Before(key, j, i)
  BY PlaceFacts
<1> DEFINE place == [i \in S |-> Place(S, key, i)]
<1>2. \A i, j \in S : i # j => Place(S, key, i) # Place(S, key, j)
  BY <1>1
<1>3. place \in Injection(S, 1 .. n)
  BY <1>1, <1>2 DEF Injection, IsInjective
<1>4. IsFiniteSet(1 .. n) /\ Cardinality(1 .. n) = n
  BY <1>1, FS_Interval
<1>5. place \in Surjection(S, 1 .. n)
  BY <1>3, <1>4, FS_Injection
<1>6. \A k \in 1 .. n : \E i \in S : Place(S, key, i) = k
  BY <1>5 DEF Surjection
<1>7. order = [k \in 1 .. n |-> CHOOSE i \in S : Place(S, key, i) = k]
  BY DEF InOrder
<1>8. \A k \in 1 .. n : order[k] \in S /\ Place(S, key, order[k]) = k
  BY <1>6, <1>7
<1>9. order \in [1 .. n -> S]
  BY <1>7, <1>8
<1>10. \A i \in S : order[Place(S, key, i)] = i
  BY <1>1, <1>2, <1>8
<1>11. ASSUME NEW k \in 1 .. n, NEW l \in 1 .. n, k < l
       PROVE  Before(key, order[k], order[l])
  <2>1. order[k] # order[l]
    BY <1>8, <1>11
  <2>2. ~Before(key, order[l], order[k])
    <3>1. order[k] \in S /\ order[l] \in S /\ Place(S, key, order[k]) = k /\ Place(S, key, order[l]) = l
      BY <1>8
    <3>2. ~(l < k)
      BY <1>11
    <3> QED
      BY <1>1, <3>1, <3>2
  <2> QED
    BY <1>1, <1>8, <2>1, <2>2
<1> QED
  BY <1>1, <1>9, <1>10, <1>11 DEF Orders

LEMMA ThoseFacts ==
  ASSUME NEW T, NEW s \in Seq(T), NEW positions, positions \subseteq DOMAIN s
  PROVE  /\ Those(s, positions) \in Seq(T)
         /\ Range(Those(s, positions)) = {s[i] : i \in positions}
<1> DEFINE key == [i \in positions |-> i]
<1>1. PICK order : order = InOrder(positions, key)
  OBVIOUS
<1>2. PICK n : n = Cardinality(positions)
  OBVIOUS
<1>3. IsFiniteSet(positions) /\ positions \subseteq Int
  <2>1. Len(s) \in Nat /\ DOMAIN s = 1 .. Len(s)
    OBVIOUS
  <2>2. IsFiniteSet(1 .. Len(s))
    BY <2>1, FS_Interval
  <2> QED
    BY <2>1, <2>2, FS_Subset
<1>4. /\ n \in Nat /\ order \in [1 .. n -> positions]
      /\ \A i \in positions : \E k \in 1 .. n : order[k] = i
  <2>1. \A i \in positions : key[i] \in Int
    BY <1>3
  <2> HIDE DEF key
  <2>2. Orders(order, n, positions, key)
    BY <1>1, <1>2, <1>3, <2>1, InOrderFacts
  <2> QED
    BY <2>2 DEF Orders
<1>5. Those(s, positions) = [k \in 1 .. n |-> s[order[k]]]
  BY <1>1, <1>4 DEF Those
<1>6. \A i \in positions : s[i] \in T
  OBVIOUS
<1>7. Those(s, positions) \in [1 .. n -> T]
  BY <1>4, <1>5, <1>6
<1>8. Those(s, positions) \in Seq(T)
  BY <1>4, <1>7
<1>9. Range(Those(s, positions)) = {s[order[k]] : k \in 1 .. n}
  BY <1>5 DEF Range
<1> QED
  BY <1>4, <1>8, <1>9

RulesForBlocks(T) == \A r \in T : r.cidr \in Addresses \X Int

\* A list of rules that can be searched: the well-formed ones, each of them,
\* by their first addresses.
LEMMA CompileFacts ==
  ASSUME NEW T, RulesForBlocks(T), NEW rules \in Seq(T),
         NEW ranges, ranges = Compile(rules), NEW n, n = Len(ranges)
  PROVE  /\ n \in Nat /\ DOMAIN ranges = 1 .. n /\ ProperRanges(ranges, n)
         /\ \A k \in 1 .. n : /\ ranges[k].rule \in Range(rules)
                              /\ CidrToRange(ranges[k].rule.cidr) # Unlisted
                              /\ ranges[k].range = CidrToRange(ranges[k].rule.cidr)
         /\ \A r \in Range(rules) : CidrToRange(r.cidr) # Unlisted =>
              \E k \in 1 .. n : ranges[k].rule = r
<1> DEFINE valid == {i \in DOMAIN rules : CidrToRange(rules[i].cidr) # Unlisted}
           key == [i \in valid |-> CidrToRange(rules[i].cidr)[1]]
<1>1. ASSUME NEW r \in T, CidrToRange(r.cidr) # Unlisted
      PROVE  /\ CidrToRange(r.cidr)[1] \in Int /\ CidrToRange(r.cidr)[2] \in Int
             /\ CidrToRange(r.cidr)[1] <= CidrToRange(r.cidr)[2]
  <2>1. PICK x, w : r.cidr[1] = x /\ r.cidr[2] = w /\ x \in Int
    <3>1. r.cidr \in Addresses \X Int
      BY DEF RulesForBlocks
    <3>2. Addresses \subseteq Int
      BY DEF Addresses
    <3> QED
      BY <3>1, <3>2
  <2>2. w \in 0 .. Width
    BY <1>1, <2>1 DEF CidrToRange
  <2>3. PICK size : size = 2 ^ (Width - w)
    OBVIOUS
  <2>4. size \in Nat \ {0}
    <3>1. Width - w \in 0 .. Width
      BY <2>2, WidthAssumption
    <3> QED
      BY <2>3, <3>1, WidthAssumption
  <2>5. PICK start : start = (x \div size) * size
    OBVIOUS
  <2>6. start \in Int
    BY <2>1, <2>4, <2>5
  <2>7. CidrToRange(r.cidr) = <<start, start + size - 1>>
    BY <2>1, <2>2, <2>3, <2>5 DEF CidrToRange
  <2> QED
    BY <2>4, <2>6, <2>7
<1>2. Len(rules) \in Nat /\ DOMAIN rules = 1 .. Len(rules) /\ \A i \in DOMAIN rules : rules[i] \in T
  OBVIOUS
<1>3. IsFiniteSet(valid) /\ valid \subseteq Int
  <2>1. IsFiniteSet(1 .. Len(rules)) /\ valid \in SUBSET (1 .. Len(rules))
    BY <1>2, FS_Interval
  <2> QED
    BY <1>2, <2>1, FS_Subset
<1>4. \A i \in valid : key[i] \in Int
  BY <1>1, <1>2
<1>5. PICK order : order = InOrder(valid, key)
  OBVIOUS
<1>6. PICK m : m = Cardinality(valid)
  OBVIOUS
<1>7. /\ m \in Nat /\ order \in [1 .. m -> valid]
      /\ \A i \in valid : \E k \in 1 .. m : order[k] = i
      /\ \A k, l \in 1 .. m : k < l => Before(key, order[k], order[l])
  <2> HIDE DEF key, valid
  <2>1. Orders(order, m, valid, key)
    BY <1>3, <1>4, <1>5, <1>6, InOrderFacts
  <2> QED
    BY <2>1 DEF Orders
<1>8. ranges = [k \in 1 .. m |-> [range |-> CidrToRange(rules[order[k]].cidr), rule |-> rules[order[k]]]]
  BY <1>5, <1>7 DEF Compile
<1>9. ranges \in [1 .. m -> {ranges[k] : k \in 1 .. m}]
  BY <1>8
<1>10. n = m /\ DOMAIN ranges = 1 .. n
  BY <1>7, <1>8, <1>9
<1>11. \A k \in 1 .. n : order[k] \in valid /\ rules[order[k]] \in T
  BY <1>2, <1>7, <1>10
<1>12. \A k \in 1 .. n : /\ ranges[k].rule = rules[order[k]]
                         /\ ranges[k].range = CidrToRange(rules[order[k]].cidr)
  <2> SUFFICES ASSUME NEW k \in 1 .. n
               PROVE  /\ ranges[k].rule = rules[order[k]]
                      /\ ranges[k].range = CidrToRange(rules[order[k]].cidr)
    OBVIOUS
  <2>1. ranges[k] = [range |-> CidrToRange(rules[order[k]].cidr), rule |-> rules[order[k]]]
    BY <1>8, <1>10
  <2> QED
    BY <2>1
<1>13. \A k, l \in 1 .. n : k < l => ranges[k].range[1] <= ranges[l].range[1]
  <2> SUFFICES ASSUME NEW k \in 1 .. n, NEW l \in 1 .. n, k < l
               PROVE  ranges[k].range[1] <= ranges[l].range[1]
    OBVIOUS
  <2>1. Before(key, order[k], order[l])
    BY <1>7, <1>10
  <2>2. key[order[k]] = ranges[k].range[1] /\ key[order[l]] = ranges[l].range[1]
    BY <1>11, <1>12
  <2>3. key[order[k]] \in Int /\ key[order[l]] \in Int
    BY <1>4, <1>11
  <2> QED
    BY <2>1, <2>2, <2>3 DEF Before
<1>14. \A k \in 1 .. n : CidrToRange(rules[order[k]].cidr) # Unlisted
  BY <1>11
<1>15. \A k \in 1 .. n : ranges[k].rule \in Range(rules)
  BY <1>11, <1>12 DEF Range
<1>16. ProperRanges(ranges, n)
  BY <1>1, <1>11, <1>12, <1>13, <1>14 DEF ProperRanges
<1>17. \A r \in Range(rules) : CidrToRange(r.cidr) # Unlisted => \E k \in 1 .. n : ranges[k].rule = r
  <2> SUFFICES ASSUME NEW i \in DOMAIN rules, CidrToRange(rules[i].cidr) # Unlisted
               PROVE  \E k \in 1 .. n : ranges[k].rule = rules[i]
    BY DEF Range
  <2>1. i \in valid
    OBVIOUS
  <2>2. PICK k \in 1 .. n : order[k] = i
    BY <1>7, <1>10, <2>1
  <2> QED
    BY <1>12, <2>2
<1>18. n \in Nat
  BY <1>7, <1>10
<1> QED
  BY <1>10, <1>12, <1>14, <1>15, <1>16, <1>17, <1>18

\* The search in compiled rules, after a miss too.
LEMMA LookupFacts ==
  ASSUME NEW T, RulesForBlocks(T), NEW rules \in Seq(T),
         Unlisted \notin T, NEW a \in Int
  PROVE  LET ranges == Compile(rules)
             hit == LookupInRanges(ranges, a)
         IN /\ hit # Unlisted => hit \in Covering(rules, a)
            /\ Disjoint(ranges) /\ Covering(rules, a) # {} => hit # Unlisted
<1>1. PICK ranges : ranges = Compile(rules)
  OBVIOUS
<1>2. PICK n : n = Len(ranges)
  OBVIOUS
<1>3. /\ n \in Nat /\ DOMAIN ranges = 1 .. n /\ ProperRanges(ranges, n)
      /\ \A k \in 1 .. n : /\ ranges[k].rule \in Range(rules)
                           /\ CidrToRange(ranges[k].rule.cidr) # Unlisted
                           /\ ranges[k].range = CidrToRange(ranges[k].rule.cidr)
      /\ \A r \in Range(rules) : CidrToRange(r.cidr) # Unlisted =>
           \E k \in 1 .. n : ranges[k].rule = r
  BY <1>1, <1>2, CompileFacts
<1>4. PICK found : found = Bisect(ranges, a)
  OBVIOUS
<1>5. ExactFor(ranges, n, a, 1, n, found)
  BY <1>2, <1>3, <1>4, BisectIsExact
<1>6. PICK hit : hit = LookupInRanges(ranges, a)
  OBVIOUS
<1>7. \A k \in 1 .. n : Holds(ranges[k].range, a) => ranges[k].rule \in Covering(rules, a)
  BY <1>3 DEF Covering
<1>8. hit # Unlisted => hit \in Covering(rules, a)
  <2>1. CASE found[1] > 0
    <3>1. hit = ranges[found[1]].rule
      BY <1>4, <1>6, <2>1 DEF LookupInRanges
    <3>2. found[1] \in 1 .. n /\ Holds(ranges[found[1]].range, a)
      BY <1>3, <1>5, <2>1 DEF ExactFor
    <3> QED
      BY <1>7, <3>1, <3>2
  <2>2. CASE ~(found[1] > 0) /\ hit # Unlisted
    <3>1. /\ hit = ranges[found[2] - 1].rule /\ found[2] - 1 > 0
          /\ Holds(ranges[found[2] - 1].range, a)
      BY <1>4, <1>6, <2>2 DEF LookupInRanges
    <3>2. found[2] - 1 \in 1 .. n
      BY <1>3, <1>5, <3>1 DEF ExactFor
    <3> QED
      BY <1>7, <3>1, <3>2
  <2> QED
    BY <2>1, <2>2
<1>9. ASSUME Disjoint(ranges), Covering(rules, a) # {}
      PROVE  hit # Unlisted
  <2>1. PICK r \in Range(rules) : CidrToRange(r.cidr) # Unlisted /\ Holds(CidrToRange(r.cidr), a)
    BY <1>9 DEF Covering
  <2>2. PICK k \in 1 .. n : ranges[k].rule = r
    BY <1>3, <2>1
  <2>3. Holds(ranges[k].range, a)
    BY <1>3, <2>1, <2>2
  <2>4. Apart(ranges, n)
    BY <1>3, <1>9 DEF Disjoint, Apart
  <2>5. found[1] \in 1 .. n /\ found[1] > 0
    BY <1>3, <1>5, <2>3, <2>4 DEF ExactFor
  <2>6. hit = ranges[found[1]].rule
    BY <1>4, <1>6, <2>5 DEF LookupInRanges
  <2>7. Range(rules) \subseteq T
    BY DEF Range
  <2> QED
    BY <1>3, <2>5, <2>6, <2>7
<1> QED
  BY <1>1, <1>6, <1>8, <1>9

-----------------------------------------------------------------------------
(* The overlay of address rules.                                           *)

Stages == {"idle", "walking", "repairing", "written", "failed"}
RunType ==
  [pc : Stages, base : Nat \cup {Unlisted}, existing : Seq(RuleType),
   found : Seq(RuleType), left : SUBSET Archived,
   searched : SUBSET {FamilyOf[n.name] : n \in Networks}]
OverlayTyped == published \in Seq(Seq(RuleType)) /\ run \in [Runs -> RunType]

\* A run under way that read the overlay has what the version it read said.
KnowsItsBase(r) ==
  run[r].pc \in {"walking", "repairing"} =>
    \/ run[r].base = Unlisted
    \/ run[r].base \in 0 .. Version /\ run[r].existing = Overlay(run[r].base)
BasesAreKnown == \A r \in Runs : KnowsItsBase(r)

LEMMA SetToSeqType ==
  ASSUME NEW S, IsFiniteSet(S)
  PROVE  SetToSeq(S) \in Seq(S)
<1> DEFINE n == Cardinality(S)
<1>1. n \in Nat /\ ExistsBijection(1 .. n, S)
  BY FS_CardinalityType
<1>2. PICK f \in [1 .. n -> S] : IsInjective(f)
  BY <1>1 DEF ExistsBijection, Bijection, Injection, IsInjective
<1>3. SetToSeq(S) \in [1 .. n -> S]
  BY <1>2 DEF SetToSeq
<1> QED
  BY <1>1, <1>3

LEMMA RuleTypeForBlocks == RulesForBlocks(RuleType)
BY NetworksAssumption DEF RuleType, RulesForBlocks

\* The rules for the blocks of a network, with a category that is given.
LEMMA RulesOfType ==
  ASSUME NEW n \in Networks, NEW c,
         c \in {CategoryOf[m.name] : m \in Networks} \cup {Categorize(<<m.name>>) : m \in Networks}
                 \cup {Categorize(<<m.customer, m.name>>) : m \in Networks}
  PROVE  IsFiniteSet(RulesOf(n, c)) /\ RulesOf(n, c) \subseteq RuleType
<1> DEFINE rule(b) == [cidr |-> b, category |-> c, name |-> n.name]
           f == [b \in n.cidrs |-> rule(b)]
<1>1. RulesOf(n, c) = {rule(b) : b \in n.cidrs}
  BY DEF RulesOf
<1>2. \A b \in n.cidrs : rule(b) \in RuleType
  BY DEF RuleType
<1>3. IsFiniteSet(n.cidrs)
  BY NetworksAssumption
<1> HIDE DEF rule
<1>4. f \in Surjection(n.cidrs, {rule(b) : b \in n.cidrs})
  BY DEF Surjection
<1> HIDE DEF f
<1>5. IsFiniteSet({rule(b) : b \in n.cidrs})
  BY <1>3, <1>4, FS_Surjection
<1> QED
  BY <1>1, <1>2, <1>5

LEMMA DirectRulesType ==
  ASSUME NEW info \in Networks
  PROVE  BuildDirectRules(info) \in Seq(RuleType)
<1>1. PICK c : c = Categorize(<<info.customer, info.name>>)
  OBVIOUS
<1>2. PICK rules : rules = RulesOf(info, c)
  OBVIOUS
<1>3. IsFiniteSet(rules) /\ rules \subseteq RuleType
  BY <1>1, <1>2, RulesOfType
<1>4. SetToSeq(rules) \in Seq(RuleType)
  BY <1>3, SetToSeqType
<1>5. BuildDirectRules(info) = IF c = Unlisted THEN <<>> ELSE SetToSeq(rules)
  BY <1>1, <1>2 DEF BuildDirectRules, CategorizeRdapInfo
<1> QED
  BY <1>4, <1>5

LEMMA ReverseRulesType ==
  ASSUME NEW info \in Networks, NEW networks \in SUBSET Networks
  PROVE  BuildReverseSearchRules(info, networks) \in Seq(RuleType)
<1> DEFINE category(n) == IF Categorize(<<n.name>>) # Unlisted
                            THEN Categorize(<<n.name>>) ELSE CategorizeRdapInfo(info)
           known == {m \in networks : category(m) # Unlisted}
           parts == {RulesOf(n, category(n)) : n \in known}
           f == [n \in known |-> RulesOf(n, category(n))]
<1>1. ASSUME NEW n \in networks
      PROVE  IsFiniteSet(RulesOf(n, category(n))) /\ RulesOf(n, category(n)) \subseteq RuleType
  <2>1. PICK c : c = category(n)
    OBVIOUS
  <2>2. c \in {Categorize(<<m.name>>) : m \in Networks}
                \cup {Categorize(<<m.customer, m.name>>) : m \in Networks}
    BY <2>1 DEF CategorizeRdapInfo
  <2> HIDE DEF category
  <2> QED
    BY <2>1, <2>2, RulesOfType
<1>2. IsFiniteSet(known)
  BY NetworksAssumption, FS_Subset
<1>3. f \in Surjection(known, parts)
  <2> HIDE DEF category, known
  <2> QED
    BY DEF Surjection
<1>4. IsFiniteSet(parts)
  <2> HIDE DEF f, parts, known
  <2> QED
    BY <1>2, <1>3, FS_Surjection
<1>5. \A some \in parts : IsFiniteSet(some) /\ some \subseteq RuleType
  <2> HIDE DEF category
  <2> QED
    BY <1>1
<1>6. BuildReverseSearchRules(info, networks) = SetToSeq(UNION parts)
  BY DEF BuildReverseSearchRules
<1> HIDE DEF parts
<1>7. IsFiniteSet(UNION parts) /\ UNION parts \subseteq RuleType
  BY <1>4, <1>5, FS_UNION
<1>8. SetToSeq(UNION parts) \in Seq(RuleType)
  BY <1>7, SetToSeqType
<1> QED
  BY <1>6, <1>8

LEMMA DiscoveredType ==
  ASSUME NEW ranges, NEW info \in Networks, NEW networks \in SUBSET Networks
  PROVE  DiscoverFromRdap(ranges, info, networks) \in Seq(RuleType)
<1>1. PICK candidate :
        candidate = BuildDirectRules(info) \o BuildReverseSearchRules(info, networks)
  OBVIOUS
<1>2. candidate \in Seq(RuleType)
  BY <1>1, DirectRulesType, ReverseRulesType
<1>3. PICK added : added = {i \in DOMAIN candidate : ~IsFullyCovered(ranges, candidate[i].cidr)}
  OBVIOUS
<1>4. added \subseteq DOMAIN candidate
  BY <1>3
<1>5. DiscoverFromRdap(ranges, info, networks) = Those(candidate, added)
  BY <1>1, <1>3 DEF DiscoverFromRdap
<1> QED
  BY <1>2, <1>4, <1>5, ThoseFacts

\* Of a list with repetitions every rule is kept.
LEMMA DedupeFacts ==
  ASSUME NEW T, NEW rules \in Seq(T)
  PROVE  Dedupe(rules) \in Seq(T) /\ Range(Dedupe(rules)) = Range(rules)
<1>1. PICK first : first = {i \in DOMAIN rules : \A j \in 1 .. i - 1 : rules[j] # rules[i]}
  OBVIOUS
<1>2. first \subseteq DOMAIN rules /\ Dedupe(rules) = Those(rules, first)
  BY <1>1 DEF Dedupe
<1>3. Dedupe(rules) \in Seq(T) /\ Range(Dedupe(rules)) = {rules[i] : i \in first}
  BY <1>2, ThoseFacts
<1>4. ASSUME NEW i \in DOMAIN rules
      PROVE  \E k \in first : rules[k] = rules[i]
  <2> DEFINE alike == {k \in DOMAIN rules : rules[k] = rules[i]}
  <2>1. DOMAIN rules \subseteq Nat /\ \A k \in DOMAIN rules : 1 .. k - 1 \subseteq DOMAIN rules
    OBVIOUS
  <2>2. PICK k \in alike : \A j \in alike : k <= j
    <3>1. alike \subseteq Nat /\ alike # {}
      BY <2>1
    <3> HIDE DEF alike
    <3> QED
      BY <3>1, LeastOf
  <2>3. \A j \in 1 .. k - 1 : rules[j] # rules[k]
    BY <2>1, <2>2
  <2> QED
    BY <1>1, <2>2, <2>3
<1>5. {rules[i] : i \in first} = Range(rules)
  BY <1>2, <1>4 DEF Range
<1> QED
  BY <1>3, <1>5

LEMMA MergedFacts ==
  ASSUME NEW d \in RunType
  PROVE  /\ Merged(d) \in Seq(RuleType)
         /\ Range(d.existing) \subseteq Range(Merged(d))
<1>1. PICK e, f \in Seq(RuleType) : e = d.existing /\ f = d.found
  BY DEF RunType
<1>2. e \o f \in Seq(RuleType) /\ Range(e) \subseteq Range(e \o f)
  <2>1. \A i \in DOMAIN e : i \in DOMAIN (e \o f) /\ (e \o f)[i] = e[i]
    OBVIOUS
  <2> QED
    BY <2>1 DEF Range
<1>3. PICK g : g = e \o f
  OBVIOUS
<1>4. Dedupe(g) \in Seq(RuleType) /\ Range(Dedupe(g)) = Range(g)
  BY <1>2, <1>3, DedupeFacts
<1> QED
  BY <1>1, <1>2, <1>3, <1>4 DEF Merged

LEMMA ReclassifiedFacts ==
  ASSUME NEW rules \in Seq(RuleType)
  PROVE  /\ Reclassified(rules) \in Seq(RuleType)
         /\ \A old \in Range(rules) : \E new \in Range(Reclassified(rules)) :
              new.cidr = old.cidr /\ new.name = old.name
<1> DEFINE repaired(r) == IF CategoryOf[r.name] = Unlisted THEN r
                          ELSE [r EXCEPT !.category = CategoryOf[r.name]]
           s == Reclassified(rules)
<1>1. s = [i \in DOMAIN rules |-> repaired(rules[i])]
  BY DEF Reclassified
<1>2. ASSUME NEW r \in RuleType
      PROVE  repaired(r) \in RuleType /\ repaired(r).cidr = r.cidr /\ repaired(r).name = r.name
  <2>1. CategoryOf[r.name] \in {CategoryOf[n.name] : n \in Networks}
    BY DEF RuleType
  <2> QED
    BY <2>1 DEF RuleType
<1> HIDE DEF repaired, s
<1>3. \A i \in DOMAIN rules : rules[i] \in RuleType /\ s[i] = repaired(rules[i])
  BY <1>1
<1>4. DOMAIN s = 1 .. Len(rules) /\ DOMAIN rules = 1 .. Len(rules) /\ Len(rules) \in Nat
  BY <1>1
<1>5. s \in [1 .. Len(rules) -> RuleType]
  BY <1>1, <1>2, <1>3, <1>4
<1>6. s \in Seq(RuleType)
  BY <1>4, <1>5
<1>7. \A i \in DOMAIN rules : s[i] \in Range(s) /\ s[i].cidr = rules[i].cidr /\ s[i].name = rules[i].name
  BY <1>2, <1>3, <1>4 DEF Range
<1>8. \A old \in Range(rules) : \E new \in Range(s) : new.cidr = old.cidr /\ new.name = old.name
  BY <1>7 DEF Range
<1> QED
  BY <1>6, <1>8 DEF s

LEMMA LookedType ==
  ASSUME NEW d \in RunType, NEW ip, NEW after \in Looked(d, ip)
  PROVE  /\ after[1] \in Seq(RuleType)
         /\ after[2] \in SUBSET {FamilyOf[n.name] : n \in Networks}
<1> DEFINE ranges == Compile(d.existing \o d.found)
           same(n) == {m \in Networks : FamilyOf[m.name] = FamilyOf[n.name]}
           Found(n, answered) == <<d.found \o DiscoverFromRdap(ranges, n, answered),
                                   d.searched \cup ({FamilyOf[n.name]} \ {Unlisted})>>
<1>1. d.found \in Seq(RuleType) /\ d.searched \in SUBSET {FamilyOf[n.name] : n \in Networks}
  BY DEF RunType
<1>2. \/ after = <<d.found, d.searched>>
      \/ \E n \in NetworksOf(ip) : \E answered \in SUBSET same(n) : after = Found(n, answered)
  BY DEF Looked
<1>3. ASSUME NEW n \in NetworksOf(ip), NEW answered \in SUBSET same(n), after = Found(n, answered)
      PROVE  /\ after[1] \in Seq(RuleType)
             /\ after[2] \in SUBSET {FamilyOf[m.name] : m \in Networks}
  <2>1. n \in Networks
    BY DEF NetworksOf
  <2>2. answered \in SUBSET Networks
    OBVIOUS
  <2>3. PICK more : more = DiscoverFromRdap(ranges, n, answered)
    OBVIOUS
  <2>4. more \in Seq(RuleType)
    <3> HIDE DEF ranges
    <3> QED
      BY <2>1, <2>2, <2>3, DiscoveredType
  <2>5. d.found \o more \in Seq(RuleType)
    BY <1>1, <2>4
  <2>6. after = <<d.found \o more, d.searched \cup ({FamilyOf[n.name]} \ {Unlisted})>>
    BY <1>3, <2>3
  <2> HIDE DEF ranges, same, Found
  <2> QED
    BY <1>1, <2>1, <2>5, <2>6
<1> HIDE DEF Found, same
<1> QED
  BY <1>1, <1>2, <1>3

\* The invariant of the overlay's part.
RunsKnow == OverlayTyped /\ BasesAreKnown

LEMMA SetRun ==
  ASSUME OverlayTyped, NEW r \in Runs, NEW d \in RunType, run' = [run EXCEPT ![r] = d]
  PROVE  run' \in [Runs -> RunType] /\ run'[r] = d /\ \A x \in Runs \ {r} : run'[x] = run[x]
BY DEF OverlayTyped

LEMMA OverlaysStay ==
  ASSUME OverlayTyped, NEW o \in Seq(RuleType), published' = Append(published, o)
  PROVE  /\ published' \in Seq(Seq(RuleType)) /\ Version' = Version + 1 /\ Version \in Nat
         /\ \A v \in 0 .. Version : Overlay(v)' = Overlay(v)
         /\ published'[Version'] = o
BY DEF OverlayTyped, Version, Overlay

LEMMA OverlayType ==
  ASSUME OverlayTyped
  PROVE  Version \in Nat /\ \A v \in 0 .. Version : Overlay(v) \in Seq(RuleType)
BY DEF OverlayTyped, Version, Overlay

LEMMA IdleType == Idle \in RunType /\ \A pc \in Stages : [Idle EXCEPT !.pc = pc] \in RunType
<1>1. ASSUME NEW p \in Stages PROVE [Idle EXCEPT !.pc = p] \in RunType
  <2>1. Idle = [pc |-> "idle", base |-> Unlisted, existing |-> <<>>, found |-> <<>>,
                left |-> {}, searched |-> {}]
    BY DEF Idle
  <2>2. <<>> \in Seq(RuleType) /\ {} \in SUBSET Archived
    OBVIOUS
  <2>3. Idle \in RunType
    BY <2>1, <2>2 DEF RunType, Stages
  <2> QED
    BY <2>3 DEF RunType
<1>2. Idle \in RunType
  BY DEF Idle, RunType, Stages
<1> QED
  BY <1>1, <1>2

LEMMA StartDiscoveryKnown ==
  ASSUME RunsKnow, NEW r \in Runs, StartDiscovery(r)
  PROVE  RunsKnow'
<1>1. PICK ips \in ArchiveReadings, base \in {Version, Unlisted} :
        run' = [run EXCEPT ![r] =
                 [@ EXCEPT !.pc = "walking", !.base = base, !.left = ips,
                           !.existing = Overlay(IF base = Unlisted THEN 0 ELSE base)]]
  BY DEF StartDiscovery
<1>2. PICK d : d = [run[r] EXCEPT !.pc = "walking", !.base = base, !.left = ips,
                                  !.existing = Overlay(IF base = Unlisted THEN 0 ELSE base)]
  OBVIOUS
<1>3. run' = [run EXCEPT ![r] = d] /\ published' = published
  BY <1>1, <1>2 DEF StartDiscovery
<1>4. run[r] \in RunType /\ OverlayTyped
  BY DEF RunsKnow, OverlayTyped
<1>5. PICK e \in Seq(RuleType) : e = Overlay(IF base = Unlisted THEN 0 ELSE base)
  BY <1>4, OverlayType
<1>6. base \in Nat \cup {Unlisted} /\ ips \in SUBSET Archived
  BY <1>4, OverlayType DEF ArchiveReadings
<1>7. d \in RunType /\ d.base = base /\ d.existing = e
  BY <1>2, <1>4, <1>5, <1>6 DEF RunType, Stages
<1>8. run' \in [Runs -> RunType] /\ run'[r] = d /\ \A x \in Runs \ {r} : run'[x] = run[x]
  BY <1>3, <1>4, <1>7, SetRun
<1>9. Version' = Version /\ \A v : Overlay(v)' = Overlay(v)
  BY <1>3 DEF Version, Overlay
<1>10. base # Unlisted => base \in 0 .. Version /\ e = Overlay(base)
  BY <1>4, <1>5, OverlayType
<1>11. KnowsItsBase(r)'
  BY <1>7, <1>8, <1>9, <1>10 DEF KnowsItsBase
<1>12. \A x \in Runs \ {r} : KnowsItsBase(x)'
  BY <1>8, <1>9 DEF KnowsItsBase, RunsKnow, BasesAreKnown
<1> QED
  BY <1>3, <1>4, <1>8, <1>11, <1>12 DEF RunsKnow, OverlayTyped, BasesAreKnown

LEMMA WalkIpKnown ==
  ASSUME RunsKnow, NEW r \in Runs, NEW ip, WalkIp(r, ip)
  PROVE  RunsKnow'
<1>1. PICK after \in Looked(run[r], ip) :
        run' = [run EXCEPT ![r] = [@ EXCEPT !.left = run[r].left \ {ip},
                                            !.found = after[1], !.searched = after[2]]]
  BY DEF WalkIp
<1>2. PICK d : d = [run[r] EXCEPT !.left = run[r].left \ {ip}, !.found = after[1], !.searched = after[2]]
  OBVIOUS
<1>3. run' = [run EXCEPT ![r] = d] /\ published' = published
  <2>1. published' = published
    BY DEF WalkIp
  <2>2. run' = [run EXCEPT ![r] =
                  [run[r] EXCEPT !.left = run[r].left \ {ip}, !.found = after[1],
                                 !.searched = after[2]]]
    BY <1>1
  <2>3. run' = [run EXCEPT ![r] = d]
    BY <1>2, <2>2
  <2> QED
    BY <2>1, <2>3
<1>4. run[r] \in RunType /\ OverlayTyped
  BY DEF RunsKnow, OverlayTyped
<1>5. after[1] \in Seq(RuleType) /\ after[2] \in SUBSET {FamilyOf[n.name] : n \in Networks}
  BY <1>4, LookedType
<1>6. d \in RunType /\ d.pc = run[r].pc /\ d.base = run[r].base /\ d.existing = run[r].existing
  BY <1>2, <1>4, <1>5 DEF RunType
<1>7. run' \in [Runs -> RunType] /\ run'[r] = d /\ \A x \in Runs \ {r} : run'[x] = run[x]
  BY <1>3, <1>4, <1>6, SetRun
<1>8. Version' = Version /\ \A v : Overlay(v)' = Overlay(v)
  BY <1>3 DEF Version, Overlay
<1>9. \A x \in Runs : KnowsItsBase(x)'
  BY <1>6, <1>7, <1>8 DEF KnowsItsBase, RunsKnow, BasesAreKnown
<1> QED
  BY <1>3, <1>4, <1>7, <1>9 DEF RunsKnow, OverlayTyped, BasesAreKnown

LEMMA StartRepairKnown ==
  ASSUME RunsKnow, NEW r \in Runs, StartRepair(r)
  PROVE  RunsKnow'
<1>1. PICK d : d = [run[r] EXCEPT !.pc = "repairing", !.base = Version,
                                  !.existing = Overlay(Version)]
  OBVIOUS
<1>2. run' = [run EXCEPT ![r] = d] /\ published' = published
  BY <1>1 DEF StartRepair
<1>3. run[r] \in RunType /\ OverlayTyped
  BY DEF RunsKnow, OverlayTyped
<1>4. PICK e \in Seq(RuleType), v \in Nat : e = Overlay(Version) /\ v = Version
  BY <1>3, OverlayType
<1>5. d \in RunType /\ d.base = Version /\ d.existing = Overlay(Version)
  BY <1>1, <1>3, <1>4 DEF RunType, Stages
<1>6. run' \in [Runs -> RunType] /\ run'[r] = d /\ \A x \in Runs \ {r} : run'[x] = run[x]
  BY <1>2, <1>3, <1>5, SetRun
<1>7. Version' = Version /\ \A u : Overlay(u)' = Overlay(u)
  BY <1>2 DEF Version, Overlay
<1>8. KnowsItsBase(r)'
  <2>1. PICK o : o = Overlay(v)
    OBVIOUS
  <2>2. Overlay(v)' = o
    BY <1>7, <2>1
  <2> QED
    BY <1>4, <1>5, <1>6, <1>7, <2>1, <2>2 DEF KnowsItsBase
<1>9. \A x \in Runs \ {r} : KnowsItsBase(x)'
  BY <1>6, <1>7 DEF KnowsItsBase, RunsKnow, BasesAreKnown
<1> QED
  BY <1>2, <1>3, <1>6, <1>8, <1>9 DEF RunsKnow, OverlayTyped, BasesAreKnown

\* A run ends, with a new version of the overlay or without one.
LEMMA EndKnown ==
  ASSUME RunsKnow, NEW r \in Runs, NEW pc \in {"written", "failed"}, Done(r, pc),
         \/ published' = published
         \/ \E o \in Seq(RuleType) : published' = Append(published, o)
  PROVE  RunsKnow'
<1>1. OverlayTyped
  BY DEF RunsKnow
<1>2. PICK d : d = [Idle EXCEPT !.pc = pc]
  OBVIOUS
<1>3. d \in RunType /\ d.pc = pc
  BY <1>2, IdleType DEF Idle, Stages
<1>4. run' = [run EXCEPT ![r] = d]
  BY <1>2 DEF Done
<1>5. run' \in [Runs -> RunType] /\ run'[r] = d /\ \A x \in Runs \ {r} : run'[x] = run[x]
  BY <1>1, <1>3, <1>4, SetRun
<1>6. /\ published' \in Seq(Seq(RuleType)) /\ Version \in Nat /\ Version' \in {Version, Version + 1}
      /\ \A v \in 0 .. Version : Overlay(v)' = Overlay(v)
  <2>1. CASE published' = published
    BY <1>1, <2>1 DEF OverlayTyped, Version, Overlay
  <2>2. CASE \E o \in Seq(RuleType) : published' = Append(published, o)
    BY <1>1, <2>2, OverlaysStay
  <2> QED
    BY <2>1, <2>2
<1>7. KnowsItsBase(r)'
  BY <1>3, <1>5 DEF KnowsItsBase
<1>8. ASSUME NEW x \in Runs \ {r} PROVE KnowsItsBase(x)'
  <2>1. KnowsItsBase(x) /\ run'[x] = run[x]
    BY <1>5 DEF RunsKnow, BasesAreKnown
  <2> QED
    BY <1>6, <2>1 DEF KnowsItsBase
<1> QED
  BY <1>5, <1>6, <1>7, <1>8 DEF RunsKnow, OverlayTyped, BasesAreKnown

LEMMA WrittenType ==
  ASSUME OverlayTyped, NEW r \in Runs
  PROVE  /\ Merged(run[r]) \in Seq(RuleType) /\ Reclassified(run[r].existing) \in Seq(RuleType)
         /\ run[r].existing \in Seq(RuleType)
<1>1. run[r] \in RunType /\ run[r].existing \in Seq(RuleType)
  BY DEF OverlayTyped, RunType
<1> QED
  BY <1>1, MergedFacts, ReclassifiedFacts

LEMMA OverlayStep == RunsKnow /\ [OverlayNext]_overlayVars => RunsKnow'
<1> SUFFICES ASSUME RunsKnow, [OverlayNext]_overlayVars PROVE RunsKnow'
  OBVIOUS
<1>0. OverlayTyped
  BY DEF RunsKnow
<1>1. CASE UNCHANGED overlayVars
  BY <1>1 DEF overlayVars, RunsKnow, OverlayTyped, BasesAreKnown, KnowsItsBase, Version, Overlay
<1>2. ASSUME NEW r \in DiscoverRuns, StartDiscovery(r) PROVE RunsKnow'
  BY <1>2, StartDiscoveryKnown DEF Runs
<1>3. ASSUME NEW r \in DiscoverRuns, NEW ip \in Archived, WalkIp(r, ip) PROVE RunsKnow'
  BY <1>3, WalkIpKnown DEF Runs
<1>4. ASSUME NEW r \in DiscoverRuns, WriteOverlay(r) PROVE RunsKnow'
  <2>1. r \in Runs
    BY DEF Runs
  <2>2. Merged(run[r]) \in Seq(RuleType)
    BY <1>0, <2>1, WrittenType
  <2> QED
    BY <1>4, <2>1, <2>2, EndKnown DEF WriteOverlay
<1>5. ASSUME NEW r \in RepairRuns, StartRepair(r) PROVE RunsKnow'
  BY <1>5, StartRepairKnown DEF Runs
<1>6. ASSUME NEW r \in RepairRuns, WriteRepaired(r) PROVE RunsKnow'
  <2>1. r \in Runs
    BY DEF Runs
  <2>2. Reclassified(run[r].existing) \in Seq(RuleType)
    BY <1>0, <2>1, WrittenType
  <2> QED
    BY <1>6, <2>1, <2>2, EndKnown DEF WriteRepaired
<1> QED
  BY <1>1, <1>2, <1>3, <1>4, <1>5, <1>6 DEF OverlayNext

LEMMA OverlayMoves == [Next]_vars => [OverlayNext]_overlayVars
BY DEF Next, vars

LEMMA OverlayInvariant == Spec => []RunsKnow
<1>1. Init => RunsKnow
  <2> SUFFICES ASSUME Init PROVE RunsKnow
    OBVIOUS
  <2>1. published = <<>> /\ run = [r \in Runs |-> Idle]
    BY DEF Init, OverlayInit
  <2>2. \A r \in Runs : run[r] = Idle /\ run[r].pc = "idle"
    BY <2>1 DEF Idle
  <2> QED
    BY <2>1, <2>2, IdleType DEF RunsKnow, OverlayTyped, BasesAreKnown, KnowsItsBase
<1>2. RunsKnow /\ [Next]_vars => RunsKnow'
  BY OverlayStep, OverlayMoves
<1> QED
  BY <1>1, <1>2, PTL DEF Spec

\* For any archive and registries: what the lookup finds is a rule for the
\* address, and it misses none where the blocks of an overlay are disjoint.
THEOREM LookupsAreExact == Spec => []LookupIsExact
<1>1. RunsKnow => LookupIsExact
  <2> SUFFICES ASSUME OverlayTyped, NEW a \in Archived
               PROVE  LET ranges == Compile(Overlay(Version))
                          hit == LookupInRanges(ranges, a)
                      IN /\ hit # Unlisted => hit \in Covering(Overlay(Version), a)
                         /\ hit = Unlisted /\ Disjoint(ranges) => Covering(Overlay(Version), a) = {}
    BY DEF RunsKnow, LookupIsExact
  <2>1. Overlay(Version) \in Seq(RuleType)
    BY OverlayType
  <2>2. a \in Int
    BY ArchivedAssumption DEF Addresses
  <2> QED
    BY <2>1, <2>2, RuleTypeForBlocks, UnlistedAssumption, LookupFacts
<1> QED
  BY <1>1, OverlayInvariant, PTL

LostUnseen ==
  \A r \in Runs :
    (Version' > Version /\ run'[r].pc = "written" /\ run[r].pc # "written"
     /\ run[r].base = Version) =>
      \A old \in Range(Overlay(Version)) : \E new \in Range(published'[Version']) :
        new.cidr = old.cidr /\ new.name = old.name

\* Whoever writes the overlay having seen the version it replaces keeps every
\* block and name of it, whatever other runs do and whatever can be read.
THEOREM RulesAreKept == Spec => RulesLostOnlyUnseen
<1>1. RunsKnow /\ [Next]_vars => [LostUnseen]_overlayVars
  <2> SUFFICES ASSUME RunsKnow, OverlayNext, NEW r \in Runs, Version' > Version,
                      run'[r].pc = "written", run[r].pc # "written", run[r].base = Version
               PROVE  \A old \in Range(Overlay(Version)) : \E new \in Range(published'[Version']) :
                        new.cidr = old.cidr /\ new.name = old.name
    BY OverlayMoves DEF LostUnseen
  <2>1. OverlayTyped /\ Version \in Nat /\ run \in [Runs -> RunType]
    BY OverlayType DEF RunsKnow, OverlayTyped
  <2>2. ~UNCHANGED published
    BY <2>1 DEF Version
  <2>3. PICK x \in Runs : \/ WriteOverlay(x) /\ published' = Append(published, Merged(run[x]))
                          \/ WriteRepaired(x)
    BY <2>2 DEF OverlayNext, StartDiscovery, WalkIp, WriteOverlay, StartRepair, Runs
  <2>4. run' = [run EXCEPT ![x] = [Idle EXCEPT !.pc = "written"]]
    BY <2>2, <2>3 DEF WriteOverlay, WriteRepaired, Done
  <2>5. x = r
    BY <2>1, <2>4
  <2>6. run[r].pc \in {"walking", "repairing"}
    BY <2>3, <2>5 DEF WriteOverlay, WriteRepaired
  <2>7. run[r].existing = Overlay(Version)
    BY <2>1, <2>6, UnlistedAssumption DEF RunsKnow, BasesAreKnown, KnowsItsBase
  <2>8. CASE published' = Append(published, Merged(run[r]))
    <3>1. run[r] \in RunType /\ Merged(run[r]) \in Seq(RuleType)
      BY <2>1, WrittenType
    <3>2. published'[Version'] = Merged(run[r])
      BY <2>1, <2>8, <3>1, OverlaysStay
    <3>3. Range(Overlay(Version)) \subseteq Range(Merged(run[r]))
      BY <2>7, <3>1, MergedFacts
    <3> QED
      BY <3>2, <3>3
  <2>9. CASE WriteRepaired(r)
    <3>1. run[r].existing \in Seq(RuleType) /\ Reclassified(run[r].existing) \in Seq(RuleType)
      BY <2>1, WrittenType
    <3>2. published'[Version'] = Reclassified(run[r].existing)
      BY <2>1, <2>9, <3>1, OverlaysStay DEF WriteRepaired
    <3> QED
      BY <2>7, <3>1, <3>2, ReclassifiedFacts
  <2> QED
    BY <2>3, <2>5, <2>8, <2>9
<1> QED
  BY <1>1, OverlayInvariant, PTL DEF Spec, RulesLostOnlyUnseen, LostUnseen

-----------------------------------------------------------------------------
(* Flattening: every row of every batch.                                   *)

\* FlattenSeq is a solution of this equation, if there is one.
FlatStep(seqs, f, i) == IF i = 1 THEN seqs[i] ELSE f[i - 1] \o seqs[i]
Flat(seqs, f) == [i \in 1 .. Len(seqs) |-> FlatStep(seqs, f, i)]

LEMMA FlattenIsFlat ==
  ASSUME NEW seqs
  PROVE  FlattenSeq(seqs) =
           IF Len(seqs) = 0 THEN seqs ELSE (CHOOSE f : f = Flat(seqs, f))[Len(seqs)]
BY DEF FlattenSeq, Flat, FlatStep

LEMMA FlatHasSolution ==
  ASSUME NEW seqs, NEW n \in Nat, n = Len(seqs)
  PROVE  \E f : f = Flat(seqs, f)
<1> DEFINE Solves(f, k) == \A i \in 1 .. n : i <= k => f[i] = FlatStep(seqs, f, i)
           T == {k \in Nat : ~ \E f : Solves(f, k)}
<1>1. \E f : Solves(f, 0)
  OBVIOUS
<1>2. ASSUME NEW k \in Nat, NEW f, Solves(f, k)
      PROVE  \E g : Solves(g, k + 1)
  <2> DEFINE g == [i \in 1 .. n |-> FlatStep(seqs, f, i)]
  <2>1. \A i \in 1 .. n : g[i] = FlatStep(seqs, f, i)
    OBVIOUS
  <2> HIDE DEF g
  <2>2. \A i \in 1 .. n : i <= k => f[i] = g[i]
    BY <1>2, <2>1
  <2>3. ASSUME NEW i \in 1 .. n, i <= k + 1 PROVE g[i] = FlatStep(seqs, g, i)
    <3>1. CASE i = 1
      BY <2>1, <3>1 DEF FlatStep
    <3>2. CASE i # 1
      <4>1. i - 1 \in 1 .. n /\ i - 1 <= k
        BY <2>3, <3>2
      <4>2. f[i - 1] = g[i - 1]
        BY <2>2, <4>1
      <4> QED
        BY <2>1, <3>2, <4>2 DEF FlatStep
    <3> QED
      BY <3>1, <3>2
  <2> QED
    BY <2>3
<1> HIDE DEF Solves
<1>3. T = {}
  <2> SUFFICES ASSUME T # {} PROVE FALSE
    OBVIOUS
  <2>1. PICK m \in T : \A x \in T : m <= x
    BY LeastOf
  <2>2. m # 0
    BY <1>1
  <2>3. m - 1 \in Nat /\ m - 1 \notin T
    BY <2>1, <2>2
  <2>4. PICK f : Solves(f, m - 1)
    BY <2>3
  <2>5. PICK k : k = m - 1
    OBVIOUS
  <2>6. \E g : Solves(g, k + 1)
    BY <1>2, <2>3, <2>4, <2>5
  <2> QED
    BY <2>5, <2>6
<1>4. PICK f : Solves(f, n)
  BY <1>3
<1>5. \A i \in 1 .. n : f[i] = FlatStep(seqs, f, i)
  BY <1>4 DEF Solves
<1> DEFINE g == [i \in 1 .. n |-> f[i]]
<1>6. \A i \in 1 .. n : g[i] = FlatStep(seqs, g, i)
  <2> SUFFICES ASSUME NEW i \in 1 .. n PROVE g[i] = FlatStep(seqs, g, i)
    OBVIOUS
  <2>1. i # 1 => g[i - 1] = f[i - 1]
    OBVIOUS
  <2>2. g[i] = f[i]
    OBVIOUS
  <2> HIDE DEF g
  <2> QED
    BY <1>5, <2>1, <2>2 DEF FlatStep
<1>7. g = [i \in 1 .. n |-> FlatStep(seqs, g, i)]
  BY <1>6
<1> HIDE DEF g
<1>8. g = Flat(seqs, g)
  BY <1>7 DEF Flat
<1> QED
  BY <1>8

\* Flattening keeps every element and adds none.
LEMMA FlattenFacts ==
  ASSUME NEW T, NEW seqs \in Seq(Seq(T))
  PROVE  FlattenSeq(seqs) \in Seq(T) /\ Range(FlattenSeq(seqs)) = RowsOf(seqs)
<1> DEFINE n == Len(seqs)
<1>1. n \in Nat /\ DOMAIN seqs = 1 .. n /\ \A i \in 1 .. n : seqs[i] \in Seq(T)
  OBVIOUS
<1>2. CASE n = 0
  <2>1. FlattenSeq(seqs) = <<>> /\ seqs = <<>>
    BY <1>2, FlattenIsFlat
  <2>2. Range(seqs) = {}
    BY <2>1 DEF Range
  <2> QED
    BY <2>1, <2>2 DEF Range, RowsOf
<1>3. CASE n # 0
  <2> DEFINE f == CHOOSE f : f = Flat(seqs, f)
  <2>1. f = Flat(seqs, f)
    <3>1. \E g : g = Flat(seqs, g)
      BY <1>1, FlatHasSolution
    <3> QED
      BY <3>1
  <2>2. FlattenSeq(seqs) = f[n]
    BY <1>3, FlattenIsFlat
  <2> HIDE DEF f
  <2>3. \A i \in 1 .. n : f[i] = FlatStep(seqs, f, i)
    <3> DEFINE g == [i \in 1 .. n |-> FlatStep(seqs, f, i)]
    <3>1. f = g
      BY <2>1 DEF Flat
    <3>2. \A i \in 1 .. n : g[i] = FlatStep(seqs, f, i)
      OBVIOUS
    <3> HIDE DEF g
    <3> QED
      BY <3>1, <3>2
  <2> DEFINE Upto(k) == UNION {Range(seqs[i]) : i \in 1 .. k}
             Right(k) == f[k] \in Seq(T) /\ Range(f[k]) = Upto(k)
             Wrong == {k \in Nat : k \in 1 .. n /\ ~Right(k)}
  <2>4. Right(1)
    <3>1. f[1] = seqs[1]
      BY <1>1, <1>3, <2>3 DEF FlatStep
    <3>2. Upto(1) = Range(seqs[1])
      <4>1. 1 .. 1 = {1}
        OBVIOUS
      <4> QED
        BY <4>1
    <3> QED
      BY <1>1, <1>3, <3>1, <3>2
  <2>5. ASSUME NEW k \in 2 .. n, Right(k - 1) PROVE Right(k)
    <3>1. f[k] = f[k - 1] \o seqs[k]
      <4>1. k \in 1 .. n /\ k # 1
        BY <1>1, <2>5
      <4>2. f[k] = FlatStep(seqs, f, k)
        BY <2>3, <4>1
      <4> QED
        BY <4>1, <4>2 DEF FlatStep
    <3>2. PICK s, t \in Seq(T) : s = f[k - 1] /\ t = seqs[k]
      BY <1>1, <2>5
    <3>3. s \o t \in Seq(T) /\ Range(s \o t) = Range(s) \cup Range(t)
      <4>1. \A i \in DOMAIN s : i \in DOMAIN (s \o t) /\ (s \o t)[i] = s[i]
        OBVIOUS
      <4>2. \A i \in DOMAIN t : Len(s) + i \in DOMAIN (s \o t) /\ (s \o t)[Len(s) + i] = t[i]
        OBVIOUS
      <4>3. \A i \in DOMAIN (s \o t) : \/ i \in DOMAIN s /\ (s \o t)[i] = s[i]
                                       \/ i - Len(s) \in DOMAIN t /\ (s \o t)[i] = t[i - Len(s)]
        OBVIOUS
      <4>4. s \o t \in Seq(T)
        OBVIOUS
      <4>5. PICK u : u = s \o t
        OBVIOUS
      <4>6. ASSUME NEW x PROVE x \in Range(u) <=> x \in Range(s) \cup Range(t)
        <5>1. x \in Range(s) => x \in Range(u)
          BY <4>1, <4>5 DEF Range
        <5>2. x \in Range(t) => x \in Range(u)
          BY <4>2, <4>5 DEF Range
        <5>3. x \in Range(u) => x \in Range(s) \/ x \in Range(t)
          BY <4>3, <4>5 DEF Range
        <5> QED
          BY <5>1, <5>2, <5>3
      <4> QED
        BY <4>4, <4>5, <4>6
    <3>4. Upto(k) = Upto(k - 1) \cup Range(seqs[k])
      <4>1. 1 .. k = (1 .. k - 1) \cup {k}
        OBVIOUS
      <4> QED
        BY <4>1
    <3> QED
      BY <2>5, <3>1, <3>2, <3>3, <3>4
  <2> HIDE DEF Right
  <2>6. Wrong = {}
    <3> SUFFICES ASSUME Wrong # {} PROVE FALSE
      OBVIOUS
    <3>1. PICK m \in Wrong : \A x \in Wrong : m <= x
      BY LeastOf
    <3>2. m \in 2 .. n
      BY <2>4, <3>1
    <3>3. Right(m - 1)
      BY <3>1, <3>2
    <3> QED
      BY <2>5, <3>1, <3>2, <3>3
  <2>7. Right(n)
    BY <1>1, <1>3, <2>6
  <2>8. Upto(n) = RowsOf(seqs)
    <3>1. Range(seqs) = {seqs[i] : i \in 1 .. n}
      BY <1>1 DEF Range
    <3> HIDE DEF n
    <3>2. \A x : x \in UNION {Range(b) : b \in Range(seqs)} <=> \E i \in 1 .. n : x \in Range(seqs[i])
      BY <3>1
    <3>3. \A x : x \in Upto(n) <=> \E i \in 1 .. n : x \in Range(seqs[i])
      OBVIOUS
    <3> QED
      BY <3>2, <3>3 DEF RowsOf
  <2> QED
    BY <2>2, <2>7, <2>8 DEF Right
<1> QED
  BY <1>2, <1>3

-----------------------------------------------------------------------------
(* The histograms of browsers.                                             *)

\* What a run read is of the archive, and what was uploaded was made of such
\* rows.
Learned ==
  /\ archive \in Seq(Seq(RowsOf(archive)))
  /\ aggregation.rows \in Seq(RowsOf(archive))
  /\ baselines # NoValue => \E rows \in Seq(RowsOf(archive)) : baselines = Aggregate(rows)

LEMMA ReadRows ==
  ASSUME NEW T, archive \in Seq(Seq(T)), NEW readable
  PROVE  FlattenSeq([b \in DOMAIN archive |-> LoadRawSessions(b, readable)]) \in Seq(T)
<1> DEFINE s == [b \in DOMAIN archive |-> LoadRawSessions(b, readable)]
<1>1. \A b \in DOMAIN archive : LoadRawSessions(b, readable) \in Seq(T)
  BY DEF LoadRawSessions
<1>2. Len(archive) \in Nat /\ s \in [1 .. Len(archive) -> Seq(T)]
  BY <1>1
<1>3. s \in Seq(Seq(T))
  BY <1>2
<1> HIDE DEF s
<1>4. FlattenSeq(s) \in Seq(T)
  BY <1>3, FlattenFacts
<1> QED
  BY <1>4 DEF s

LEMMA LearnedStep == Learned /\ [BaselineNext]_baselineVars => Learned'
<1> SUFFICES ASSUME Learned, [BaselineNext]_baselineVars PROVE Learned'
  OBVIOUS
<1>1. archive' = archive
  BY DEF BaselineNext, ReadArchive, UploadBaselines, baselineVars
<1>2. PICK T : T = RowsOf(archive)
  OBVIOUS
<1>3. RowsOf(archive)' = T
  BY <1>1, <1>2 DEF RowsOf, Range
<1>4. /\ archive \in Seq(Seq(T)) /\ aggregation.rows \in Seq(T)
      /\ baselines # NoValue => \E rows \in Seq(T) : baselines = Aggregate(rows)
  BY <1>2 DEF Learned
<1>5. /\ aggregation'.rows \in Seq(T)
      /\ baselines' # NoValue => \E rows \in Seq(T) : baselines' = Aggregate(rows)
  <2>1. CASE ReadArchive
    <3>1. PICK readable : aggregation' = [pc |-> "read",
            rows |-> FlattenSeq([b \in DOMAIN archive |-> LoadRawSessions(b, readable)])]
      BY <2>1 DEF ReadArchive
    <3>2. aggregation'.rows \in Seq(T)
      BY <1>4, <3>1, ReadRows
    <3> QED
      BY <1>4, <2>1, <3>2 DEF ReadArchive
  <2>2. CASE UploadBaselines
    <3>1. aggregation'.rows = <<>>
      BY <2>2 DEF UploadBaselines
    <3>2. baselines' = Aggregate(aggregation.rows) \/ baselines' = baselines
      BY <2>2 DEF UploadBaselines
    <3> QED
      BY <1>4, <3>1, <3>2
  <2>3. CASE UNCHANGED baselineVars
    BY <1>4, <2>3 DEF baselineVars
  <2> QED
    BY <2>1, <2>2, <2>3 DEF BaselineNext
<1>6. archive' \in Seq(Seq(T))
  BY <1>1, <1>4
<1> QED
  <2>1. PICK S : S = RowsOf(archive)'
    OBVIOUS
  <2>2. S = T
    BY <1>3, <2>1
  <2> QED
    BY <1>5, <1>6, <2>1, <2>2 DEF Learned

LEMMA LearnedInvariant == Spec => []Learned
<1>1. Init => Learned
  <2> SUFFICES ASSUME Init PROVE Learned
    OBVIOUS
  <2>1. archive \in Archives /\ baselines = NoValue /\ aggregation.rows = <<>>
    BY DEF Init, BaselineInit
  <2> QED
    BY <2>1, ArchivesAssumption DEF Learned
<1>2. [Next]_vars => [BaselineNext]_baselineVars
  BY DEF Next, vars
<1>3. Learned /\ [Next]_vars => Learned'
  BY <1>2, LearnedStep
<1> QED
  BY <1>1, <1>3, PTL DEF Spec

\* The rows that make the histograms of a browser.
Counted(rows, k) == {i \in Kept(rows) : BrowserKey(rows[i]) = k}

LEMMA KeptFacts ==
  ASSUME NEW rows, NEW i \in Kept(rows)
  PROVE  /\ i \in DOMAIN rows /\ Observed(rows[i])
         /\ \A j \in Kept(rows) : DedupKey(rows, j) = DedupKey(rows, i) => i <= j
BY DEF Kept

\* The rows counted for a value are of as many addresses and days.
LEMMA OncePerAddress ==
  ASSUME NEW T, NEW rows \in Seq(T), NEW k, NEW C, C \subseteq Counted(rows, k),
         NEW W, IsFiniteSet(W), \A i \in C : <<rows[i].ip, rows[i].day>> \in W
  PROVE  Cardinality(C) <= Cardinality(W)
<1> DEFINE f == [i \in C |-> <<rows[i].ip, rows[i].day>>]
<1>1. ASSUME NEW i \in C, NEW j \in C, f[i] = f[j] PROVE i = j
  <2>1. i \in Kept(rows) /\ j \in Kept(rows) /\ BrowserKey(rows[i]) = BrowserKey(rows[j])
    BY DEF Counted
  <2>2. rows[i].ip = rows[j].ip /\ rows[i].day = rows[j].day
    BY <1>1
  <2>3. DedupKey(rows, i) = DedupKey(rows, j)
    BY <2>1, <2>2 DEF DedupKey
  <2>4. i <= j /\ j <= i /\ i \in DOMAIN rows /\ j \in DOMAIN rows
    BY <2>1, <2>3, KeptFacts
  <2> QED
    BY <2>4
<1>2. f \in Injection(C, W)
  BY <1>1 DEF Injection, IsInjective
<1> HIDE DEF f
<1> QED
  BY <1>2, FS_Injection

\* What a row that is learned from has shown of itself.
LEMMA ObservedIsEarned ==
  ASSUME NEW row, Observed(row)
  PROVE  /\ ~row.tampered /\ ~row.automated
         /\ TlsTrustworthy(row) => ~row.proxyDetected /\ row.asnCategory \in CleanNetworks
<1>1. ClassifySessionForTraining(row) # "drop"
  BY DEF Observed
<1>2. ~row.tampered /\ ~row.automated
  BY <1>1 DEF ClassifySessionForTraining
<1>3. ASSUME TlsTrustworthy(row)
      PROVE  ~row.proxyDetected /\ row.asnCategory \in CleanNetworks
  <2>1. ClassifySessionForTraining(row) = "both"
    BY <1>3 DEF TlsTrustworthy
  <2>2. ~(ClassifyByAsnCategory(row) = "both" /\ row.proxyDetected) /\ ClassifyByAsnCategory(row) = "both"
    BY <1>2, <2>1 DEF ClassifySessionForTraining
  <2>3. row.asnCategory \in CleanNetworks
    BY <2>2 DEF ClassifyByAsnCategory
  <2> QED
    BY <2>2, <2>3
<1> QED
  BY <1>2, <1>3

\* Rows of the archive that show the value on a device and a line nothing was
\* held against.
JsVouchers(k, v) ==
  {<<Rows[i].ip, Rows[i].day>> :
     i \in {j \in DOMAIN Rows : BrowserKey(Rows[j]) = k
              /\ ((~Rows[j].tampered /\ ~Rows[j].automated) /\ Rows[j].js = v)}}
TlsVouchers(k, v) ==
  {<<Rows[i].ip, Rows[i].day>> :
     i \in {j \in DOMAIN Rows : BrowserKey(Rows[j]) = k
              /\ /\ ~Rows[j].tampered /\ ~Rows[j].automated /\ Rows[j].tls = v
                 /\ ~Rows[j].proxyDetected /\ Rows[j].asnCategory \in CleanNetworks}}

LEMMA VouchersFinite ==
  ASSUME NEW T, archive \in Seq(Seq(T)), NEW k, NEW v
  PROVE  IsFiniteSet(JsVouchers(k, v)) /\ IsFiniteSet(TlsVouchers(k, v))
<1> DEFINE all == {<<Rows[i].ip, Rows[i].day>> : i \in DOMAIN Rows}
           f == [i \in DOMAIN Rows |-> <<Rows[i].ip, Rows[i].day>>]
<1>1. Rows \in Seq(T)
  BY FlattenFacts DEF Rows
<1>2. IsFiniteSet(DOMAIN Rows)
  <2>1. Len(Rows) \in Nat /\ DOMAIN Rows = 1 .. Len(Rows)
    BY <1>1
  <2> QED
    BY <2>1, FS_Interval
<1>3. f \in Surjection(DOMAIN Rows, all)
  BY DEF Surjection
<1>4. IsFiniteSet(all)
  <2> HIDE DEF f, all
  <2> QED
    BY <1>2, <1>3, FS_Surjection
<1>5. JsVouchers(k, v) \in SUBSET all /\ TlsVouchers(k, v) \in SUBSET all
  BY DEF JsVouchers, TlsVouchers
<1> HIDE DEF all
<1> QED
  BY <1>4, <1>5, FS_Subset

LEMMA RowsOfArchive ==
  ASSUME NEW T, archive \in Seq(Seq(T)), NEW rows \in Seq(RowsOf(archive)), NEW i \in DOMAIN rows
  PROVE  \E j \in DOMAIN Rows : Rows[j] = rows[i]
<1>1. Range(Rows) = RowsOf(archive)
  BY FlattenFacts DEF Rows
<1>2. rows[i] \in RowsOf(archive)
  OBVIOUS
<1> QED
  BY <1>1, <1>2 DEF Range

LEMMA JsVotesAreEarned ==
  ASSUME NEW T, archive \in Seq(Seq(T)), NEW rows \in Seq(RowsOf(archive)), NEW k, NEW v
  PROVE  Cardinality({i \in Counted(rows, k) : rows[i].js = v}) <= Cardinality(JsVouchers(k, v))
<1> DEFINE C == {i \in Counted(rows, k) : rows[i].js = v}
<1>1. ASSUME NEW i \in C PROVE <<rows[i].ip, rows[i].day>> \in JsVouchers(k, v)
  <2>1. i \in Kept(rows) /\ BrowserKey(rows[i]) = k /\ rows[i].js = v
    BY DEF Counted
  <2>2. i \in DOMAIN rows /\ Observed(rows[i])
    BY <2>1, KeptFacts
  <2>3. ~rows[i].tampered /\ ~rows[i].automated
    BY <2>2, ObservedIsEarned
  <2>4. PICK j \in DOMAIN Rows : Rows[j] = rows[i]
    BY <2>2, RowsOfArchive
  <2>5. BrowserKey(Rows[j]) = k /\ ((~Rows[j].tampered /\ ~Rows[j].automated) /\ Rows[j].js = v)
    BY <2>1, <2>3, <2>4
  <2> QED
    BY <2>4, <2>5 DEF JsVouchers
<1>2. C \subseteq Counted(rows, k)
  OBVIOUS
<1>3. IsFiniteSet(JsVouchers(k, v))
  BY VouchersFinite
<1> HIDE DEF C
<1>4. Cardinality(C) <= Cardinality(JsVouchers(k, v))
  BY <1>1, <1>2, <1>3, OncePerAddress
<1> QED
  BY <1>4 DEF C

LEMMA TlsVotesAreEarned ==
  ASSUME NEW T, archive \in Seq(Seq(T)), NEW rows \in Seq(RowsOf(archive)), NEW k, NEW v
  PROVE  Cardinality({i \in Counted(rows, k) : TlsTrustworthy(rows[i]) /\ rows[i].tls = v})
           <= Cardinality(TlsVouchers(k, v))
<1> DEFINE C == {i \in Counted(rows, k) : TlsTrustworthy(rows[i]) /\ rows[i].tls = v}
<1>1. ASSUME NEW i \in C PROVE <<rows[i].ip, rows[i].day>> \in TlsVouchers(k, v)
  <2>1. i \in Kept(rows) /\ BrowserKey(rows[i]) = k /\ rows[i].tls = v /\ TlsTrustworthy(rows[i])
    BY DEF Counted
  <2>2. i \in DOMAIN rows /\ Observed(rows[i])
    BY <2>1, KeptFacts
  <2>3. /\ ~rows[i].tampered /\ ~rows[i].automated
        /\ ~rows[i].proxyDetected /\ rows[i].asnCategory \in CleanNetworks
    BY <2>1, <2>2, ObservedIsEarned
  <2>4. PICK j \in DOMAIN Rows : Rows[j] = rows[i]
    BY <2>2, RowsOfArchive
  <2>5. BrowserKey(Rows[j]) = k
          /\ /\ ~Rows[j].tampered /\ ~Rows[j].automated /\ Rows[j].tls = v
             /\ ~Rows[j].proxyDetected /\ Rows[j].asnCategory \in CleanNetworks
    BY <2>1, <2>3, <2>4
  <2> QED
    BY <2>4, <2>5 DEF TlsVouchers
<1>2. C \subseteq Counted(rows, k)
  OBVIOUS
<1>3. IsFiniteSet(TlsVouchers(k, v))
  BY VouchersFinite
<1> HIDE DEF C
<1>4. Cardinality(C) <= Cardinality(TlsVouchers(k, v))
  BY <1>1, <1>2, <1>3, OncePerAddress
<1> QED
  BY <1>4 DEF C

CountsOf(h, rows, those) ==
  /\ \A v \in DOMAIN h.js : h.js[v] = Cardinality({i \in those : rows[i].js = v})
  /\ \A v \in DOMAIN h.tls :
       h.tls[v] = Cardinality({i \in those : TlsTrustworthy(rows[i]) /\ rows[i].tls = v})

LEMMA HistogramCounts ==
  ASSUME NEW rows, NEW those
  PROVE  CountsOf(Histogram(rows, those), rows, those)
<1> DEFINE js == [i \in those |-> rows[i].js]
           tls == [i \in those |-> rows[i].tls]
           trusted == {i \in those : TlsTrustworthy(rows[i])}
           h == Histogram(rows, those)
<1>1. h.js = [v \in {js[i] : i \in those} |-> Cardinality({i \in those : js[i] = v})]
  BY DEF Histogram
<1>2. h.tls = [v \in {tls[i] : i \in trusted} |-> Cardinality({i \in trusted : tls[i] = v})]
  BY DEF Histogram
<1>3. \A v : {i \in those : js[i] = v} = {i \in those : rows[i].js = v}
  OBVIOUS
<1>4. \A v : {i \in trusted : tls[i] = v} = {i \in those : TlsTrustworthy(rows[i]) /\ rows[i].tls = v}
  OBVIOUS
<1> HIDE DEF js, tls, trusted, h
<1>5. \A v \in DOMAIN h.js : h.js[v] = Cardinality({i \in those : rows[i].js = v})
  BY <1>1, <1>3
<1>6. \A v \in DOMAIN h.tls :
        h.tls[v] = Cardinality({i \in those : TlsTrustworthy(rows[i]) /\ rows[i].tls = v})
  BY <1>2, <1>4
<1> QED
  BY <1>5, <1>6 DEF h, CountsOf

\* Whatever the archive holds and whichever batches can be read, no value of a
\* browser counts more often than addresses and days vouch for it.
THEOREM VotesMustBeEarned == Spec => []VotesAreEarned
<1>1. Learned => VotesAreEarned
  <2> SUFFICES ASSUME Learned, baselines # NoValue, NEW k \in DOMAIN baselines.browsers
               PROVE  /\ \A v \in DOMAIN baselines.browsers[k].js :
                           baselines.browsers[k].js[v] <= Cardinality(JsVouchers(k, v))
                      /\ \A v \in DOMAIN baselines.browsers[k].tls :
                           baselines.browsers[k].tls[v] <= Cardinality(TlsVouchers(k, v))
    BY DEF VotesAreEarned, Vouching, JsVouchers, TlsVouchers
  <2>1. PICK rows \in Seq(RowsOf(archive)) : baselines = Aggregate(rows)
    BY DEF Learned
  <2>2. PICK h : h = baselines.browsers[k]
    OBVIOUS
  <2>3. h = Histogram(rows, Counted(rows, k))
    BY <2>1, <2>2 DEF Aggregate, Counted
  <2>4. /\ \A v \in DOMAIN h.js : h.js[v] = Cardinality({i \in Counted(rows, k) : rows[i].js = v})
        /\ \A v \in DOMAIN h.tls :
             h.tls[v] = Cardinality({i \in Counted(rows, k) : TlsTrustworthy(rows[i]) /\ rows[i].tls = v})
    <3>1. CountsOf(h, rows, Counted(rows, k))
      BY <2>3, HistogramCounts
    <3> QED
      BY <3>1 DEF CountsOf
  <2>5. PICK T : archive \in Seq(Seq(T))
    BY DEF Learned
  <2>6. \A v : Cardinality({i \in Counted(rows, k) : rows[i].js = v}) <= Cardinality(JsVouchers(k, v))
    BY <2>5, JsVotesAreEarned
  <2>7. \A v : Cardinality({i \in Counted(rows, k) : TlsTrustworthy(rows[i]) /\ rows[i].tls = v})
                 <= Cardinality(TlsVouchers(k, v))
    BY <2>5, TlsVotesAreEarned
  <2> QED
    BY <2>2, <2>4, <2>6, <2>7
<1> QED
  BY <1>1, LearnedInvariant, PTL
=============================================================================
