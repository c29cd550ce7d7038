------------------------ MODULE PatAttestation_proofs ------------------------
(***************************************************************************)
(* Theorems about PatAttestation for any sets of calls, containers, keys,  *)
(* tokens and scans, any number of resends and any lifetimes of the cache, *)
(* of wrappers and of the ledger's claims.                                 *)
(***************************************************************************)
EXTENDS PatAttestation, TLAPS

-----------------------------------------------------------------------------
(* Type correctness.                                                       *)

\* A container has no fetch under way, or one.
Fetches == {<<>>} \cup {<<x>> : x \in DirectoryType \cup {None}}

\* What an invocation holds at each point. A claim was sent only for a genuine
\* token, and none before its key and its secret were there.
Stages ==
  \A r \in Calls :
    /\ pc[r] = "idle" => input[r] = None
    /\ pc[r] \in {"idle", "key", "secret"} => attempt[r] = 0
    /\ pc[r] \in Working => host[r] \in Containers
    /\ pc[r] \in {"secret", "claiming", "signed", "replayed"} \/ attempt[r] > 0 =>
         input[r] \in [token : Tokens, binding : Bindings]

\* Only what was sent is under way.
SentClaims == \A r \in Calls : \A k \in 1 .. MaxSends : <<r, k>> \in wire => k <= attempt[r]

Typed ==
  /\ TypeOK
  /\ inflight \in [Containers -> Fetches]
  /\ Stages
  /\ SentClaims

LEMMA OneFetch ==
  ASSUME NEW s \in Fetches, NEW i \in DOMAIN s
  PROVE  /\ i = 1 /\ s[1] \in DirectoryType \cup {None} /\ s # <<>>
         /\ Without(s, i) = <<>>
         /\ \A x : [s EXCEPT ![i] = x] = <<x>>
<1>1. PICK x \in DirectoryType \cup {None} : s = <<x>>
  BY DEF Fetches
<1>2. i = 1
  BY <1>1
<1>3. Without(s, i) = <<>>
  BY <1>1, <1>2 DEF Without
<1>4. \A y : [s EXCEPT ![i] = y] = <<y>>
  BY <1>1, <1>2
<1> QED
  BY <1>1, <1>2, <1>3, <1>4

LEMMA FetchesShort ==
  ASSUME NEW s \in Fetches
  PROVE  Len(s) <= 1 /\ \A i \in DOMAIN s : s[i] \in DirectoryType \cup {None}
<1>1. CASE s = <<>>
  BY <1>1
<1>2. CASE s # <<>>
  <2>1. PICK x \in DirectoryType \cup {None} : s = <<x>>
    BY <1>2 DEF Fetches
  <2> QED
    BY <2>1
<1> QED
  BY <1>1, <1>2

LEMMA StartFetchType ==
  ASSUME NEW c \in Containers, inflight \in [Containers -> Fetches]
  PROVE  StartFetch(c) \in Fetches
BY DEF StartFetch, Fetches

LEMMA TypeInit == Init => Typed
BY TimeAssumption, SendsAssumption
   DEF Init, Typed, TypeOK, Fetches, Stages, SentClaims, Times, DirectoryType, Working

LEMMA AfterKeyFacts ==
  ASSUME NEW q \in InputType \cup {None}, NEW k
  PROVE  /\ AfterKey(q, k) \in {"idle", "invalid", "wrong_key", "secret"}
         /\ AfterKey(q, k) = "idle" <=> q = None
         /\ AfterKey(q, k) = "secret" => q \in [token : Tokens, binding : Bindings]
BY NoneAssumption DEF AfterKey, VerifyPatToken, InputType

\* What the tick and its like know of times.
LEMMA NowTyped == TypeOK => now \in Nat /\ now + WrapperTtl \in Nat
BY TimeAssumption DEF TypeOK, Times

\* TypeOK, and that a container has at most one fetch, but for what follows from
\* that.
Shape ==
  /\ now \in Times
  /\ directory \in DirectoryType
  /\ cache \in [Containers -> CachedKey \cup {None}]
  /\ inflight \in [Containers -> Fetches]
  /\ challenged \subseteq Keys
  /\ minted \subseteq Tokens
  /\ pc \in [Calls -> {"idle"} \cup Working \cup Outcomes]
  /\ host \in [Calls -> Containers \cup {None}]
  /\ input \in [Calls -> InputType \cup {None}]
  /\ attempt \in [Calls -> 0 .. MaxSends]
  /\ wire \subseteq Calls \X (1 .. MaxSends)
  /\ ledger \in [Tokens -> Times \cup {None}]
  /\ wrappers \subseteq WrapperType
  /\ evidence \subseteq [token : Tokens, binding : Bindings]
  /\ forgot \subseteq Tokens

LEMMA ShapeIsType ==
  /\ TypeOK /\ inflight \in [Containers -> Fetches] <=> Shape
  /\ Typed <=> Shape /\ Stages /\ SentClaims
BY FetchesShort DEF TypeOK, Shape, Typed

LEMMA ShapeStep == Shape /\ Stages /\ SentClaims /\ [Next]_vars => Shape'
<1> SUFFICES ASSUME Shape, Stages, SentClaims, [Next]_vars PROVE Shape'
  OBVIOUS
<1>0. TypeOK
  BY ShapeIsType
<1> USE DEF Shape, Stages, SentClaims, Working, Outcomes, Refusals
<1>1. ASSUME NEW r \in Calls, RejectCall(r) PROVE Shape'
  BY <1>1 DEF RejectCall
<1>2. ASSUME NEW r \in Calls, SecretFails(r) PROVE Shape'
  BY <1>2 DEF SecretFails
<1>3. ASSUME NEW r \in Calls, SendClaim(r) PROVE Shape'
  <2>1. attempt[r] + 1 \in 0 .. MaxSends /\ attempt[r] + 1 \in 1 .. MaxSends
    BY <1>3, SendsAssumption DEF SendClaim
  <2> QED
    BY <1>3, <2>1 DEF SendClaim
<1>4. ASSUME NEW r \in Calls, ClaimFails(r) PROVE Shape'
  BY <1>4 DEF ClaimFails
<1>5. ASSUME NEW r \in Calls, Kill(r) PROVE Shape'
  <2>1. <<>> \in Fetches
    BY DEF Fetches
  <2> QED
    BY <1>5, <2>1 DEF Kill
<1>6. ASSUME NEW r \in Calls, NEW c \in Containers, NEW q \in InputType \cup {None},
             Receive(r, c, q)
      PROVE  Shape'
  <2>1. StartFetch(c) \in Fetches
    BY StartFetchType
  <2>2. inflight' \in [Containers -> Fetches]
    BY <1>6, <2>1 DEF Receive
  <2>3. CASE q = None /\ cache[c] # None
    <3>1. cache[c].key \in Keys
      BY <2>3 DEF CachedKey
    <3> QED
      BY <1>6, <2>2, <2>3, <3>1 DEF Receive
  <2>4. CASE ~(q = None /\ cache[c] # None)
    <3> DEFINE to == IF cache[c] = None THEN "key" ELSE AfterKey(q, cache[c].key)
    <3>1. to \in {"key", "idle", "invalid", "wrong_key", "secret"}
      BY AfterKeyFacts
    <3>2. pc' = [pc EXCEPT ![r] = to]
      BY <1>6, <2>4 DEF Receive
    <3> HIDE DEF to
    <3> QED
      BY <1>6, <2>2, <2>4, <3>1, <3>2 DEF Receive
  <2> QED
    BY <2>3, <2>4
<1>7. ASSUME NEW r \in Calls, NEW k \in 1 .. MaxSends, ExecuteClaim(r, k) PROVE Shape'
  <2>1. input[r] \in [token : Tokens, binding : Bindings]
    <3>1. k <= attempt[r]
      BY <1>7 DEF ExecuteClaim
    <3> QED
      BY <3>1
  <2>2. ledger' \in [Tokens -> Times \cup {None}]
    BY <1>7, <2>1 DEF ExecuteClaim
  <2>3. CASE UNCHANGED <<pc, wrappers>>
    BY <1>7, <2>2, <2>3 DEF ExecuteClaim
  <2>4. CASE pc' = [pc EXCEPT ![r] = "replayed"] /\ UNCHANGED wrappers
    BY <1>7, <2>2, <2>4 DEF ExecuteClaim
  <2>5. CASE Sign(r)
    <3>1. [token |-> input[r].token, binding |-> input[r].binding, exp |-> now + WrapperTtl]
            \in WrapperType
      BY <2>1, <1>0, NowTyped DEF WrapperType
    <3> QED
      BY <1>7, <2>2, <2>5, <3>1 DEF ExecuteClaim, Sign
  <2> QED
    BY <1>7, <2>3, <2>4, <2>5 DEF ExecuteClaim
<1>8. ASSUME NEW c \in Containers, NEW i \in DOMAIN inflight[c],
             AnswerFetch(c, i)
      PROVE  Shape'
  <2>1. inflight' = [inflight EXCEPT ![c] = <<directory>>]
    <3>1. inflight' = [inflight EXCEPT ![c] = [inflight[c] EXCEPT ![i] = directory]]
      BY <1>8 DEF AnswerFetch
    <3>2. [inflight[c] EXCEPT ![i] = directory] = <<directory>>
      <4>1. inflight[c] \in Fetches
        OBVIOUS
      <4> QED
        BY <4>1, OneFetch
    <3> QED
      BY <3>1, <3>2
  <2>2. <<directory>> \in Fetches
    BY DEF Fetches
  <2>3. inflight' \in [Containers -> Fetches]
    BY <2>1, <2>2
  <2> QED
    BY <1>8, <2>3 DEF AnswerFetch
<1>9. ASSUME NEW c \in Containers, NEW i \in DOMAIN inflight[c],
             FetchReturns(c, i)
      PROVE  Shape'
  <2>1. inflight' = [inflight EXCEPT ![c] = <<>>] /\ <<>> \in Fetches
    BY <1>9, OneFetch DEF FetchReturns, Fetches
  <2>2. PICK k \in PickActiveKey(inflight[c][i]) :
          /\ cache' = [cache EXCEPT ![c] = [key |-> k, fetchedAt |-> now,
                                            notBefore |-> inflight[c][i][k]]]
          /\ pc' = [r \in Calls |-> IF Waiting(r, c) THEN AfterKey(input[r], k) ELSE pc[r]]
          /\ challenged' = IF \E r \in Calls : Waiting(r, c) /\ input[r] = None
                            THEN challenged \cup {k} ELSE challenged
    BY <1>9 DEF FetchReturns
  <2>3. inflight[c][i] \in DirectoryType
    BY <1>9, FetchesShort DEF FetchReturns
  <2>4. k \in Keys /\ inflight[c][i][k] \in Nat
    BY <2>2, <2>3 DEF PickActiveKey, Active, DirectoryType
  <2>5. [key |-> k, fetchedAt |-> now, notBefore |-> inflight[c][i][k]] \in CachedKey
    BY <2>4 DEF CachedKey
  <2>6. \A r \in Calls : AfterKey(input[r], k) \in {"idle", "invalid", "wrong_key", "secret"}
    BY AfterKeyFacts
  <2>7. pc' \in [Calls -> {"idle"} \cup Working \cup Outcomes]
    BY <2>2, <2>6
  <2>8. host' \in [Calls -> Containers \cup {None}]
    BY <1>9 DEF FetchReturns
  <2>9. cache' \in [Containers -> CachedKey \cup {None}]
    BY <2>2, <2>5
  <2> QED
    BY <1>9, <2>1, <2>2, <2>4, <2>7, <2>8, <2>9 DEF FetchReturns
<1>10. ASSUME NEW c \in Containers, NEW i \in DOMAIN inflight[c],
              FetchFails(c, i)
       PROVE  Shape'
  <2>1. inflight' = [inflight EXCEPT ![c] = <<>>] /\ <<>> \in Fetches
    BY <1>10, OneFetch DEF FetchFails, Fetches
  <2> QED
    BY <1>10, <2>1 DEF FetchFails
<1>11. ASSUME NEW w \in wrappers, NEW b \in Bindings, Accept(w, b) PROVE Shape'
  <2>1. [token |-> w.token, binding |-> b] \in [token : Tokens, binding : Bindings]
    BY DEF WrapperType
  <2> QED
    BY <1>11, <2>1 DEF Accept, endpoint
<1>12. ASSUME NEW k \in Keys, NEW nb \in now .. now + 1, PublishKey(k, nb) PROVE Shape'
  <2>1. nb \in Nat
    BY <1>0, NowTyped
  <2> QED
    BY <1>12, <2>1 DEF PublishKey, endpoint, DirectoryType
<1>13. ASSUME NEW t \in Tokens, MintToken(t) PROVE Shape'
  BY <1>13 DEF MintToken, endpoint
<1>14. ASSUME NEW t \in Tokens, ExpireClaim(t) PROVE Shape'
  BY <1>14 DEF ExpireClaim, endpoint
<1>15. CASE Tick
  BY <1>15, TimeAssumption DEF Tick, endpoint, Times
<1>16. CASE UNCHANGED vars
  BY <1>16 DEF vars, endpoint
<1> QED
  BY <1>1, <1>2, <1>3, <1>4, <1>5, <1>6, <1>7, <1>8, <1>9, <1>10, <1>11, <1>12,
     <1>13, <1>14, <1>15, <1>16
     DEF Next, HandlerStep

LEMMA StagesStep == Shape /\ Stages /\ [Next]_vars => Stages'
<1> SUFFICES ASSUME Shape, Stages, [Next]_vars PROVE Stages'
  OBVIOUS
<1> USE DEF Shape, Stages, Working, Outcomes, Refusals
<1>1. ASSUME NEW r \in Calls, RejectCall(r) PROVE Stages'
  BY <1>1 DEF RejectCall
<1>2. ASSUME NEW r \in Calls, SecretFails(r) PROVE Stages'
  BY <1>2 DEF SecretFails
<1>3. ASSUME NEW r \in Calls, SendClaim(r) PROVE Stages'
  <2>1. attempt[r] + 1 > 0 /\ attempt[r] \in Nat
    BY SendsAssumption
  <2> QED
    BY <1>3, <2>1 DEF SendClaim
<1>4. ASSUME NEW r \in Calls, ClaimFails(r) PROVE Stages'
  BY <1>4 DEF ClaimFails
<1>5. ASSUME NEW r \in Calls, Kill(r) PROVE Stages'
  BY <1>5 DEF Kill
<1>6. ASSUME NEW r \in Calls, NEW c \in Containers, NEW q \in InputType \cup {None},
             Receive(r, c, q)
      PROVE  Stages'
  <2>1. CASE q = None /\ cache[c] # None
    BY <1>6, <2>1 DEF Receive
  <2>2. CASE ~(q = None /\ cache[c] # None)
    <3> DEFINE to == IF cache[c] = None THEN "key" ELSE AfterKey(q, cache[c].key)
    <3>1. /\ to \in {"key", "idle", "invalid", "wrong_key", "secret"}
          /\ to = "idle" => q = None
          /\ to = "secret" => q \in [token : Tokens, binding : Bindings]
      BY AfterKeyFacts
    <3>2. /\ pc' = [pc EXCEPT ![r] = to] /\ input' = [input EXCEPT ![r] = q]
          /\ host' = [host EXCEPT ![r] = c] /\ pc[r] = "idle" /\ UNCHANGED attempt
      BY <1>6, <2>2 DEF Receive
    <3> HIDE DEF to
    <3> QED
      BY <3>1, <3>2
  <2> QED
    BY <2>1, <2>2
<1>7. ASSUME NEW r \in Calls, NEW k \in 1 .. MaxSends, ExecuteClaim(r, k) PROVE Stages'
  <2>1. CASE UNCHANGED <<pc, wrappers>>
    BY <1>7, <2>1 DEF ExecuteClaim
  <2>2. CASE pc[r] = "claiming" /\ pc' = [pc EXCEPT ![r] = "replayed"]
    BY <1>7, <2>2 DEF ExecuteClaim
  <2>3. CASE pc[r] = "claiming" /\ pc' = [pc EXCEPT ![r] = "signed"]
    BY <1>7, <2>3 DEF ExecuteClaim
  <2> QED
    BY <1>7, <2>1, <2>2, <2>3 DEF ExecuteClaim, Sign
<1>8. ASSUME NEW c \in Containers, NEW i \in DOMAIN inflight[c],
             AnswerFetch(c, i)
      PROVE  Stages'
  BY <1>8 DEF AnswerFetch
<1>9. ASSUME NEW c \in Containers, NEW i \in DOMAIN inflight[c],
             FetchReturns(c, i)
      PROVE  Stages'
  <2>1. PICK k : pc' = [r \in Calls |-> IF Waiting(r, c) THEN AfterKey(input[r], k) ELSE pc[r]]
    BY <1>9 DEF FetchReturns
  <2>2. host' = [r \in Calls |-> IF Waiting(r, c) /\ input[r] = None THEN None ELSE host[r]]
    BY <1>9 DEF FetchReturns
  <2>3. UNCHANGED <<input, attempt>>
    BY <1>9 DEF FetchReturns
  <2>4. \A r \in Calls :
          /\ AfterKey(input[r], k) \in {"idle", "invalid", "wrong_key", "secret"}
          /\ AfterKey(input[r], k) = "idle" <=> input[r] = None
          /\ AfterKey(input[r], k) = "secret" => input[r] \in [token : Tokens, binding : Bindings]
    BY AfterKeyFacts
  <2> QED
    BY <2>1, <2>2, <2>3, <2>4 DEF Waiting
<1>10. ASSUME NEW c \in Containers, NEW i \in DOMAIN inflight[c],
              FetchFails(c, i)
       PROVE  Stages'
  BY <1>10 DEF FetchFails, Waiting
<1>11. ASSUME NEW w \in wrappers, NEW b \in Bindings, Accept(w, b) PROVE Stages'
  BY <1>11 DEF Accept, endpoint
<1>12. ASSUME NEW k \in Keys, NEW nb \in now .. now + 1, PublishKey(k, nb) PROVE Stages'
  BY <1>12 DEF PublishKey, endpoint
<1>13. ASSUME NEW t \in Tokens, MintToken(t) PROVE Stages'
  BY <1>13 DEF MintToken, endpoint
<1>14. ASSUME NEW t \in Tokens, ExpireClaim(t) PROVE Stages'
  BY <1>14 DEF ExpireClaim, endpoint
<1>15. CASE Tick
  BY <1>15 DEF Tick, endpoint
<1>16. CASE UNCHANGED vars
  BY <1>16 DEF vars, endpoint
<1> QED
  BY <1>1, <1>2, <1>3, <1>4, <1>5, <1>6, <1>7, <1>8, <1>9, <1>10, <1>11, <1>12,
     <1>13, <1>14, <1>15, <1>16
     DEF Next, HandlerStep

LEMMA SentClaimsStep == Shape /\ SentClaims /\ [Next]_vars => SentClaims'
<1> SUFFICES ASSUME Shape, SentClaims, [Next]_vars PROVE SentClaims'
  OBVIOUS
<1> USE DEF Shape, SentClaims
<1>1. ASSUME NEW r \in Calls, RejectCall(r) PROVE SentClaims'
  BY <1>1 DEF RejectCall
<1>2. ASSUME NEW r \in Calls, SecretFails(r) PROVE SentClaims'
  BY <1>2 DEF SecretFails
<1>3. ASSUME NEW r \in Calls, SendClaim(r) PROVE SentClaims'
  <2>1. attempt[r] \in Nat
    BY SendsAssumption
  <2> QED
    BY <1>3, <2>1, SendsAssumption DEF SendClaim
<1>4. ASSUME NEW r \in Calls, ClaimFails(r) PROVE SentClaims'
  BY <1>4 DEF ClaimFails
<1>5. ASSUME NEW r \in Calls, Kill(r) PROVE SentClaims'
  BY <1>5 DEF Kill
<1>6. ASSUME NEW r \in Calls, NEW c \in Containers, NEW q \in InputType \cup {None},
             Receive(r, c, q)
      PROVE  SentClaims'
  BY <1>6 DEF Receive
<1>7. ASSUME NEW r \in Calls, NEW k \in 1 .. MaxSends,
             ExecuteClaim(r, k)
      PROVE  SentClaims'
  BY <1>7 DEF ExecuteClaim
<1>8. ASSUME NEW c \in Containers, NEW i \in DOMAIN inflight[c],
             AnswerFetch(c, i)
      PROVE  SentClaims'
  BY <1>8 DEF AnswerFetch
<1>9. ASSUME NEW c \in Containers, NEW i \in DOMAIN inflight[c],
             FetchReturns(c, i)
      PROVE  SentClaims'
  BY <1>9 DEF FetchReturns
<1>10. ASSUME NEW c \in Containers, NEW i \in DOMAIN inflight[c],
              FetchFails(c, i)
       PROVE  SentClaims'
  BY <1>10 DEF FetchFails
<1>11. ASSUME NEW w \in wrappers, NEW b \in Bindings, Accept(w, b) PROVE SentClaims'
  BY <1>11 DEF Accept, endpoint
<1>12. ASSUME NEW k \in Keys, NEW nb \in now .. now + 1,
              PublishKey(k, nb)
       PROVE  SentClaims'
  BY <1>12 DEF PublishKey, endpoint
<1>13. ASSUME NEW t \in Tokens, MintToken(t) PROVE SentClaims'
  BY <1>13 DEF MintToken, endpoint
<1>14. ASSUME NEW t \in Tokens, ExpireClaim(t) PROVE SentClaims'
  BY <1>14 DEF ExpireClaim, endpoint
<1>15. CASE Tick
  BY <1>15 DEF Tick, endpoint
<1>16. CASE UNCHANGED vars
  BY <1>16 DEF vars, endpoint
<1> QED
  BY <1>1, <1>2, <1>3, <1>4, <1>5, <1>6, <1>7, <1>8, <1>9, <1>10, <1>11, <1>12,
     <1>13, <1>14, <1>15, <1>16
     DEF Next, HandlerStep

LEMMA TypeStep == Typed /\ [Next]_vars => Typed'
<1> SUFFICES ASSUME Typed, [Next]_vars PROVE Typed'
  OBVIOUS
<1>1. Shape' /\ Stages' /\ SentClaims'
  BY ShapeIsType, ShapeStep, StagesStep, SentClaimsStep
<1>2. TypeOK'
  BY <1>1, FetchesShort DEF TypeOK, Shape
<1> QED
  BY <1>1, <1>2 DEF Typed, Shape

LEMMA TypeInvariant == Spec => []Typed
<1> QED
  BY TypeInit, TypeStep, PTL DEF Spec

\* Every container's cache and fetch, every invocation's input, attempts and
\* answer, the ledger, the wrappers and the evidence keep their types.
THEOREM TypeCorrect == Spec => []TypeOK
<1>1. Typed => TypeOK
  BY DEF Typed
<1> QED
  BY <1>1, TypeInvariant, PTL

-----------------------------------------------------------------------------
(* What no step takes back.                                                *)

\* An invocation that is not idle keeps its input, and counts its sends; what
\* was minted, signed or accepted stays.
Kept ==
  /\ \A r \in Calls : pc[r] # "idle" =>
       /\ input'[r] = input[r] /\ attempt'[r] >= attempt[r]
       /\ pc[r] \notin Working => pc'[r] = pc[r]
  /\ minted \subseteq minted' /\ wrappers \subseteq wrappers'

LEMMA StepKeeps == Shape /\ [Next]_vars => Kept
<1> SUFFICES ASSUME Shape, [Next]_vars PROVE Kept
  OBVIOUS
<1> USE DEF Shape, Kept, Working
<1>0. \A r \in Calls : attempt[r] \in Nat
  BY SendsAssumption
<1>1. ASSUME NEW r \in Calls, RejectCall(r) PROVE Kept
  BY <1>1, <1>0 DEF RejectCall
<1>2. ASSUME NEW r \in Calls, SecretFails(r) PROVE Kept
  BY <1>2, <1>0 DEF SecretFails
<1>3. ASSUME NEW r \in Calls, SendClaim(r) PROVE Kept
  <2>1. attempt[r] \in Nat
    BY SendsAssumption
  <2> QED
    BY <1>3, <2>1 DEF SendClaim
<1>4. ASSUME NEW r \in Calls, ClaimFails(r) PROVE Kept
  BY <1>4, <1>0 DEF ClaimFails
<1>5. ASSUME NEW r \in Calls, Kill(r) PROVE Kept
  BY <1>5, <1>0 DEF Kill
<1>6. ASSUME NEW r \in Calls, NEW c \in Containers, NEW q \in InputType \cup {None},
             Receive(r, c, q)
      PROVE  Kept
  BY <1>6, <1>0 DEF Receive
<1>7. ASSUME NEW r \in Calls, NEW k \in 1 .. MaxSends, ExecuteClaim(r, k) PROVE Kept
  BY <1>7, <1>0 DEF ExecuteClaim, Sign
<1>8. ASSUME NEW c \in Containers, NEW i \in DOMAIN inflight[c],
             AnswerFetch(c, i)
      PROVE  Kept
  BY <1>8, <1>0 DEF AnswerFetch
<1>9. ASSUME NEW c \in Containers, NEW i \in DOMAIN inflight[c],
             FetchReturns(c, i)
      PROVE  Kept
  BY <1>9, <1>0 DEF FetchReturns, Waiting
<1>10. ASSUME NEW c \in Containers, NEW i \in DOMAIN inflight[c],
              FetchFails(c, i)
       PROVE  Kept
  BY <1>10, <1>0 DEF FetchFails, Waiting
<1>11. ASSUME NEW w \in wrappers, NEW b \in Bindings, Accept(w, b) PROVE Kept
  BY <1>11, <1>0 DEF Accept, endpoint
<1>12. ASSUME NEW k \in Keys, NEW nb \in now .. now + 1, PublishKey(k, nb) PROVE Kept
  BY <1>12, <1>0 DEF PublishKey, endpoint
<1>13. ASSUME NEW t \in Tokens, MintToken(t) PROVE Kept
  BY <1>13, <1>0 DEF MintToken, endpoint
<1>14. ASSUME NEW t \in Tokens, ExpireClaim(t) PROVE Kept
  BY <1>14, <1>0 DEF ExpireClaim, endpoint
<1>15. CASE Tick
  BY <1>15, <1>0 DEF Tick, endpoint
<1>16. CASE UNCHANGED vars
  BY <1>0, <1>16 DEF vars, endpoint
<1> QED
  BY <1>1, <1>2, <1>3, <1>4, <1>5, <1>6, <1>7, <1>8, <1>9, <1>10, <1>11, <1>12,
     <1>13, <1>14, <1>15, <1>16
     DEF Next, HandlerStep

-----------------------------------------------------------------------------
(* The key in a container's cache.                                         *)

\* The cached key is published, with the not-before it was cached with.
CachedIsPublished ==
  \A c \in Containers : cache[c] # None =>
    /\ directory[cache[c].key] = cache[c].notBefore
    /\ cache[c].notBefore <= now

\* An answer that is under way was true when it was given, and it was asked for
\* when the key in the cache was there already.
AnswersAreLater ==
  \A c \in Containers : inflight[c] # <<>> /\ inflight[c][1] # None =>
    /\ \A k \in Keys : inflight[c][1][k] # None => directory[k] = inflight[c][1][k]
    /\ cache[c] # None => inflight[c][1][cache[c].key] = cache[c].notBefore

\* The key of the cache is among those an answer is picked from.
LEMMA PickIsLater ==
  ASSUME Shape, CachedIsPublished, AnswersAreLater,
         NEW c \in Containers, NEW i \in DOMAIN inflight[c],
         inflight[c][i] # None, NEW k \in PickActiveKey(inflight[c][i])
  PROVE  /\ k \in Keys /\ inflight[c][i] = inflight[c][1] /\ inflight[c] # <<>>
         /\ inflight[c][1] \in DirectoryType
         /\ inflight[c][1][k] \in Nat /\ inflight[c][1][k] <= now
         /\ directory[k] = inflight[c][1][k]
         /\ cache[c] # None => cache[c].notBefore <= inflight[c][1][k]
<1>1. inflight[c] \in Fetches
  BY DEF Shape
<1>2. i = 1 /\ inflight[c] # <<>> /\ inflight[c][1] \in DirectoryType
  BY <1>1, OneFetch
<1>3. k \in Keys /\ inflight[c][1][k] \in Nat /\ inflight[c][1][k] <= now
  BY <1>2 DEF PickActiveKey, Active, DirectoryType
<1>4. directory[k] = inflight[c][1][k]
  BY <1>2, <1>3, NoneAssumption DEF AnswersAreLater
<1>5. ASSUME cache[c] # None PROVE cache[c].notBefore <= inflight[c][1][k]
  <2>1. cache[c] \in CachedKey
    BY <1>5 DEF Shape
  <2>2. /\ cache[c].key \in Keys /\ cache[c].notBefore \in Nat
        /\ inflight[c][1][cache[c].key] = cache[c].notBefore
        /\ cache[c].notBefore <= now
    BY <1>2, <1>5, <2>1 DEF CachedKey, AnswersAreLater, CachedIsPublished
  <2>3. cache[c].key \in Active(inflight[c][1])
    BY <2>2, NoneAssumption DEF Active
  <2> QED
    BY <1>2, <2>2, <2>3 DEF PickActiveKey
<1> QED
  BY <1>2, <1>3, <1>4, <1>5

LEMMA CachedStep == Shape /\ CachedIsPublished /\ AnswersAreLater /\ [Next]_vars => CachedIsPublished'
<1> SUFFICES ASSUME Shape, CachedIsPublished, AnswersAreLater, [Next]_vars PROVE CachedIsPublished'
  OBVIOUS
<1> USE DEF Shape, CachedIsPublished
<1>1. ASSUME NEW r \in Calls, RejectCall(r) PROVE CachedIsPublished'
  BY <1>1 DEF RejectCall
<1>2. ASSUME NEW r \in Calls, SecretFails(r) PROVE CachedIsPublished'
  BY <1>2 DEF SecretFails
<1>3. ASSUME NEW r \in Calls, SendClaim(r) PROVE CachedIsPublished'
  BY <1>3 DEF SendClaim
<1>4. ASSUME NEW r \in Calls, ClaimFails(r) PROVE CachedIsPublished'
  BY <1>4 DEF ClaimFails
<1>5. ASSUME NEW r \in Calls, Kill(r) PROVE CachedIsPublished'
  BY <1>5 DEF Kill
<1>6. ASSUME NEW r \in Calls, NEW c \in Containers, NEW q \in InputType \cup {None},
             Receive(r, c, q)
      PROVE  CachedIsPublished'
  BY <1>6 DEF Receive
<1>7. ASSUME NEW r \in Calls, NEW k \in 1 .. MaxSends,
             ExecuteClaim(r, k)
      PROVE  CachedIsPublished'
  BY <1>7 DEF ExecuteClaim
<1>8. ASSUME NEW c \in Containers, NEW i \in DOMAIN inflight[c],
             AnswerFetch(c, i)
      PROVE  CachedIsPublished'
  BY <1>8 DEF AnswerFetch
<1>9. ASSUME NEW c \in Containers, NEW i \in DOMAIN inflight[c],
             FetchReturns(c, i)
      PROVE  CachedIsPublished'
  <2>1. PICK k \in PickActiveKey(inflight[c][i]) :
          cache' = [cache EXCEPT ![c] = [key |-> k, fetchedAt |-> now,
                                         notBefore |-> inflight[c][i][k]]]
    BY <1>9 DEF FetchReturns
  <2>2. directory[k] = inflight[c][i][k] /\ inflight[c][i][k] <= now
    BY <1>9, <2>1, PickIsLater DEF FetchReturns
  <2> QED
    BY <1>9, <2>1, <2>2 DEF FetchReturns
<1>10. ASSUME NEW c \in Containers, NEW i \in DOMAIN inflight[c],
              FetchFails(c, i)
       PROVE  CachedIsPublished'
  BY <1>10 DEF FetchFails
<1>11. ASSUME NEW w \in wrappers, NEW b \in Bindings,
              Accept(w, b)
       PROVE  CachedIsPublished'
  BY <1>11 DEF Accept, endpoint
<1>12. ASSUME NEW k \in Keys, NEW nb \in now .. now + 1,
              PublishKey(k, nb)
       PROVE  CachedIsPublished'
  <2>1. \A x \in Keys : directory[x] # None => directory'[x] = directory[x]
    BY <1>12 DEF PublishKey
  <2>2. \A d \in Containers : cache[d] # None =>
          cache[d].key \in Keys /\ cache[d].notBefore # None
    BY NoneAssumption DEF CachedKey
  <2> QED
    BY <1>12, <2>1, <2>2 DEF PublishKey, endpoint
<1>13. ASSUME NEW t \in Tokens, MintToken(t) PROVE CachedIsPublished'
  BY <1>13 DEF MintToken, endpoint
<1>14. ASSUME NEW t \in Tokens, ExpireClaim(t) PROVE CachedIsPublished'
  BY <1>14 DEF ExpireClaim, endpoint
<1>15. CASE Tick
  <2>1. \A c \in Containers : cache[c] # None => cache[c].notBefore \in Nat
    BY DEF CachedKey
  <2> QED
    BY <1>15, <2>1, TimeAssumption DEF Tick, endpoint, Times
<1>16. CASE UNCHANGED vars
  BY <1>16 DEF vars, endpoint
<1> QED
  BY <1>1, <1>2, <1>3, <1>4, <1>5, <1>6, <1>7, <1>8, <1>9, <1>10, <1>11, <1>12,
     <1>13, <1>14, <1>15, <1>16
     DEF Next, HandlerStep

LEMMA AnswersStep == Shape /\ CachedIsPublished /\ AnswersAreLater /\ [Next]_vars => AnswersAreLater'
<1> SUFFICES ASSUME Shape, CachedIsPublished, AnswersAreLater, [Next]_vars PROVE AnswersAreLater'
  OBVIOUS
<1> USE DEF Shape, AnswersAreLater
<1>1. ASSUME NEW r \in Calls, RejectCall(r) PROVE AnswersAreLater'
  BY <1>1 DEF RejectCall
<1>2. ASSUME NEW r \in Calls, SecretFails(r) PROVE AnswersAreLater'
  BY <1>2 DEF SecretFails
<1>3. ASSUME NEW r \in Calls, SendClaim(r) PROVE AnswersAreLater'
  BY <1>3 DEF SendClaim
<1>4. ASSUME NEW r \in Calls, ClaimFails(r) PROVE AnswersAreLater'
  BY <1>4 DEF ClaimFails
<1>5. ASSUME NEW r \in Calls, Kill(r) PROVE AnswersAreLater'
  BY <1>5 DEF Kill
<1>6. ASSUME NEW r \in Calls, NEW c \in Containers, NEW q \in InputType \cup {None},
             Receive(r, c, q)
      PROVE  AnswersAreLater'
  <2>1. StartFetch(c) = inflight[c] \/ StartFetch(c) = <<None>>
    BY DEF StartFetch
  <2>2. inflight' = [inflight EXCEPT ![c] = StartFetch(c)] /\ UNCHANGED <<cache, directory>>
    BY <1>6 DEF Receive
  <2> QED
    BY <2>1, <2>2
<1>7. ASSUME NEW r \in Calls, NEW k \in 1 .. MaxSends,
             ExecuteClaim(r, k)
      PROVE  AnswersAreLater'
  BY <1>7 DEF ExecuteClaim
<1>8. ASSUME NEW c \in Containers, NEW i \in DOMAIN inflight[c],
             AnswerFetch(c, i)
      PROVE  AnswersAreLater'
  <2>1. inflight' = [inflight EXCEPT ![c] = <<directory>>]
    <3>1. inflight' = [inflight EXCEPT ![c] = [inflight[c] EXCEPT ![i] = directory]]
      BY <1>8 DEF AnswerFetch
    <3>2. inflight[c] \in Fetches
      OBVIOUS
    <3>3. [inflight[c] EXCEPT ![i] = directory] = <<directory>>
      BY <3>2, OneFetch
    <3> QED
      BY <3>1, <3>3
  <2> QED
    BY <1>8, <2>1 DEF AnswerFetch, CachedIsPublished
<1>9. ASSUME NEW c \in Containers, NEW i \in DOMAIN inflight[c],
             FetchReturns(c, i)
      PROVE  AnswersAreLater'
  <2>1. inflight' = [inflight EXCEPT ![c] = <<>>]
    <3>1. inflight[c] \in Fetches
      OBVIOUS
    <3>2. Without(inflight[c], i) = <<>>
      BY <3>1, OneFetch
    <3> QED
      BY <1>9, <3>2 DEF FetchReturns
  <2>2. \A d \in Containers \ {c} : cache'[d] = cache[d]
    BY <1>9 DEF FetchReturns
  <2>3. UNCHANGED directory
    BY <1>9 DEF FetchReturns
  <2> QED
    BY <2>1, <2>2, <2>3
<1>10. ASSUME NEW c \in Containers, NEW i \in DOMAIN inflight[c],
              FetchFails(c, i)
       PROVE  AnswersAreLater'
  <2>1. inflight' = [inflight EXCEPT ![c] = <<>>]
    <3>1. inflight[c] \in Fetches
      OBVIOUS
    <3>2. Without(inflight[c], i) = <<>>
      BY <3>1, OneFetch
    <3> QED
      BY <1>10, <3>2 DEF FetchFails
  <2> QED
    BY <1>10, <2>1 DEF FetchFails
<1>11. ASSUME NEW w \in wrappers, NEW b \in Bindings,
              Accept(w, b)
       PROVE  AnswersAreLater'
  BY <1>11 DEF Accept, endpoint
<1>12. ASSUME NEW k \in Keys, NEW nb \in now .. now + 1,
              PublishKey(k, nb)
       PROVE  AnswersAreLater'
  <2>1. \A x \in Keys : directory[x] # None => directory'[x] = directory[x]
    BY <1>12 DEF PublishKey
  <2> QED
    BY <1>12, <2>1 DEF PublishKey, endpoint
<1>13. ASSUME NEW t \in Tokens, MintToken(t) PROVE AnswersAreLater'
  BY <1>13 DEF MintToken, endpoint
<1>14. ASSUME NEW t \in Tokens, ExpireClaim(t) PROVE AnswersAreLater'
  BY <1>14 DEF ExpireClaim, endpoint
<1>15. CASE Tick
  BY <1>15 DEF Tick, endpoint
<1>16. CASE UNCHANGED vars
  BY <1>16 DEF vars, endpoint
<1> QED
  BY <1>1, <1>2, <1>3, <1>4, <1>5, <1>6, <1>7, <1>8, <1>9, <1>10, <1>11, <1>12,
     <1>13, <1>14, <1>15, <1>16
     DEF Next, HandlerStep

Advance ==
  \A c \in Containers : cache[c] # None /\ cache'[c] # None =>
    cache[c].notBefore <= cache'[c].notBefore

LEMMA AdvanceStep == Shape /\ Stages /\ CachedIsPublished /\ AnswersAreLater /\ [Next]_vars => Advance
<1> SUFFICES ASSUME Shape, Stages, CachedIsPublished, AnswersAreLater, [Next]_vars PROVE Advance
  OBVIOUS
<1> USE DEF Shape, Advance
<1>0. \A c \in Containers : cache[c] # None => cache[c].notBefore <= cache[c].notBefore
  BY DEF CachedKey
<1>1. ASSUME NEW r \in Calls, RejectCall(r) PROVE Advance
  BY <1>1, <1>0 DEF RejectCall
<1>2. ASSUME NEW r \in Calls, SecretFails(r) PROVE Advance
  BY <1>2, <1>0 DEF SecretFails
<1>3. ASSUME NEW r \in Calls, SendClaim(r) PROVE Advance
  BY <1>3, <1>0 DEF SendClaim
<1>4. ASSUME NEW r \in Calls, ClaimFails(r) PROVE Advance
  BY <1>4, <1>0 DEF ClaimFails
<1>5. ASSUME NEW r \in Calls, Kill(r) PROVE Advance
  BY <1>5, <1>0 DEF Kill, Stages, Working
<1>6. ASSUME NEW r \in Calls, NEW c \in Containers, NEW q \in InputType \cup {None},
             Receive(r, c, q)
      PROVE  Advance
  BY <1>6, <1>0 DEF Receive
<1>7. ASSUME NEW r \in Calls, NEW k \in 1 .. MaxSends, ExecuteClaim(r, k) PROVE Advance
  BY <1>7, <1>0 DEF ExecuteClaim
<1>8. ASSUME NEW c \in Containers, NEW i \in DOMAIN inflight[c],
             AnswerFetch(c, i)
      PROVE  Advance
  BY <1>8, <1>0 DEF AnswerFetch
<1>9. ASSUME NEW c \in Containers, NEW i \in DOMAIN inflight[c],
             FetchReturns(c, i)
      PROVE  Advance
  <2>1. PICK k \in PickActiveKey(inflight[c][i]) :
          cache' = [cache EXCEPT ![c] = [key |-> k, fetchedAt |-> now,
                                         notBefore |-> inflight[c][i][k]]]
    BY <1>9 DEF FetchReturns
  <2>2. cache[c] # None => cache[c].notBefore <= inflight[c][i][k]
    BY <1>9, <2>1, PickIsLater DEF FetchReturns
  <2> QED
    BY <1>9, <1>0, <2>1, <2>2 DEF FetchReturns
<1>10. ASSUME NEW c \in Containers, NEW i \in DOMAIN inflight[c],
              FetchFails(c, i)
       PROVE  Advance
  BY <1>10, <1>0 DEF FetchFails
<1>11. ASSUME NEW w \in wrappers, NEW b \in Bindings, Accept(w, b) PROVE Advance
  BY <1>11, <1>0 DEF Accept, endpoint
<1>12. ASSUME NEW k \in Keys, NEW nb \in now .. now + 1, PublishKey(k, nb) PROVE Advance
  BY <1>12, <1>0 DEF PublishKey, endpoint
<1>13. ASSUME NEW t \in Tokens, MintToken(t) PROVE Advance
  BY <1>13, <1>0 DEF MintToken, endpoint
<1>14. ASSUME NEW t \in Tokens, ExpireClaim(t) PROVE Advance
  BY <1>14, <1>0 DEF ExpireClaim, endpoint
<1>15. CASE Tick
  BY <1>15, <1>0 DEF Tick, endpoint
<1>16. CASE UNCHANGED vars
  BY <1>0, <1>16 DEF vars, endpoint
<1> QED
  BY <1>1, <1>2, <1>3, <1>4, <1>5, <1>6, <1>7, <1>8, <1>9, <1>10, <1>11, <1>12,
     <1>13, <1>14, <1>15, <1>16
     DEF Next, HandlerStep

LEMMA KeyInvariant == Spec => [](Typed /\ CachedIsPublished /\ AnswersAreLater)
<1>1. Init => CachedIsPublished /\ AnswersAreLater
  BY DEF Init, CachedIsPublished, AnswersAreLater
<1>2. Typed /\ CachedIsPublished /\ AnswersAreLater /\ [Next]_vars
        => (CachedIsPublished /\ AnswersAreLater)'
  BY ShapeIsType, CachedStep, AnswersStep
<1> QED
  BY <1>1, <1>2, TypeInvariant, PTL DEF Spec

\* A container's key only moves on to later ones, in whatever order the issuer
\* publishes keys, answers fetches and loses them.
THEOREM KeysAdvance == Spec => KeysOnlyAdvance
<1>1. Typed /\ CachedIsPublished /\ AnswersAreLater /\ [Next]_vars => [Advance]_vars
  BY ShapeIsType, AdvanceStep
<1> QED
  BY <1>1, KeyInvariant, PTL DEF Spec, KeysOnlyAdvance, Advance

-----------------------------------------------------------------------------
(* The redemption of a token.                                              *)

\* What is presented was minted or is a forgery, and what is signed was
\* presented: by an invocation that was answered with the wrapper.
Genuine ==
  /\ \A r \in Calls : input[r] # None => input[r].token \in minted \cup {Forged}
  /\ \A w \in wrappers :
       \E r \in Calls : pc[r] = "signed"
                         /\ input[r] = [token |-> w.token, binding |-> w.binding]
  /\ \A e \in evidence :
       \E r \in Calls : pc[r] = "signed" /\ input[r] = e

LEMMA GenuineStep == Shape /\ Stages /\ Genuine /\ [Next]_vars => Genuine'
<1> SUFFICES ASSUME Shape, Stages, Genuine, [Next]_vars PROVE Genuine'
  OBVIOUS
<1> USE DEF Shape
<1>0. /\ \A r \in Calls : pc[r] = "signed" => pc'[r] = "signed" /\ input'[r] = input[r]
      /\ minted \subseteq minted'
  BY StepKeeps DEF Kept, Working
<1>1. ASSUME NEW r \in Calls, RejectCall(r) PROVE Genuine'
  <2>1. UNCHANGED <<input, wrappers, evidence>>
    BY <1>1 DEF RejectCall
  <2> QED
    BY <1>0, <2>1 DEF Genuine
<1>2. ASSUME NEW r \in Calls, SecretFails(r) PROVE Genuine'
  <2>1. UNCHANGED <<input, wrappers, evidence>>
    BY <1>2 DEF SecretFails
  <2> QED
    BY <1>0, <2>1 DEF Genuine
<1>3. ASSUME NEW r \in Calls, SendClaim(r) PROVE Genuine'
  <2>1. UNCHANGED <<input, wrappers, evidence>>
    BY <1>3 DEF SendClaim
  <2> QED
    BY <1>0, <2>1 DEF Genuine
<1>4. ASSUME NEW r \in Calls, ClaimFails(r) PROVE Genuine'
  <2>1. UNCHANGED <<input, wrappers, evidence>>
    BY <1>4 DEF ClaimFails
  <2> QED
    BY <1>0, <2>1 DEF Genuine
<1>5. ASSUME NEW r \in Calls, Kill(r) PROVE Genuine'
  <2>1. UNCHANGED <<input, wrappers, evidence>>
    BY <1>5 DEF Kill
  <2> QED
    BY <1>0, <2>1 DEF Genuine
<1>6. ASSUME NEW r \in Calls, NEW c \in Containers, NEW q \in InputType \cup {None},
             Receive(r, c, q)
      PROVE  Genuine'
  <2>1. UNCHANGED <<minted, wrappers, evidence>>
    BY <1>6 DEF Receive
  <2>2. input' = input \/ input' = [input EXCEPT ![r] = q]
    BY <1>6 DEF Receive
  <2>3. q # None => q.token \in minted \cup {Forged}
    BY <1>6 DEF Receive
  <2> QED
    BY <1>0, <2>1, <2>2, <2>3 DEF Genuine
<1>7. ASSUME NEW r \in Calls, NEW k \in 1 .. MaxSends, ExecuteClaim(r, k) PROVE Genuine'
  <2>1. UNCHANGED <<input, minted, evidence>>
    BY <1>7 DEF ExecuteClaim
  <2>2. CASE UNCHANGED wrappers
    BY <1>7, <1>0, <2>1, <2>2 DEF Genuine
  <2>3. CASE pc[r] = "claiming" /\ Sign(r)
    <3>1. pc'[r] = "signed"
      BY <2>3 DEF Sign
    <3>2. input[r] \in [token : Tokens, binding : Bindings]
      BY <2>3 DEF Stages
    <3>3. input[r] = [token |-> input[r].token, binding |-> input[r].binding]
      BY <3>2
    <3>4. \A w \in wrappers' \ wrappers :
            w.token = input[r].token /\ w.binding = input[r].binding
      BY <2>3 DEF Sign
    <3> QED
      BY <1>0, <2>1, <3>1, <3>3, <3>4 DEF Genuine
  <2> QED
    BY <1>7, <2>2, <2>3 DEF ExecuteClaim
<1>8. ASSUME NEW c \in Containers, NEW i \in DOMAIN inflight[c],
             AnswerFetch(c, i)
      PROVE  Genuine'
  <2>1. UNCHANGED <<input, wrappers, evidence>>
    BY <1>8 DEF AnswerFetch
  <2> QED
    BY <1>0, <2>1 DEF Genuine
<1>9. ASSUME NEW c \in Containers, NEW i \in DOMAIN inflight[c],
             FetchReturns(c, i)
      PROVE  Genuine'
  <2>1. UNCHANGED <<input, wrappers, evidence>>
    BY <1>9 DEF FetchReturns
  <2> QED
    BY <1>0, <2>1 DEF Genuine
<1>10. ASSUME NEW c \in Containers, NEW i \in DOMAIN inflight[c],
              FetchFails(c, i)
       PROVE  Genuine'
  <2>1. UNCHANGED <<input, wrappers, evidence>>
    BY <1>10 DEF FetchFails
  <2> QED
    BY <1>0, <2>1 DEF Genuine
<1>11. ASSUME NEW w \in wrappers, NEW b \in Bindings, Accept(w, b) PROVE Genuine'
  <2>1. UNCHANGED <<input, pc, minted, wrappers>>
    BY <1>11 DEF Accept, endpoint
  <2>2. PICK r \in Calls : pc[r] = "signed" /\ input[r] = [token |-> w.token, binding |-> w.binding]
    BY DEF Genuine
  <2>3. evidence' = evidence \cup {[token |-> w.token, binding |-> w.binding]}
    BY <1>11 DEF Accept, ValidatePayload
  <2> QED
    BY <2>1, <2>2, <2>3 DEF Genuine
<1>12. ASSUME NEW k \in Keys, NEW nb \in now .. now + 1,
              PublishKey(k, nb)
       PROVE  Genuine'
  <2>1. UNCHANGED <<input, wrappers, evidence>>
    BY <1>12 DEF PublishKey, endpoint
  <2> QED
    BY <1>0, <2>1 DEF Genuine
<1>13. ASSUME NEW t \in Tokens, MintToken(t) PROVE Genuine'
  <2>1. UNCHANGED <<input, wrappers, evidence>>
    BY <1>13 DEF MintToken, endpoint
  <2> QED
    BY <1>0, <2>1 DEF Genuine
<1>14. ASSUME NEW t \in Tokens, ExpireClaim(t) PROVE Genuine'
  <2>1. UNCHANGED <<input, wrappers, evidence>>
    BY <1>14 DEF ExpireClaim, endpoint
  <2> QED
    BY <1>0, <2>1 DEF Genuine
<1>15. CASE Tick
  <2>1. UNCHANGED <<input, wrappers, evidence>>
    BY <1>15 DEF Tick, endpoint
  <2> QED
    BY <1>0, <2>1 DEF Genuine
<1>16. CASE UNCHANGED vars
  BY <1>16 DEF Genuine, vars, endpoint
<1> QED
  BY <1>1, <1>2, <1>3, <1>4, <1>5, <1>6, <1>7, <1>8, <1>9, <1>10, <1>11, <1>12,
     <1>13, <1>14, <1>15, <1>16
     DEF Next, HandlerStep

LEMMA GenuineInvariant == Spec => []Genuine
<1>1. Init => Genuine
  BY DEF Init, Genuine
<1>2. Typed /\ Genuine /\ [Next]_vars => Genuine'
  BY ShapeIsType, GenuineStep
<1> QED
  BY <1>1, <1>2, TypeInvariant, PTL DEF Spec

\* Evidence on a scan is a token that the issuer minted and that was presented
\* for that scan, by an invocation that was answered with its wrapper.
THEOREM EvidenceIsGenuine == Spec => []EvidenceIsOfThisScan
<1>1. Typed /\ Genuine => EvidenceIsOfThisScan
  <2> SUFFICES ASSUME Typed, Genuine, NEW e \in evidence
               PROVE  e.token \in minted /\ \E r \in Calls : pc[r] = "signed" /\ input[r] = e
    BY DEF EvidenceIsOfThisScan
  <2>1. PICK r \in Calls : pc[r] = "signed" /\ input[r] = e
    BY DEF Genuine
  <2>2. input[r] \in [token : Tokens, binding : Bindings]
    BY <2>1 DEF Typed, Stages
  <2>3. input[r] # None /\ input[r].token \in Tokens
    BY <2>2, NoneAssumption DEF InputType
  <2> QED
    BY <2>1, <2>3, ForgedAssumption DEF Genuine
<1> QED
  BY <1>1, GenuineInvariant, TypeInvariant, PTL

-----------------------------------------------------------------------------
(* The ledger: who claimed a token, and how often it is vouched for.       *)

\* A claim of s was executed.
Executed(s) == \E k \in 1 .. MaxSends : k <= attempt[s] /\ <<s, k>> \notin wire

\* The ledger remembers a token because somebody claimed it.
ClaimsAreExecuted ==
  \A t \in Tokens : ledger[t] # None =>
    \E s \in Calls : input[s] # None /\ input[s].token = t /\ Executed(s)

\* While its claim is remembered a token vouches for one scan, and what is
\* accepted was vouched for.
VouchesOnce ==
  /\ \A w \in wrappers : w.token \notin forgot => ledger[w.token] # None
  /\ \A v, w \in wrappers :
       v.token = w.token /\ v.token \notin forgot => v.binding = w.binding
  /\ \A e \in evidence :
       \E w \in wrappers : w.token = e.token /\ w.binding = e.binding

LEMMA ClaimsStep == Shape /\ Stages /\ SentClaims /\ ClaimsAreExecuted /\ [Next]_vars => ClaimsAreExecuted'
<1> SUFFICES ASSUME Shape, Stages, SentClaims, ClaimsAreExecuted, [Next]_vars PROVE ClaimsAreExecuted'
  OBVIOUS
<1> USE DEF ClaimsAreExecuted
<1>0. \A r \in Calls : input[r] # None => /\ input'[r] = input[r]
                                          /\ attempt'[r] >= attempt[r]
  BY StepKeeps DEF Kept, Stages
<1>00. UNCHANGED wire => \A s \in Calls : input[s] # None /\ Executed(s) => Executed(s)'
  <2> SUFFICES ASSUME UNCHANGED wire, NEW s \in Calls, input[s] # None,
                      NEW k \in 1 .. MaxSends, k <= attempt[s], <<s, k>> \notin wire
               PROVE  k <= attempt'[s] /\ <<s, k>> \notin wire'
    BY DEF Executed
  <2>1. Shape'
    BY ShapeStep
  <2>2. attempt[s] \in Nat /\ attempt'[s] \in Nat
    BY <2>1, SendsAssumption DEF Shape
  <2> QED
    BY <1>0, <2>2
<1>1. ASSUME NEW r \in Calls, RejectCall(r) PROVE ClaimsAreExecuted'
  <2>1. UNCHANGED <<wire, ledger>>
    BY <1>1 DEF RejectCall
  <2> QED
    BY <1>0, <1>00, <2>1
<1>2. ASSUME NEW r \in Calls, SecretFails(r) PROVE ClaimsAreExecuted'
  <2>1. UNCHANGED <<wire, ledger>>
    BY <1>2 DEF SecretFails
  <2> QED
    BY <1>0, <1>00, <2>1
<1>3. ASSUME NEW r \in Calls, SendClaim(r) PROVE ClaimsAreExecuted'
  <2>1. UNCHANGED ledger /\ wire' = wire \cup {<<r, attempt[r] + 1>>}
    BY <1>3 DEF SendClaim
  <2>2. attempt[r] \in Nat
    BY SendsAssumption DEF Shape
  <2>3. \A s \in Calls : Executed(s) => Executed(s)'
    <3>1. attempt' = [attempt EXCEPT ![r] = attempt[r] + 1] \/ attempt' = attempt
      BY <1>3 DEF SendClaim
    <3>2. \A s \in Calls : attempt'[s] = attempt[s] \/ (s = r /\ attempt'[s] = attempt[r] + 1)
      BY <3>1 DEF Shape
    <3>3. \A s \in Calls, k \in 1 .. MaxSends :
            k <= attempt[s] /\ <<s, k>> \notin wire =>
              k <= attempt'[s] /\ <<s, k>> \notin wire'
      BY <2>1, <2>2, <3>2 DEF Shape
    <3> QED
      BY <3>3 DEF Executed
  <2> QED
    BY <1>0, <2>1, <2>3
<1>4. ASSUME NEW r \in Calls, ClaimFails(r) PROVE ClaimsAreExecuted'
  <2>1. UNCHANGED <<wire, ledger>>
    BY <1>4 DEF ClaimFails
  <2> QED
    BY <1>0, <1>00, <2>1
<1>5. ASSUME NEW r \in Calls, Kill(r) PROVE ClaimsAreExecuted'
  <2>1. UNCHANGED <<wire, ledger>>
    BY <1>5 DEF Kill
  <2> QED
    BY <1>0, <1>00, <2>1
<1>6. ASSUME NEW r \in Calls, NEW c \in Containers, NEW q \in InputType \cup {None},
             Receive(r, c, q)
      PROVE  ClaimsAreExecuted'
  <2>1. UNCHANGED <<wire, ledger>>
    BY <1>6 DEF Receive
  <2> QED
    BY <1>0, <1>00, <2>1
<1>7. ASSUME NEW r \in Calls, NEW k \in 1 .. MaxSends,
             ExecuteClaim(r, k)
      PROVE  ClaimsAreExecuted'
  <2>1. wire' = wire \ {<<r, k>>} /\ <<r, k>> \in wire /\ UNCHANGED <<attempt, input>>
    BY <1>7 DEF ExecuteClaim
  <2>2. k <= attempt[r]
    BY <2>1 DEF SentClaims
  <2>3. Executed(r)' /\ \A s \in Calls : Executed(s) => Executed(s)'
    BY <2>1, <2>2 DEF Executed
  <2>4. input[r] # None
    <3>1. attempt[r] > 0
      BY <2>2 DEF Shape
    <3> QED
      BY <3>1, NoneAssumption DEF Stages, InputType
  <2>5. \A t \in Tokens : ledger'[t] # None => ledger[t] # None \/ t = input[r].token
    BY <1>7 DEF ExecuteClaim, Shape
  <2> QED
    BY <2>1, <2>3, <2>4, <2>5
<1>8. ASSUME NEW c \in Containers, NEW i \in DOMAIN inflight[c],
             AnswerFetch(c, i)
      PROVE  ClaimsAreExecuted'
  <2>1. UNCHANGED <<wire, ledger>>
    BY <1>8 DEF AnswerFetch
  <2> QED
    BY <1>0, <1>00, <2>1
<1>9. ASSUME NEW c \in Containers, NEW i \in DOMAIN inflight[c],
             FetchReturns(c, i)
      PROVE  ClaimsAreExecuted'
  <2>1. UNCHANGED <<wire, ledger>>
    BY <1>9 DEF FetchReturns
  <2> QED
    BY <1>0, <1>00, <2>1
<1>10. ASSUME NEW c \in Containers, NEW i \in DOMAIN inflight[c],
              FetchFails(c, i)
       PROVE  ClaimsAreExecuted'
  <2>1. UNCHANGED <<wire, ledger>>
    BY <1>10 DEF FetchFails
  <2> QED
    BY <1>0, <1>00, <2>1
<1>11. ASSUME NEW w \in wrappers, NEW b \in Bindings,
              Accept(w, b)
       PROVE  ClaimsAreExecuted'
  <2>1. UNCHANGED <<wire, ledger>>
    BY <1>11 DEF Accept, endpoint
  <2> QED
    BY <1>0, <1>00, <2>1
<1>12. ASSUME NEW k \in Keys, NEW nb \in now .. now + 1,
              PublishKey(k, nb)
       PROVE  ClaimsAreExecuted'
  <2>1. UNCHANGED <<wire, ledger>>
    BY <1>12 DEF PublishKey, endpoint
  <2> QED
    BY <1>0, <1>00, <2>1
<1>13. ASSUME NEW t \in Tokens, MintToken(t) PROVE ClaimsAreExecuted'
  <2>1. UNCHANGED <<wire, ledger>>
    BY <1>13 DEF MintToken, endpoint
  <2> QED
    BY <1>0, <1>00, <2>1
<1>14. ASSUME NEW t \in Tokens, ExpireClaim(t) PROVE ClaimsAreExecuted'
  <2>1. UNCHANGED wire /\ \A x \in Tokens : ledger'[x] # None => ledger[x] # None
    BY <1>14 DEF ExpireClaim, endpoint, Shape
  <2> QED
    BY <1>0, <1>00, <2>1
<1>15. CASE Tick
  <2>1. UNCHANGED <<wire, ledger>>
    BY <1>15 DEF Tick, endpoint
  <2> QED
    BY <1>0, <1>00, <2>1
<1>16. CASE UNCHANGED vars
  BY <1>0, <1>00, <1>16 DEF vars, endpoint
<1> QED
  BY <1>1, <1>2, <1>3, <1>4, <1>5, <1>6, <1>7, <1>8, <1>9, <1>10, <1>11, <1>12,
     <1>13, <1>14, <1>15, <1>16
     DEF Next, HandlerStep

LEMMA VouchesStep == Shape /\ Stages /\ SentClaims /\ VouchesOnce /\ [Next]_vars => VouchesOnce'
<1> SUFFICES ASSUME Shape, Stages, SentClaims, VouchesOnce, [Next]_vars PROVE VouchesOnce'
  OBVIOUS
<1> USE DEF VouchesOnce
<1>00. now # None /\ \A w \in wrappers : w.token \in Tokens
  BY NoneAssumption, TimeAssumption DEF Shape, Times, WrapperType
<1>1. ASSUME NEW r \in Calls, RejectCall(r) PROVE VouchesOnce'
  <2>1. UNCHANGED <<wrappers, ledger, forgot, evidence>>
    BY <1>1 DEF RejectCall
  <2> QED
    BY <2>1
<1>2. ASSUME NEW r \in Calls, SecretFails(r) PROVE VouchesOnce'
  <2>1. UNCHANGED <<wrappers, ledger, forgot, evidence>>
    BY <1>2 DEF SecretFails
  <2> QED
    BY <2>1
<1>3. ASSUME NEW r \in Calls, SendClaim(r) PROVE VouchesOnce'
  <2>1. UNCHANGED <<wrappers, ledger, forgot, evidence>>
    BY <1>3 DEF SendClaim
  <2> QED
    BY <2>1
<1>4. ASSUME NEW r \in Calls, ClaimFails(r) PROVE VouchesOnce'
  <2>1. UNCHANGED <<wrappers, ledger, forgot, evidence>>
    BY <1>4 DEF ClaimFails
  <2> QED
    BY <2>1
<1>5. ASSUME NEW r \in Calls, Kill(r) PROVE VouchesOnce'
  <2>1. UNCHANGED <<wrappers, ledger, forgot, evidence>>
    BY <1>5 DEF Kill
  <2> QED
    BY <2>1
<1>6. ASSUME NEW r \in Calls, NEW c \in Containers, NEW q \in InputType \cup {None},
             Receive(r, c, q)
      PROVE  VouchesOnce'
  <2>1. UNCHANGED <<wrappers, ledger, forgot, evidence>>
    BY <1>6 DEF Receive
  <2> QED
    BY <2>1
<1>7. ASSUME NEW r \in Calls, NEW k \in 1 .. MaxSends,
             ExecuteClaim(r, k)
      PROVE  VouchesOnce'
  <2> DEFINE t == input[r].token
  <2>0. input[r] \in [token : Tokens, binding : Bindings]
    <3>1. attempt[r] > 0
      BY <1>7 DEF ExecuteClaim, SentClaims, Shape
    <3> QED
      BY <3>1 DEF Stages
  <2>1. UNCHANGED <<forgot, evidence>> /\ t \in Tokens
    BY <1>7, <2>0 DEF ExecuteClaim
  <2>2. \A w \in wrappers : ledger[w.token] # None => ledger'[w.token] # None
    BY <1>7, <2>1, <1>00, NoneAssumption DEF ExecuteClaim, Shape, Times
  <2>3. CASE UNCHANGED wrappers
    BY <2>1, <2>2, <2>3
  <2>4. CASE ClaimResult(r) = "claimed" /\ Sign(r)
    <3>1. ledger[t] = None /\ ledger'[t] = now
      BY <1>7, <2>1, <2>4 DEF ExecuteClaim, ClaimResult, Shape
    <3>2. ledger'[t] # None
      BY <3>1, <1>00
    <3>3. \A w \in wrappers : w.token = t => w.token \in forgot
      BY <3>1
    <3>4. \A w \in wrappers' \ wrappers : w.token = t /\ w.binding = input[r].binding
      BY <2>4 DEF Sign
    <3>5. wrappers \subseteq wrappers'
      BY <2>4 DEF Sign
    <3> HIDE DEF t
    <3>6. \A w \in wrappers' : w.token \notin forgot => ledger'[w.token] # None
      BY <2>2, <3>2, <3>4
    <3>7. \A v, w \in wrappers' :
            v.token = w.token /\ v.token \notin forgot => v.binding = w.binding
      BY <3>3, <3>4
    <3> QED
      BY <2>1, <3>5, <3>6, <3>7
  <2> QED
    BY <1>7, <2>3, <2>4 DEF ExecuteClaim
<1>8. ASSUME NEW c \in Containers, NEW i \in DOMAIN inflight[c],
             AnswerFetch(c, i)
      PROVE  VouchesOnce'
  <2>1. UNCHANGED <<wrappers, ledger, forgot, evidence>>
    BY <1>8 DEF AnswerFetch
  <2> QED
    BY <2>1
<1>9. ASSUME NEW c \in Containers, NEW i \in DOMAIN inflight[c],
             FetchReturns(c, i)
      PROVE  VouchesOnce'
  <2>1. UNCHANGED <<wrappers, ledger, forgot, evidence>>
    BY <1>9 DEF FetchReturns
  <2> QED
    BY <2>1
<1>10. ASSUME NEW c \in Containers, NEW i \in DOMAIN inflight[c],
              FetchFails(c, i)
       PROVE  VouchesOnce'
  <2>1. UNCHANGED <<wrappers, ledger, forgot, evidence>>
    BY <1>10 DEF FetchFails
  <2> QED
    BY <2>1
<1>11. ASSUME NEW w \in wrappers, NEW b \in Bindings, Accept(w, b) PROVE VouchesOnce'
  <2>1. UNCHANGED <<wrappers, ledger, forgot>>
    BY <1>11 DEF Accept
  <2>2. evidence' = evidence \cup {[token |-> w.token, binding |-> w.binding]}
    BY <1>11 DEF Accept, ValidatePayload
  <2> QED
    BY <2>1, <2>2
<1>12. ASSUME NEW k \in Keys, NEW nb \in now .. now + 1,
              PublishKey(k, nb)
       PROVE  VouchesOnce'
  <2>1. UNCHANGED <<wrappers, ledger, forgot, evidence>>
    BY <1>12 DEF PublishKey, endpoint
  <2> QED
    BY <2>1
<1>13. ASSUME NEW t \in Tokens, MintToken(t) PROVE VouchesOnce'
  <2>1. UNCHANGED <<wrappers, ledger, forgot, evidence>>
    BY <1>13 DEF MintToken, endpoint
  <2> QED
    BY <2>1
<1>14. ASSUME NEW t \in Tokens, ExpireClaim(t) PROVE VouchesOnce'
  <2>1. UNCHANGED <<wrappers, evidence>> /\ forgot' = forgot \cup {t}
    BY <1>14 DEF ExpireClaim
  <2>2. \A x \in Tokens \ {t} : ledger'[x] = ledger[x]
    BY <1>14 DEF ExpireClaim
  <2> QED
    BY <2>1, <2>2, <1>00
<1>15. CASE Tick
  <2>1. UNCHANGED <<wrappers, ledger, forgot, evidence>>
    BY <1>15 DEF Tick, endpoint
  <2> QED
    BY <2>1
<1>16. CASE UNCHANGED vars
  BY <1>16 DEF vars, endpoint
<1> QED
  BY <1>1, <1>2, <1>3, <1>4, <1>5, <1>6, <1>7, <1>8, <1>9, <1>10, <1>11, <1>12,
     <1>13, <1>14, <1>15, <1>16
     DEF Next, HandlerStep

\* Who is answered that its token was replayed was waiting for an attempt that
\* found the token in the ledger.
CauseOfReplay ==
  \A r \in Calls : pc[r] # "replayed" /\ pc'[r] = "replayed" =>
    \E k \in 1 .. MaxSends :
      /\ attempt[r] = k /\ <<r, k>> \in wire /\ ClaimResult(r) # "claimed"
      /\ UNCHANGED <<attempt, input>>

LEMMA ReplayCause == Shape /\ [Next]_vars => CauseOfReplay
<1> SUFFICES ASSUME Shape, [Next]_vars PROVE CauseOfReplay
  OBVIOUS
<1> USE DEF Shape, CauseOfReplay
<1>1. ASSUME NEW r \in Calls, RejectCall(r) PROVE CauseOfReplay
  BY <1>1 DEF RejectCall
<1>2. ASSUME NEW r \in Calls, SecretFails(r) PROVE CauseOfReplay
  BY <1>2 DEF SecretFails
<1>3. ASSUME NEW r \in Calls, SendClaim(r) PROVE CauseOfReplay
  BY <1>3 DEF SendClaim
<1>4. ASSUME NEW r \in Calls, ClaimFails(r) PROVE CauseOfReplay
  BY <1>4 DEF ClaimFails
<1>5. ASSUME NEW r \in Calls, Kill(r) PROVE CauseOfReplay
  BY <1>5 DEF Kill
<1>6. ASSUME NEW r \in Calls, NEW c \in Containers, NEW q \in InputType \cup {None},
             Receive(r, c, q)
      PROVE  CauseOfReplay
  <2>1. AfterKey(q, cache[c].key) # "replayed"
    BY AfterKeyFacts
  <2> QED
    BY <1>6, <2>1 DEF Receive
<1>7. ASSUME NEW r \in Calls, NEW k \in 1 .. MaxSends,
             ExecuteClaim(r, k)
      PROVE  CauseOfReplay
  <2>1. CASE UNCHANGED pc
    BY <2>1
  <2>2. CASE Sign(r)
    BY <2>2 DEF Sign
  <2>3. CASE attempt[r] = k /\ ClaimResult(r) # "claimed" /\ pc' = [pc EXCEPT ![r] = "replayed"]
    BY <1>7, <2>3 DEF ExecuteClaim
  <2> QED
    BY <1>7, <2>1, <2>2, <2>3 DEF ExecuteClaim
<1>8. ASSUME NEW c \in Containers, NEW i \in DOMAIN inflight[c],
             AnswerFetch(c, i)
      PROVE  CauseOfReplay
  BY <1>8 DEF AnswerFetch
<1>9. ASSUME NEW c \in Containers, NEW i \in DOMAIN inflight[c],
             FetchReturns(c, i)
      PROVE  CauseOfReplay
  <2>1. PICK k : pc' = [r \in Calls |-> IF Waiting(r, c) THEN AfterKey(input[r], k) ELSE pc[r]]
    BY <1>9 DEF FetchReturns
  <2>2. \A r \in Calls : AfterKey(input[r], k) # "replayed"
    BY AfterKeyFacts
  <2> QED
    BY <2>1, <2>2
<1>10. ASSUME NEW c \in Containers, NEW i \in DOMAIN inflight[c],
              FetchFails(c, i)
       PROVE  CauseOfReplay
  BY <1>10 DEF FetchFails
<1>11. ASSUME NEW w \in wrappers, NEW b \in Bindings, Accept(w, b) PROVE CauseOfReplay
  BY <1>11 DEF Accept, endpoint
<1>12. ASSUME NEW k \in Keys, NEW nb \in now .. now + 1,
              PublishKey(k, nb)
       PROVE  CauseOfReplay
  BY <1>12 DEF PublishKey, endpoint
<1>13. ASSUME NEW t \in Tokens, MintToken(t) PROVE CauseOfReplay
  BY <1>13 DEF MintToken, endpoint
<1>14. ASSUME NEW t \in Tokens, ExpireClaim(t) PROVE CauseOfReplay
  BY <1>14 DEF ExpireClaim, endpoint
<1>15. CASE Tick
  BY <1>15 DEF Tick, endpoint
<1>16. CASE UNCHANGED vars
  BY <1>16 DEF vars, endpoint
<1> QED
  BY <1>1, <1>2, <1>3, <1>4, <1>5, <1>6, <1>7, <1>8, <1>9, <1>10, <1>11, <1>12,
     <1>13, <1>14, <1>15, <1>16
     DEF Next, HandlerStep

\* A refusal for a replay is due to another claim of the token.
LEMMA RefusalStep ==
  Typed /\ ClaimsAreExecuted /\ RefusedOnlyForReplay /\ [Next]_vars
    => RefusedOnlyForReplay'
<1> SUFFICES ASSUME Typed, ClaimsAreExecuted, RefusedOnlyForReplay, [Next]_vars,
                    NEW r \in Calls, pc'[r] = "replayed"
             PROVE  \/ attempt'[r] > 1
                    \/ \E s \in Calls \ {r} : /\ input'[s] # None
                                              /\ input'[s].token = input'[r].token
                                              /\ attempt'[s] > 0
  BY DEF RefusedOnlyForReplay
<1>0. Shape /\ Stages /\ SentClaims
  BY ShapeIsType
<1>1. \A s \in Calls : input[s] # None => /\ input'[s] = input[s]
                                          /\ attempt'[s] >= attempt[s]
  BY <1>0, StepKeeps DEF Kept, Stages
<1>2. \A s \in Calls : attempt[s] \in Nat /\ attempt'[s] \in Nat
  <2>1. Shape'
    BY <1>0, ShapeStep
  <2> QED
    BY <1>0, <2>1, SendsAssumption DEF Shape
<1>3. CASE pc[r] = "replayed"
  <2>1. input[r] # None
    BY <1>0, <1>3, NoneAssumption DEF Stages, InputType
  <2>2. \/ attempt[r] > 1
        \/ \E s \in Calls \ {r} : input[s] # None /\ input[s].token = input[r].token
                                  /\ attempt[s] > 0
    BY <1>3 DEF RefusedOnlyForReplay
  <2>3. input'[r] = input[r] /\ attempt'[r] >= attempt[r]
    BY <1>1, <2>1
  <2>4. CASE attempt[r] > 1
    BY <1>2, <2>3, <2>4
  <2>5. ASSUME NEW s \in Calls \ {r}, input[s] # None, input[s].token = input[r].token,
               attempt[s] > 0
        PROVE  input'[s] # None /\ input'[s].token = input'[r].token /\ attempt'[s] > 0
    BY <1>1, <1>2, <2>3, <2>5
  <2> QED
    BY <2>2, <2>4, <2>5
<1>4. CASE pc[r] # "replayed"
  <2>1. PICK k \in 1 .. MaxSends :
          /\ attempt[r] = k /\ <<r, k>> \in wire /\ ClaimResult(r) # "claimed"
          /\ UNCHANGED <<attempt, input>>
    BY <1>0, <1>4, ReplayCause DEF CauseOfReplay
  <2>2. attempt[r] > 0
    BY <2>1
  <2>3. input[r].token \in Tokens
    BY <1>0, <2>2 DEF Stages
  <2>4. ledger[input[r].token] # None
    BY <2>1 DEF ClaimResult
  <2>5. PICK s \in Calls : input[s] # None /\ input[s].token = input[r].token /\ Executed(s)
    BY <2>3, <2>4 DEF ClaimsAreExecuted
  <2>6. PICK j \in 1 .. MaxSends : j <= attempt[s] /\ <<s, j>> \notin wire
    BY <2>5 DEF Executed
  <2>7. s = r => attempt[r] > 1
    BY <2>1, <2>6
  <2>8. attempt[s] > 0
    BY <1>2, <2>6
  <2> QED
    BY <2>1, <2>5, <2>7, <2>8
<1> QED
  BY <1>3, <1>4

LEMMA LedgerInvariant ==
  Spec => [](ClaimsAreExecuted /\ RefusedOnlyForReplay /\ VouchesOnce)
<1>1. Init => ClaimsAreExecuted /\ RefusedOnlyForReplay /\ VouchesOnce
  BY DEF Init, ClaimsAreExecuted, RefusedOnlyForReplay, VouchesOnce
<1>2. Typed /\ ClaimsAreExecuted /\ RefusedOnlyForReplay /\ VouchesOnce /\ [Next]_vars
        => (ClaimsAreExecuted /\ RefusedOnlyForReplay /\ VouchesOnce)'
  BY ShapeIsType, ClaimsStep, RefusalStep, VouchesStep
<1> QED
  BY <1>1, <1>2, TypeInvariant, PTL DEF Spec

\* While the ledger remembers a token it is evidence for one scan only, however
\* many invocations present it, and however often their claims are resent.
THEOREM TokensVouchOnce == Spec => []OneScanPerToken
<1>1. Typed /\ VouchesOnce => OneScanPerToken
  <2> SUFFICES ASSUME Typed, VouchesOnce, NEW e \in evidence, NEW f \in evidence,
                      e.token = f.token, e.token \notin forgot
               PROVE  e.binding = f.binding
    BY DEF OneScanPerToken
  <2>1. PICK v \in wrappers : v.token = e.token /\ v.binding = e.binding
    BY DEF VouchesOnce
  <2>2. PICK w \in wrappers : w.token = f.token /\ w.binding = f.binding
    BY DEF VouchesOnce
  <2> QED
    BY <2>1, <2>2 DEF VouchesOnce
<1> QED
  BY <1>1, LedgerInvariant, TypeInvariant, PTL

\* Whoever is refused for a replay has resent its claim, or shares its token
\* with another invocation that claimed it.
THEOREM RefusalsAreReplays == Spec => []RefusedOnlyForReplay
BY LedgerInvariant, PTL
=============================================================================
