------------------------ MODULE StunRedemption_proofs ------------------------
(***************************************************************************)
(* Theorems of StunRedemption, for any sessions, candidates, clocks, bounds *)
(* and capacity of the tracker that its assumptions allow.                 *)
(***************************************************************************)
EXTENDS StunRedemption, FiniteSetTheorems, WellFoundedInduction, TLAPS

-----------------------------------------------------------------------------
(* Least elements: the index of the first candidate that decodes, and the  *)
(* entry that was used the longest time ago.                               *)

LEMMA LeastElement ==
  ASSUME NEW S, S \subseteq Nat, S # {}
  PROVE  \E m \in S : \A x \in S : m <= x
<1>1. PICK m \in S : \A x \in S : ~(<<x, m>> \in OpToRel(<, Nat))
  BY NatLessThanWellFounded, WFMin
<1>2. \A x \in S : ~(x < m)
  BY <1>1 DEF OpToRel
<1> QED
  BY <1>2

LEMMA MinIsIn ==
  ASSUME NEW S, S \subseteq Nat, S # {}
  PROVE  Min(S) \in S
BY LeastElement DEF Min

-----------------------------------------------------------------------------
(* Decoding.                                                               *)

LEMMA GenuineDecodes ==
  ASSUME NEW x PROVE TryDecode(x) = "decoded" => x \in Candidates
BY DEF TryDecode

LEMMA DecodedIsListed ==
  ASSUME NEW n \in Nat, NEW listed, DOMAIN listed = 1 .. n,
         NEW i \in 1 .. n, TryDecode(listed[i]) = "decoded"
  PROVE  FirstDecoded(listed) # None
<1> DEFINE decoded == {k \in DOMAIN listed : TryDecode(listed[k]) = "decoded"}
<1>1. i \in decoded /\ decoded \subseteq Nat
  OBVIOUS
<1>2. Min(decoded) \in decoded
  <2> HIDE DEF decoded
  <2> QED
    BY <1>1, MinIsIn
<1>3. FirstDecoded(listed) = listed[Min(decoded)]
  BY <1>1 DEF FirstDecoded
<1>4. FirstDecoded(listed) \in Candidates
  BY <1>2, <1>3, GenuineDecodes
<1> QED
  BY <1>4, CandidatesAssumption

LEMMA CreditedIsGenuine ==
  ASSUME NEW n \in Nat, NEW listed, DOMAIN listed = 1 .. n,
         DecodeReason(listed) = "ok"
  PROVE  FirstDecoded(listed) \in Candidates
<1> DEFINE decoded == {k \in DOMAIN listed : TryDecode(listed[k]) = "decoded"}
<1>1. FirstDecoded(listed) # None
  BY DEF DecodeReason
<1>2. decoded # {} /\ decoded \subseteq Nat
  BY <1>1 DEF FirstDecoded
<1>3. Min(decoded) \in decoded
  <2> HIDE DEF decoded
  <2> QED
    BY <1>2, MinIsIn
<1>4. FirstDecoded(listed) = listed[Min(decoded)]
  BY <1>2 DEF FirstDecoded
<1> QED
  BY <1>3, <1>4, GenuineDecodes

LEMMA SubmissionsAreLists ==
  ASSUME NEW listed \in Submissions
  PROVE  \E n \in Nat : DOMAIN listed = 1 .. n
BY SizeAssumption DEF Submissions, BoundedSeq, SeqOf

LEMMA OneValid == OneValidIsEnough
<1> SUFFICES ASSUME key = "configured", NEW listed \in Submissions,
                    NEW c \in Candidates \cap ToSet(listed), Fresh(c)
             PROVE  DecodeReason(listed) = "ok"
  BY DEF OneValidIsEnough
<1>1. PICK n \in Nat : DOMAIN listed = 1 .. n
  BY SubmissionsAreLists
<1>2. PICK i \in 1 .. n : listed[i] = c
  BY <1>1 DEF ToSet
<1>3. TryDecode(c) = "decoded"
  BY CandidatesAssumption DEF TryDecode
<1>4. FirstDecoded(listed) # None
  BY <1>1, <1>2, <1>3, DecodedIsListed
<1>5. listed # <<>>
  BY <1>1, <1>2
<1>6. ~ \A k \in DOMAIN listed : TryDecode(listed[k]) = "parse_fail"
  BY <1>1, <1>2, <1>3
<1> QED
  BY <1>4, <1>5, <1>6 DEF DecodeReason

-----------------------------------------------------------------------------
(* What a submission does to the tracker and to the claims.                *)

\* A submission claims one candidate, or changes nothing.
LEMMA SubmitClaims ==
  ASSUME NEW s \in SessionIds, NEW listed \in Submissions, Submit(s, listed)
  PROVE  /\ UNCHANGED <<now, skew, key, epoch>>
         /\ \/ \E c \in Candidates : Claim(s, c)
            \/ UNCHANGED <<tracker, claims>>
<1>1. PICK n \in Nat : DOMAIN listed = 1 .. n
  BY SubmissionsAreLists
<1>2. CASE DecodeReason(listed) = "ok"
  <2>1. FirstDecoded(listed) \in Candidates
    BY <1>1, <1>2, CreditedIsGenuine
  <2> QED
    BY <1>2, <2>1 DEF Submit
<1>3. CASE DecodeReason(listed) # "ok"
  BY <1>3 DEF Submit
<1> QED
  BY <1>2, <1>3

LEMMA ClaimedLast ==
  ASSUME TypeOK, NEW s \in SessionIds, NEW c \in Candidates, Claim(s, c)
  PROVE  /\ Len(claims) \in Nat /\ Len(claims) + 1 \in 1 .. MaxClaims
         /\ claims' \in Seq(ClaimType) /\ Len(claims') = Len(claims) + 1
         /\ DOMAIN claims = 1 .. Len(claims)
         /\ DOMAIN claims' = 1 .. Len(claims) + 1
         /\ \A i \in 1 .. Len(claims) : claims'[i] = claims[i]
         /\ claims'[Len(claims) + 1] =
              [cand |-> c, session |-> s, at |-> now, outcome |-> ClaimOutcome(c, s)]
         /\ claims'[Len(claims) + 1].cand = c /\ claims'[Len(claims) + 1].session = s
         /\ claims'[Len(claims) + 1].at = now
         /\ claims'[Len(claims) + 1].outcome = ClaimOutcome(c, s)
<1> DEFINE e == [cand |-> c, session |-> s, at |-> now, outcome |-> ClaimOutcome(c, s)]
<1>1. claims' = Append(claims, e) /\ Len(claims) < MaxClaims
  BY DEF Claim
<1>2. ClaimOutcome(c, s) \in {"first", "again", "refused"}
  BY DEF ClaimOutcome
<1>3. now \in 0 .. MaxTime
  BY ClockAssumption DEF TypeOK
<1>4. e \in ClaimType
  BY <1>2, <1>3 DEF ClaimType
<1>5. claims \in Seq(ClaimType)
  BY DEF TypeOK
<1> HIDE DEF e
<1>6. Len(claims) \in Nat /\ Len(claims) + 1 \in 1 .. MaxClaims
  BY <1>1, <1>5, SizeAssumption
<1>7. claims' \in Seq(ClaimType) /\ Len(claims') = Len(claims) + 1
  BY <1>1, <1>4, <1>5
<1>8. /\ \A i \in 1 .. Len(claims) : claims'[i] = claims[i]
      /\ claims'[Len(claims) + 1] = e
  BY <1>1, <1>4, <1>5
<1>9. DOMAIN claims = 1 .. Len(claims) /\ DOMAIN claims' = 1 .. Len(claims) + 1
  BY <1>5, <1>7
<1>10. /\ e.cand = c /\ e.session = s /\ e.at = now /\ e.outcome = ClaimOutcome(c, s)
  BY DEF e
<1> QED
  BY <1>6, <1>7, <1>8, <1>9, <1>10 DEF e

\* Of what is remembered, the least recently used is the one that goes.
LEMMA LeastRecent ==
  ASSUME TypeOK, DOMAIN tracker # {}
  PROVE  /\ LeastRecentlyUsed \in DOMAIN tracker
         /\ \A d \in DOMAIN tracker : tracker[LeastRecentlyUsed].used <= tracker[d].used
<1> DEFINE S == {tracker[d].used : d \in DOMAIN tracker}
<1>1. \A d \in DOMAIN tracker : tracker[d].used \in Nat
  BY DEF TypeOK, EntryType
<1>2. S \subseteq Nat /\ S # {}
  BY <1>1
<1>3. PICK m \in S : \A x \in S : m <= x
  <2> HIDE DEF S
  <2> QED
    BY <1>2, LeastElement
<1>4. PICK d \in DOMAIN tracker : tracker[d].used = m
  BY <1>3
<1>5. \A x \in DOMAIN tracker : tracker[d].used <= tracker[x].used
  BY <1>3, <1>4
<1> QED
  BY <1>4, <1>5 DEF LeastRecentlyUsed

LEMMA KeptFits ==
  ASSUME TypeOK, NEW c \in Candidates
  PROVE  /\ Kept(c) \subseteq DOMAIN tracker
         /\ IsFiniteSet(Kept(c) \cup {c})
         /\ Cardinality(Kept(c) \cup {c}) <= MaxEntries
<1> DEFINE D == DOMAIN tracker
<1>1. IsFiniteSet(D) /\ Cardinality(D) <= MaxEntries
  BY DEF TypeOK
<1>2. Cardinality(D) \in Nat /\ MaxEntries \in Nat \ {0}
  BY <1>1, FS_CardinalityType, SizeAssumption
<1>3. CASE c \in D
  <2>1. Kept(c) \cup {c} = D /\ Kept(c) = D
    BY <1>3 DEF Kept
  <2> QED
    BY <1>1, <2>1
<1>4. CASE c \notin D /\ Cardinality(D) = MaxEntries
  <2> DEFINE l == LeastRecentlyUsed
  <2>1. D # {}
    BY <1>2, <1>4, FS_EmptySet
  <2>2. l \in D
    BY <2>1, LeastRecent
  <2> HIDE DEF l
  <2>3. Kept(c) = D \ {l}
    BY <1>4 DEF Kept, l
  <2>4. IsFiniteSet(D \ {l}) /\ Cardinality(D \ {l}) = Cardinality(D) - 1
    BY <1>1, <2>2, FS_RemoveElement
  <2>5. /\ IsFiniteSet((D \ {l}) \cup {c})
        /\ Cardinality((D \ {l}) \cup {c}) = Cardinality(D \ {l}) + 1
    BY <2>4, <1>4, FS_AddElement
  <2> HIDE DEF D
  <2>6. Cardinality((D \ {l}) \cup {c}) <= MaxEntries
    BY <1>2, <1>4, <2>4, <2>5
  <2> QED
    BY <2>3, <2>5, <2>6 DEF D
<1>5. CASE c \notin D /\ Cardinality(D) # MaxEntries
  <2>1. Kept(c) = D
    BY <1>5 DEF Kept
  <2>2. IsFiniteSet(D \cup {c}) /\ Cardinality(D \cup {c}) = Cardinality(D) + 1
    BY <1>1, <1>5, FS_AddElement
  <2> HIDE DEF D
  <2>3. Cardinality(D) + 1 <= MaxEntries
    BY <1>1, <1>2, <1>5
  <2> QED
    BY <2>1, <2>2, <2>3 DEF D
<1> QED
  BY <1>3, <1>4, <1>5

\* The entry of the claimed candidate is used by this claim; the others are
\* as they were.
LEMMA ClaimUsesEntry ==
  ASSUME TypeOK, NEW s \in SessionIds, NEW c \in Candidates, Claim(s, c)
  PROVE  /\ ClaimOutcome(c, s) = "first" => DOMAIN tracker' = Kept(c) \cup {c}
         /\ ClaimOutcome(c, s) # "first" => DOMAIN tracker' = DOMAIN tracker
         /\ c \in DOMAIN tracker'
         /\ tracker'[c].used = Len(claims) + 1
         /\ \A d \in DOMAIN tracker' \ {c} : d \in DOMAIN tracker /\ tracker'[d] = tracker[d]
         /\ ~Existing(c) =>
              /\ ClaimOutcome(c, s) = "first"
              /\ tracker'[c].session = s /\ tracker'[c].at = now
         /\ Existing(c) =>
              /\ ClaimOutcome(c, s) = (IF tracker[c].session = s THEN "again" ELSE "refused")
              /\ c \in DOMAIN tracker /\ now - tracker[c].at <= Ttl
              /\ tracker'[c].session = tracker[c].session
              /\ tracker'[c].at = tracker[c].at
         /\ tracker' = [d \in DOMAIN tracker' |-> tracker'[d]]
         /\ tracker'[c] \in EntryType
<1>0. now \in 0 .. MaxTime
  BY ClockAssumption DEF TypeOK
<1>00. Len(claims) + 1 \in 1 .. MaxClaims
  BY ClaimedLast
<1>000. Kept(c) \subseteq DOMAIN tracker
  BY KeptFits
<1> USE <1>00, <1>000 DEF Claim
<1>1. CASE ~Existing(c)
  <2>1. ClaimOutcome(c, s) = "first"
    BY <1>1 DEF ClaimOutcome
  <2>2. tracker' = Inserted(c, s)
    BY <2>1
  <2> QED
    BY <1>0, <1>1, <2>1, <2>2 DEF Inserted, EntryType
<1>2. CASE Existing(c)
  <2>1. ClaimOutcome(c, s) = (IF tracker[c].session = s THEN "again" ELSE "refused")
    BY <1>2 DEF ClaimOutcome
  <2>2. tracker' = [tracker EXCEPT ![c].used = Len(claims) + 1]
    BY <2>1 DEF Touched
  <2>3. c \in DOMAIN tracker /\ tracker[c] \in EntryType /\ tracker \in [DOMAIN tracker -> EntryType]
    BY <1>2 DEF Existing, TypeOK
  <2>4. now - tracker[c].at <= Ttl
    BY <1>0, <1>2, <2>3, ClockAssumption DEF Existing, IsStale, EntryType
  <2> QED
    BY <1>0, <1>2, <2>1, <2>2, <2>3, <2>4 DEF EntryType
<1> QED
  BY <1>1, <1>2

LEMMA EpochIsNat ==
  ASSUME NEW x \in Int, NEW d \in Nat \ {0}, x >= 0
  PROVE  x \div d \in Nat
OBVIOUS

-----------------------------------------------------------------------------
(* Types.                                                                  *)

LEMMA TypeInit == Init => TypeOK
<1> SUFFICES ASSUME Init PROVE TypeOK
  OBVIOUS
<1>1. DOMAIN tracker = {}
  BY DEF Init
<1>2. IsFiniteSet({}) /\ Cardinality({}) = 0
  BY FS_EmptySet
<1>3. tracker \in [{} -> EntryType]
  BY DEF Init
<1>4. claims \in Seq(ClaimType) /\ Len(claims) <= MaxClaims
  BY SizeAssumption DEF Init
<1> QED
  BY <1>1, <1>2, <1>3, <1>4, ClockAssumption, SizeAssumption DEF Init, TypeOK

LEMMA TypeStep == TypeOK /\ [Next]_vars => TypeOK'
<1> SUFFICES ASSUME TypeOK, [Next]_vars PROVE TypeOK'
  OBVIOUS
<1>1. ASSUME NEW s \in SessionIds, NEW listed \in Submissions, Submit(s, listed)
      PROVE  TypeOK'
  <2>1. UNCHANGED <<now, skew, key, epoch>>
    BY <1>1, SubmitClaims
  <2>2. ASSUME NEW c \in Candidates, Claim(s, c) PROVE TypeOK'
    <3>0. /\ claims' \in Seq(ClaimType) /\ Len(claims') = Len(claims) + 1
          /\ Len(claims) + 1 \in 1 .. MaxClaims
      BY <2>2, ClaimedLast
    <3>1. claims' \in Seq(ClaimType) /\ Len(claims') <= MaxClaims
      BY <3>0, SizeAssumption
    <3>2. DOMAIN tracker' \subseteq Candidates
      BY <2>2, ClaimUsesEntry DEF TypeOK
    <3>3. IsFiniteSet(DOMAIN tracker') /\ Cardinality(DOMAIN tracker') <= MaxEntries
      <4>1. CASE ClaimOutcome(c, s) = "first"
        <5>1. DOMAIN tracker' = Kept(c) \cup {c}
          BY <2>2, <4>1, ClaimUsesEntry
        <5> QED
          BY <5>1, KeptFits
      <4>2. CASE ClaimOutcome(c, s) # "first"
        <5>1. DOMAIN tracker' = DOMAIN tracker
          BY <2>2, <4>2, ClaimUsesEntry
        <5> QED
          BY <5>1 DEF TypeOK
      <4> QED
        BY <4>1, <4>2
    <3>4. \A d \in DOMAIN tracker' : tracker'[d] \in EntryType
      BY <2>2, ClaimUsesEntry DEF TypeOK
    <3>5. tracker' \in [DOMAIN tracker' -> EntryType]
      BY <2>2, <3>4, ClaimUsesEntry
    <3> QED
      BY <2>1, <3>1, <3>2, <3>3, <3>5 DEF TypeOK
  <2>3. CASE UNCHANGED <<tracker, claims>>
    BY <2>1, <2>3 DEF TypeOK
  <2> QED
    BY <1>1, <2>2, <2>3, SubmitClaims
<1>2. ASSUME NEW c \in Candidates, Purge(c) PROVE TypeOK'
  <2>1. DOMAIN tracker' = DOMAIN tracker \ {c} /\ tracker' \in [DOMAIN tracker' -> EntryType]
    BY <1>2 DEF Purge, Restrict, TypeOK
  <2>2. IsFiniteSet(DOMAIN tracker') /\ Cardinality(DOMAIN tracker') <= Cardinality(DOMAIN tracker)
    BY <2>1, FS_Subset DEF TypeOK
  <2>3. Cardinality(DOMAIN tracker') <= MaxEntries
    BY <2>1, <2>2, FS_CardinalityType, SizeAssumption DEF TypeOK
  <2>4. UNCHANGED <<now, skew, key, epoch, claims>>
    BY <1>2 DEF Purge
  <2> QED
    BY <2>1, <2>2, <2>3, <2>4 DEF TypeOK
<1>3. ASSUME NEW c \in Candidates, Issue(c) PROVE TypeOK'
  <2>1. now + skew \in Int /\ now + skew >= 0 /\ TicksPerSecond \in Nat \ {0}
    BY ClockAssumption DEF TypeOK
  <2>2. (now + skew) \div TicksPerSecond \in Nat
    BY <2>1, EpochIsNat
  <2> QED
    BY <1>3, <2>2 DEF Issue, TypeOK
<1>4. CASE Tick
  BY <1>4, ClockAssumption DEF Tick, TypeOK
<1>5. CASE UNCHANGED vars
  BY <1>5 DEF vars, TypeOK
<1> QED
  BY <1>1, <1>2, <1>3, <1>4, <1>5 DEF Next

\* Clocks, candidates, tracker and claims keep their types; in particular the
\* tracker never holds more entries than its capacity.
THEOREM TypeCorrect == Spec => []TypeOK
BY TypeInit, TypeStep, PTL DEF Spec

-----------------------------------------------------------------------------
(* What the tracker remembers of the claims, and what it has forgotten.    *)

\* The entry of c knows the last claim of c,
UsedLast(c) ==
  /\ tracker[c].used \in DOMAIN claims /\ claims[tracker[c].used].cand = c
  /\ \A x \in DOMAIN claims : x > tracker[c].used => claims[x].cand # c

\* who redeemed c and when,
RedeemedBy(c) ==
  \E i \in DOMAIN claims :
    /\ First(i) /\ claims[i].cand = c
    /\ claims[i].session = tracker[c].session /\ claims[i].at = tracker[c].at

\* nobody has redeemed it since,
LastRedeemed(c) ==
  \A i \in DOMAIN claims : First(i) /\ claims[i].cand = c => claims[i].at <= tracker[c].at

\* and whoever else had it before lost it to that session.
Superseded(c) ==
  \A i \in DOMAIN claims :
    Accepted(i) /\ claims[i].cand = c /\ claims[i].session # tracker[c].session =>
      \E k \in DOMAIN claims :
        k > i /\ First(k) /\ claims[k].cand = c /\ claims[k].session = tracker[c].session

Remembered ==
  \A c \in DOMAIN tracker : UsedLast(c) /\ RedeemedBy(c) /\ LastRedeemed(c) /\ Superseded(c)

ClaimsArePast == \A i \in DOMAIN claims : claims[i].at <= now

\* What a claim of c would find in UsedSince.
Cands(q, Y) == {q[x].cand : x \in Y}
Since(c) ==
  Cands(claims, {y \in DOMAIN claims : \A z \in y .. Len(claims) : claims[z].cand # c})

\* A redeemed candidate is only forgotten for its age, or for MaxEntries others.
Forgotten ==
  \A i \in DOMAIN claims :
    First(i) /\ claims[i].cand \notin DOMAIN tracker =>
      \/ now - claims[i].at > Ttl
      \/ Cardinality(Since(claims[i].cand)) >= MaxEntries

Memory == ClaimsArePast /\ Remembered /\ Forgotten

LEMMA CandsFinite ==
  ASSUME NEW n \in Nat, NEW q, NEW Y, Y \subseteq 1 .. n
  PROVE  IsFiniteSet(Cands(q, Y))
<1> DEFINE T == {q[x].cand : x \in Y}
           f == [x \in Y |-> q[x].cand]
<1>0. IsFiniteSet(1 .. n)
  BY FS_Interval
<1>1. IsFiniteSet(Y)
  BY <1>0, FS_Subset
<1>2. f \in Surjection(Y, T)
  BY DEF Surjection
<1> HIDE DEF T, f
<1>3. IsFiniteSet(T)
  BY <1>1, <1>2, FS_Surjection
<1> QED
  BY <1>3 DEF T, Cands

\* Cardinalities of finite sets in terms of numbers.
LEMMA LargerSet ==
  ASSUME NEW S, NEW T, IsFiniteSet(T), S \subseteq T
  PROVE  IsFiniteSet(S) /\ Cardinality(S) \in Nat /\ Cardinality(T) \in Nat
         /\ Cardinality(S) <= Cardinality(T)
<1>1. IsFiniteSet(S) /\ Cardinality(S) <= Cardinality(T)
  BY FS_Subset
<1> QED
  BY <1>1, FS_CardinalityType

LEMMA MemoryInit == Init => Memory
BY DEF Init, Memory, ClaimsArePast, Remembered, Forgotten

\* Another claim is one more candidate used since.
LEMMA SinceGrows ==
  ASSUME TypeOK, NEW s \in SessionIds, NEW c \in Candidates, Claim(s, c),
         NEW d, d # c
  PROVE  /\ Since(d) \subseteq Since(d)' /\ IsFiniteSet(Since(d)')
         /\ Cardinality(Since(d)) \in Nat /\ Cardinality(Since(d)') \in Nat
         /\ Cardinality(Since(d)) <= Cardinality(Since(d)')
<1> DEFINE n == Len(claims)
<1>1. /\ n \in Nat /\ Len(claims') = n + 1 /\ DOMAIN claims = 1 .. n
      /\ DOMAIN claims' = 1 .. n + 1
      /\ \A i \in 1 .. n : claims'[i] = claims[i]
      /\ claims'[n + 1].cand = c
  BY ClaimedLast
<1> HIDE DEF n
<1> DEFINE Y == {y \in DOMAIN claims : \A z \in y .. Len(claims) : claims[z].cand # d}
           Z == {y \in DOMAIN claims' : \A z \in y .. Len(claims') : claims'[z].cand # d}
<1>2. ASSUME NEW y \in Y PROVE y \in Z /\ claims'[y].cand = claims[y].cand
  <2>1. y \in 1 .. n /\ \A z \in y .. n : claims[z].cand # d
    BY <1>1 DEF n
  <2>2. \A z \in y .. n + 1 : z \in y .. n \/ z = n + 1
    BY <1>1, <2>1
  <2>3. \A z \in y .. n : z \in 1 .. n
    BY <1>1, <2>1
  <2> QED
    BY <1>1, <2>1, <2>2, <2>3
<1>3. Since(d) = Cands(claims, Y) /\ Since(d)' = Cands(claims', Z)
  BY DEF Since
<1>4. Since(d) \subseteq Since(d)'
  <2> HIDE DEF Y, Z
  <2> QED
    BY <1>2, <1>3 DEF Cands
<1>5. IsFiniteSet(Since(d)')
  <2>1. Z \subseteq 1 .. n + 1 /\ n + 1 \in Nat
    BY <1>1
  <2> HIDE DEF Z
  <2> QED
    BY <1>3, <2>1, CandsFinite
<1> QED
  BY <1>4, <1>5, LargerSet

\* What is evicted was used before everything that stays, and before the claim.
LEMMA EvictedIsLeast ==
  ASSUME TypeOK, Remembered, NEW s \in SessionIds, NEW c \in Candidates, Claim(s, c),
         c \notin DOMAIN tracker, Cardinality(DOMAIN tracker) = MaxEntries,
         NEW l, l = LeastRecentlyUsed
  PROVE  Cardinality(Since(l)') >= MaxEntries
<1> DEFINE n == Len(claims)
           D == DOMAIN tracker
           K == (D \ {l}) \cup {c}
           Z == {y \in DOMAIN claims' : \A z \in y .. Len(claims') : claims'[z].cand # l}
<1>0. IsFiniteSet(D) /\ Cardinality(D) = MaxEntries /\ MaxEntries \in Nat \ {0}
  BY SizeAssumption DEF TypeOK
<1>1. D # {}
  BY <1>0, FS_EmptySet
<1>2. l \in D /\ \A d \in D : tracker[l].used <= tracker[d].used
  BY <1>1, LeastRecent
<1>3. /\ n \in Nat /\ Len(claims') = n + 1 /\ DOMAIN claims = 1 .. n
      /\ DOMAIN claims' = 1 .. n + 1
      /\ \A i \in 1 .. n : claims'[i] = claims[i]
      /\ claims'[n + 1].cand = c
  BY ClaimedLast
<1>4. /\ \A d \in D : tracker[d].used \in 1 .. n /\ claims[tracker[d].used].cand = d
      /\ \A x \in 1 .. n : x > tracker[l].used => claims[x].cand # l
  BY <1>2, <1>3 DEF Remembered, UsedLast
<1>5. l # c
  BY <1>2
<1> HIDE DEF n
<1>6. ASSUME NEW d \in D, d # l PROVE tracker[d].used \in Z /\ claims'[tracker[d].used].cand = d
  <2> DEFINE u == tracker[d].used
             v == tracker[l].used
  <2>1. u \in 1 .. n /\ v \in 1 .. n /\ v <= u /\ claims[u].cand = d /\ claims[v].cand = l
    BY <1>2, <1>4
  <2>2. u # v
    BY <2>1, <1>6
  <2> HIDE DEF u, v
  <2>3. \A z \in u .. n : z \in 1 .. n /\ z > v
    BY <2>1, <2>2, <1>3
  <2>4. \A z \in u .. n : claims'[z].cand # l
    BY <2>3, <1>3, <1>4 DEF v
  <2>5. \A z \in u .. n + 1 : z \in u .. n \/ z = n + 1
    BY <2>1, <1>3
  <2>6. u \in Z
    BY <2>1, <2>4, <2>5, <1>3, <1>5
  <2> QED
    BY <2>1, <2>6, <1>3 DEF u
<1>7. n + 1 \in Z
  BY <1>3, <1>5
<1>8. Since(l)' = Cands(claims', Z)
  BY DEF Since
<1>9. Z \subseteq 1 .. n + 1 /\ n + 1 \in Nat
  BY <1>3
<1> HIDE DEF Z, D
<1>10. K \subseteq Since(l)'
  BY <1>3, <1>6, <1>7, <1>8 DEF Cands
<1>11. IsFiniteSet(Since(l)')
  BY <1>8, <1>9, CandsFinite
<1>12. IsFiniteSet(D \ {l}) /\ Cardinality(D \ {l}) = MaxEntries - 1
  BY <1>0, <1>2, FS_RemoveElement
<1>13. Cardinality(K) = Cardinality(D \ {l}) + 1
  BY <1>12, FS_AddElement DEF D
<1>14. Cardinality(K) <= Cardinality(Since(l)') /\ Cardinality(Since(l)') \in Nat
  BY <1>10, <1>11, LargerSet
<1> QED
  <2> HIDE DEF K
  <2> QED
    BY <1>0, <1>12, <1>13, <1>14

LEMMA ClaimKeepsPast ==
  ASSUME TypeOK, ClaimsArePast, NEW s \in SessionIds, NEW c \in Candidates,
         Claim(s, c), now' = now
  PROVE  ClaimsArePast'
<1>1. /\ DOMAIN claims = 1 .. Len(claims) /\ DOMAIN claims' = 1 .. Len(claims) + 1
      /\ Len(claims) \in Nat
      /\ \A i \in 1 .. Len(claims) : claims'[i] = claims[i]
      /\ claims'[Len(claims) + 1].at = now
  BY ClaimedLast
<1>2. \A i \in 1 .. Len(claims) + 1 : i \in 1 .. Len(claims) \/ i = Len(claims) + 1
  BY <1>1
<1>3. now \in Int
  BY ClockAssumption DEF TypeOK
<1> QED
  BY <1>1, <1>2, <1>3 DEF ClaimsArePast

LEMMA TimesAreInts ==
  ASSUME TypeOK
  PROVE  /\ now \in Int /\ Ttl \in Int
         /\ \A i \in DOMAIN claims : claims[i].at \in Int /\ claims[i].cand \in Candidates
         /\ \A c \in DOMAIN tracker : tracker[c].at \in Int
<1>1. \A i \in DOMAIN claims : claims[i] \in ClaimType
  BY DEF TypeOK
<1>2. \A c \in DOMAIN tracker : tracker[c] \in EntryType
  BY DEF TypeOK
<1>3. now \in Int /\ Ttl \in Int /\ \A t \in 0 .. MaxTime : t \in Int
  BY ClockAssumption DEF TypeOK
<1> QED
  BY <1>1, <1>2, <1>3 DEF ClaimType, EntryType

LEMMA ClaimKeepsRemembered ==
  ASSUME TypeOK, Remembered, ClaimsArePast, NEW s \in SessionIds, NEW c \in Candidates,
         Claim(s, c), now' = now
  PROVE  Remembered'
<1>0. PICK n \in Nat : n = Len(claims)
  BY ClaimedLast
<1>1. /\ n \in Nat /\ DOMAIN claims = 1 .. n /\ DOMAIN claims' = 1 .. n + 1
      /\ \A i \in 1 .. n : claims'[i] = claims[i]
      /\ claims'[n + 1].cand = c /\ claims'[n + 1].session = s
      /\ claims'[n + 1].at = now /\ claims'[n + 1].outcome = ClaimOutcome(c, s)
  BY <1>0, ClaimedLast
<1>2. /\ tracker'[c].used = n + 1
      /\ \A d \in DOMAIN tracker' \ {c} : d \in DOMAIN tracker /\ tracker'[d] = tracker[d]
      /\ ~Existing(c) =>
           /\ ClaimOutcome(c, s) = "first"
           /\ tracker'[c].session = s /\ tracker'[c].at = now
      /\ Existing(c) =>
           /\ ClaimOutcome(c, s) = (IF tracker[c].session = s THEN "again" ELSE "refused")
           /\ c \in DOMAIN tracker
           /\ tracker'[c].session = tracker[c].session
           /\ tracker'[c].at = tracker[c].at
  BY <1>0, ClaimUsesEntry
<1>3. /\ \A i \in 1 .. n : First(i)' = First(i) /\ Accepted(i)' = Accepted(i)
      /\ First(n + 1)' = (ClaimOutcome(c, s) = "first")
      /\ Accepted(n + 1)' = (ClaimOutcome(c, s) # "refused")
  BY <1>1 DEF First, Accepted
<1>4. \A i \in 1 .. n + 1 : i \in 1 .. n \/ i = n + 1
  BY <1>1
<1>5. n + 1 \in DOMAIN claims' /\ \A i \in 1 .. n : i \in DOMAIN claims' /\ i < n + 1
  BY <1>1
<1>6. /\ now \in Int /\ \A i \in 1 .. n : claims[i].at <= now
  BY <1>1, ClockAssumption DEF ClaimsArePast, TypeOK
<1>7. ASSUME NEW d \in DOMAIN tracker', d # c
      PROVE  UsedLast(d)' /\ RedeemedBy(d)' /\ LastRedeemed(d)' /\ Superseded(d)'
  <2>1. d \in DOMAIN tracker /\ tracker'[d] = tracker[d]
    BY <1>2, <1>7
  <2>2. UsedLast(d) /\ RedeemedBy(d) /\ LastRedeemed(d) /\ Superseded(d)
    BY <2>1 DEF Remembered
  <2>3. UsedLast(d)'
    BY <1>1, <1>4, <1>5, <1>7, <2>1, <2>2 DEF UsedLast
  <2>4. RedeemedBy(d)'
    <3>1. PICK i \in 1 .. n : /\ First(i) /\ claims[i].cand = d
                              /\ claims[i].session = tracker[d].session
                              /\ claims[i].at = tracker[d].at
      BY <1>1, <2>2 DEF RedeemedBy
    <3> QED
      BY <1>1, <1>3, <1>5, <2>1, <3>1 DEF RedeemedBy
  <2>5. LastRedeemed(d)'
    BY <1>1, <1>3, <1>4, <1>7, <2>1, <2>2 DEF LastRedeemed
  <2>6. Superseded(d)'
    <3> SUFFICES ASSUME NEW i \in DOMAIN claims', Accepted(i)', claims'[i].cand = d,
                        claims'[i].session # tracker'[d].session
                 PROVE  \E k \in DOMAIN claims' :
                          /\ k > i /\ First(k)' /\ claims'[k].cand = d
                          /\ claims'[k].session = tracker'[d].session
      BY DEF Superseded
    <3>1. i \in 1 .. n /\ claims'[i] = claims[i] /\ Accepted(i)
      BY <1>1, <1>3, <1>4, <1>7
    <3>2. PICK k \in 1 .. n : /\ k > i /\ First(k) /\ claims[k].cand = d
                              /\ claims[k].session = tracker[d].session
      BY <1>1, <2>1, <2>2, <3>1 DEF Superseded
    <3> QED
      BY <1>1, <1>3, <1>5, <2>1, <3>2
  <2> QED
    BY <2>3, <2>4, <2>5, <2>6
<1>8. UsedLast(c)'
  BY <1>1, <1>2, <1>4, <1>5 DEF UsedLast
<1>9. CASE ~Existing(c)
  <2>1. First(n + 1)' /\ tracker'[c].session = s /\ tracker'[c].at = now
    BY <1>2, <1>3, <1>9
  <2>2. RedeemedBy(c)'
    BY <1>1, <1>5, <2>1 DEF RedeemedBy
  <2>3. LastRedeemed(c)'
    BY <1>1, <1>4, <1>6, <2>1 DEF LastRedeemed
  <2>4. Superseded(c)'
    <3> SUFFICES ASSUME NEW i \in DOMAIN claims', Accepted(i)', claims'[i].cand = c,
                        claims'[i].session # tracker'[c].session
                 PROVE  \E k \in DOMAIN claims' :
                          /\ k > i /\ First(k)' /\ claims'[k].cand = c
                          /\ claims'[k].session = tracker'[c].session
      BY DEF Superseded
    <3>1. i \in 1 .. n
      BY <1>1, <1>4, <2>1
    <3>2. n + 1 > i
      BY <1>1, <3>1
    <3> QED
      BY <1>1, <1>5, <2>1, <3>2
  <2> QED
    BY <1>7, <1>8, <2>2, <2>3, <2>4 DEF Remembered
<1>10. CASE Existing(c)
  <2>1. /\ c \in DOMAIN tracker /\ tracker'[c].session = tracker[c].session
        /\ tracker'[c].at = tracker[c].at /\ ~First(n + 1)'
        /\ Accepted(n + 1)' => s = tracker[c].session
    BY <1>2, <1>3, <1>10
  <2>2. RedeemedBy(c) /\ LastRedeemed(c) /\ Superseded(c)
    BY <2>1 DEF Remembered
  <2>3. RedeemedBy(c)'
    <3>1. PICK i \in 1 .. n : /\ First(i) /\ claims[i].cand = c
                              /\ claims[i].session = tracker[c].session
                              /\ claims[i].at = tracker[c].at
      BY <1>1, <2>2 DEF RedeemedBy
    <3> QED
      BY <1>1, <1>3, <1>5, <2>1, <3>1 DEF RedeemedBy
  <2>4. LastRedeemed(c)'
    BY <1>1, <1>3, <1>4, <2>1, <2>2 DEF LastRedeemed
  <2>5. Superseded(c)'
    <3> SUFFICES ASSUME NEW i \in DOMAIN claims', Accepted(i)', claims'[i].cand = c,
                        claims'[i].session # tracker'[c].session
                 PROVE  \E k \in DOMAIN claims' :
                          /\ k > i /\ First(k)' /\ claims'[k].cand = c
                          /\ claims'[k].session = tracker'[c].session
      BY DEF Superseded
    <3>1. i \in 1 .. n /\ claims'[i] = claims[i] /\ Accepted(i)
      BY <1>1, <1>3, <1>4, <2>1
    <3>2. PICK k \in 1 .. n : /\ k > i /\ First(k) /\ claims[k].cand = c
                              /\ claims[k].session = tracker[c].session
      BY <1>1, <2>1, <2>2, <3>1 DEF Superseded
    <3> QED
      BY <1>1, <1>3, <1>5, <2>1, <3>2
  <2> QED
    BY <1>7, <1>8, <2>3, <2>4, <2>5 DEF Remembered
<1> QED
  BY <1>9, <1>10

LEMMA ClaimKeepsForgotten ==
  ASSUME TypeOK, Memory, NEW s \in SessionIds, NEW c \in Candidates,
         Claim(s, c), now' = now
  PROVE  Forgotten'
<1> SUFFICES ASSUME NEW i \in DOMAIN claims', First(i)', NEW d, d = claims'[i].cand,
                    d \notin DOMAIN tracker'
             PROVE  now - claims'[i].at > Ttl \/ Cardinality(Since(d)') >= MaxEntries
  BY DEF Forgotten, Since
<1>0. PICK n \in Nat : n = Len(claims)
  BY ClaimedLast
<1>1. /\ n \in Nat /\ DOMAIN claims = 1 .. n /\ DOMAIN claims' = 1 .. n + 1
      /\ \A k \in 1 .. n : claims'[k] = claims[k]
      /\ claims'[n + 1].cand = c
  BY <1>0, ClaimedLast
<1>2. /\ ClaimOutcome(c, s) = "first" => DOMAIN tracker' = Kept(c) \cup {c}
      /\ ClaimOutcome(c, s) # "first" => DOMAIN tracker' = DOMAIN tracker
      /\ c \in DOMAIN tracker'
  BY ClaimUsesEntry
<1>3. i \in 1 .. n /\ claims'[i] = claims[i] /\ d = claims[i].cand /\ d # c
  BY <1>1, <1>2
<1>4. First(i)
  BY <1>3 DEF First
<1>5. now - claims[i].at > Ttl <=> now - claims'[i].at > Ttl
  BY <1>3
<1>7. CASE d \notin DOMAIN tracker
  <2>1. now - claims[i].at > Ttl \/ Cardinality(Since(d)) >= MaxEntries
    BY <1>1, <1>3, <1>4, <1>7 DEF Memory, Forgotten
  <2>2. /\ Cardinality(Since(d)) \in Nat /\ Cardinality(Since(d)') \in Nat
        /\ Cardinality(Since(d)) <= Cardinality(Since(d)')
    BY <1>3, SinceGrows
  <2> QED
    BY <1>5, <2>1, <2>2, SizeAssumption
<1>8. CASE d \in DOMAIN tracker
  <2>1. ClaimOutcome(c, s) = "first" /\ d \notin Kept(c)
    BY <1>2, <1>3, <1>8
  <2>2. /\ c \notin DOMAIN tracker /\ Cardinality(DOMAIN tracker) = MaxEntries
        /\ d = LeastRecentlyUsed
    BY <1>8, <2>1 DEF Kept
  <2> QED
    BY <2>2, EvictedIsLeast DEF Memory
<1> QED
  BY <1>7, <1>8

LEMMA MemoryStep == TypeOK /\ TypeOK' /\ Memory /\ [Next]_vars => Memory'
<1> SUFFICES ASSUME TypeOK, TypeOK', Memory, [Next]_vars PROVE Memory'
  OBVIOUS
<1>1. ASSUME NEW s \in SessionIds, NEW listed \in Submissions, Submit(s, listed)
      PROVE  Memory'
  <2>1. now' = now
    BY <1>1, SubmitClaims
  <2>2. ASSUME NEW c \in Candidates, Claim(s, c) PROVE Memory'
    BY <2>1, <2>2, ClaimKeepsPast, ClaimKeepsRemembered, ClaimKeepsForgotten DEF Memory
  <2>3. CASE UNCHANGED <<tracker, claims>>
    BY <2>1, <2>3 DEF Memory, ClaimsArePast, Remembered, Forgotten, UsedLast, RedeemedBy,
       LastRedeemed, Superseded, Since, First, Accepted
  <2> QED
    BY <1>1, <2>2, <2>3, SubmitClaims
<1>2. ASSUME NEW c \in Candidates, Purge(c) PROVE Memory'
  <2>1. /\ DOMAIN tracker' = DOMAIN tracker \ {c} /\ c \in DOMAIN tracker
        /\ \A d \in DOMAIN tracker' : tracker'[d] = tracker[d]
        /\ UNCHANGED <<now, claims>> /\ now - tracker[c].at > Ttl
    BY <1>2 DEF Purge, Restrict, IsStale
  <2>2. Remembered'
    BY <2>1 DEF Memory, Remembered, UsedLast, RedeemedBy, LastRedeemed, Superseded, First,
       Accepted
  <2>3. Forgotten'
    <3> SUFFICES ASSUME NEW i \in DOMAIN claims, First(i),
                        claims[i].cand \notin DOMAIN tracker'
                 PROVE  \/ now - claims[i].at > Ttl
                        \/ Cardinality(Since(claims[i].cand)) >= MaxEntries
      BY <2>1 DEF Forgotten, First, Since
    <3>1. CASE claims[i].cand = c
      <4>1. claims[i].at <= tracker[c].at
        BY <2>1, <3>1 DEF Memory, Remembered, LastRedeemed
      <4>2. claims[i].at \in Int /\ tracker[c].at \in Int /\ now \in Int /\ Ttl \in Int
        BY <2>1, TimesAreInts
      <4> QED
        BY <2>1, <4>1, <4>2
    <3>2. CASE claims[i].cand # c
      BY <2>1, <3>2 DEF Memory, Forgotten
    <3> QED
      BY <3>1, <3>2
  <2>4. ClaimsArePast'
    BY <2>1 DEF Memory, ClaimsArePast
  <2> QED
    BY <2>2, <2>3, <2>4 DEF Memory
<1>3. ASSUME NEW c \in Candidates, Issue(c) PROVE Memory'
  BY <1>3 DEF Issue, Memory, ClaimsArePast, Remembered, Forgotten, UsedLast, RedeemedBy,
     LastRedeemed, Superseded, Since, First, Accepted
<1>4. CASE Tick
  <2>1. now' = now + 1 /\ UNCHANGED <<tracker, claims>> /\ now \in Int /\ Ttl \in Int
    BY <1>4, TimesAreInts DEF Tick
  <2>2. \A i \in DOMAIN claims : claims[i].at \in Int
    BY TimesAreInts
  <2>3. ClaimsArePast'
    BY <2>1, <2>2 DEF Memory, ClaimsArePast
  <2>4. Remembered'
    BY <2>1 DEF Memory, Remembered, UsedLast, RedeemedBy, LastRedeemed, Superseded, First,
       Accepted
  <2>5. Forgotten'
    BY <2>1, <2>2 DEF Memory, Forgotten, First, Since
  <2> QED
    BY <2>3, <2>4, <2>5 DEF Memory
<1>5. CASE UNCHANGED vars
  BY <1>5 DEF vars, Memory, ClaimsArePast, Remembered, Forgotten, UsedLast, RedeemedBy,
     LastRedeemed, Superseded, Since, First, Accepted
<1> QED
  BY <1>1, <1>2, <1>3, <1>4, <1>5 DEF Next

-----------------------------------------------------------------------------
(* Who may redeem, and who is refused.                                     *)

LEMMA OnlyClaims ==
  ASSUME [Next]_vars
  PROVE  \/ UNCHANGED claims
         \/ now' = now /\ \E s \in SessionIds, c \in Candidates : Claim(s, c)
<1>1. ASSUME NEW s \in SessionIds, NEW listed \in Submissions, Submit(s, listed)
      PROVE  \/ UNCHANGED claims
             \/ now' = now /\ \E c \in Candidates : Claim(s, c)
  BY <1>1, SubmitClaims
<1> QED
  BY <1>1 DEF Next, Purge, Issue, Tick, vars

\* What one claim adds to the claims that were there.
LEMMA NewClaim ==
  ASSUME TypeOK, NEW s \in SessionIds, NEW c \in Candidates, Claim(s, c),
         NEW n \in Nat, n = Len(claims)
  PROVE  /\ DOMAIN claims = 1 .. n /\ DOMAIN claims' = 1 .. n + 1
         /\ \A i \in 1 .. n : claims'[i] = claims[i]
         /\ claims'[n + 1].cand = c /\ claims'[n + 1].session = s
         /\ claims'[n + 1].at = now /\ claims'[n + 1].outcome = ClaimOutcome(c, s)
         /\ \A i \in 1 .. n : First(i)' = First(i) /\ Accepted(i)' = Accepted(i)
         /\ \A i, j \in 1 .. n : /\ SameCandidate(i, j)' = SameCandidate(i, j)
                                 /\ OtherSession(i, j)' = OtherSession(i, j)
         /\ \A i \in 1 .. n : /\ SameCandidate(i, n + 1)' = (claims[i].cand = c)
                              /\ OtherSession(i, n + 1)' = (claims[i].session # s)
         /\ \A j \in 1 .. n : UsedSince(j)' = UsedSince(j)
         /\ UsedSince(n + 1)' = Since(c)
<1>1. /\ DOMAIN claims = 1 .. n /\ DOMAIN claims' = 1 .. n + 1
      /\ \A i \in 1 .. n : claims'[i] = claims[i]
      /\ claims'[n + 1].cand = c /\ claims'[n + 1].session = s
      /\ claims'[n + 1].at = now /\ claims'[n + 1].outcome = ClaimOutcome(c, s)
  BY ClaimedLast
<1>2. \A i \in 1 .. n : First(i)' = First(i) /\ Accepted(i)' = Accepted(i)
  BY <1>1 DEF First, Accepted
<1>3. \A i, j \in 1 .. n : /\ SameCandidate(i, j)' = SameCandidate(i, j)
                           /\ OtherSession(i, j)' = OtherSession(i, j)
  BY <1>1 DEF SameCandidate, OtherSession
<1>4. \A i \in 1 .. n : /\ SameCandidate(i, n + 1)' = (claims[i].cand = c)
                        /\ OtherSession(i, n + 1)' = (claims[i].session # s)
  BY <1>1 DEF SameCandidate, OtherSession
<1>5. ASSUME NEW j \in 1 .. n PROVE UsedSince(j)' = UsedSince(j)
  <2> DEFINE Y == {y \in 1 .. j - 1 : \A z \in y .. j - 1 : ~SameCandidate(z, j)}
             Z == {y \in 1 .. j - 1 : \A z \in y .. j - 1 : ~SameCandidate(z, j)'}
  <2>1. \A y \in 1 .. j - 1 : y \in 1 .. n /\ \A z \in y .. j - 1 : z \in 1 .. n
    OBVIOUS
  <2>2. Y = Z
    BY <1>3, <2>1
  <2>3. \A y \in Y : claims'[y].cand = claims[y].cand
    BY <1>1, <2>1
  <2>4. UsedSince(j) = {claims[x].cand : x \in Y} /\ UsedSince(j)' = {claims'[x].cand : x \in Z}
    BY DEF UsedSince
  <2> HIDE DEF Y, Z
  <2> QED
    BY <2>2, <2>3, <2>4
<1>6. UsedSince(n + 1)' = Since(c)
  <2> DEFINE Y == {y \in 1 .. n : \A z \in y .. n : claims[z].cand # c}
             Z == {y \in 1 .. (n + 1) - 1 : \A z \in y .. (n + 1) - 1 : ~SameCandidate(z, n + 1)'}
  <2>1. \A y \in 1 .. n : \A z \in y .. n : z \in 1 .. n
    OBVIOUS
  <2>2. (n + 1) - 1 = n
    OBVIOUS
  <2>3. Y = Z
    BY <1>4, <2>1, <2>2
  <2>4. \A y \in Y : claims'[y].cand = claims[y].cand
    BY <1>1
  <2>5. UsedSince(n + 1)' = {claims'[x].cand : x \in Z}
    BY DEF UsedSince
  <2>6. Since(c) = {claims[x].cand : x \in Y}
    BY <1>1 DEF Since, Cands
  <2> HIDE DEF Y, Z
  <2> QED
    BY <2>3, <2>4, <2>5, <2>6
<1> QED
  BY <1>1, <1>2, <1>3, <1>4, <1>5, <1>6

LEMMA ReplayStep ==
  TypeOK /\ Memory /\ ReplayOnlyAfterForgetting /\ [Next]_vars => ReplayOnlyAfterForgetting'
<1> SUFFICES ASSUME TypeOK, Memory, ReplayOnlyAfterForgetting, [Next]_vars
             PROVE  ReplayOnlyAfterForgetting'
  OBVIOUS
<1>1. CASE UNCHANGED claims
  <2>1. \A i, j : /\ First(i)' = First(i) /\ SameCandidate(i, j)' = SameCandidate(i, j)
                  /\ OtherSession(i, j)' = OtherSession(i, j)
    BY <1>1 DEF First, SameCandidate, OtherSession
  <2>2. \A j : UsedSince(j)' = UsedSince(j)
    BY <1>1, <2>1 DEF UsedSince
  <2> QED
    BY <1>1, <2>1, <2>2 DEF ReplayOnlyAfterForgetting
<1>2. ASSUME NEW s \in SessionIds, NEW c \in Candidates, Claim(s, c)
      PROVE  ReplayOnlyAfterForgetting'
  <2>1. PICK n \in Nat : n = Len(claims)
    BY <1>2, ClaimedLast
  <2>2. /\ DOMAIN claims = 1 .. n /\ DOMAIN claims' = 1 .. n + 1
        /\ \A i \in 1 .. n : claims'[i] = claims[i]
        /\ claims'[n + 1].cand = c /\ claims'[n + 1].session = s
        /\ claims'[n + 1].at = now /\ claims'[n + 1].outcome = ClaimOutcome(c, s)
        /\ \A i \in 1 .. n : First(i)' = First(i)
        /\ \A i, j \in 1 .. n : /\ SameCandidate(i, j)' = SameCandidate(i, j)
                                /\ OtherSession(i, j)' = OtherSession(i, j)
        /\ \A i \in 1 .. n : /\ SameCandidate(i, n + 1)' = (claims[i].cand = c)
                             /\ OtherSession(i, n + 1)' = (claims[i].session # s)
        /\ \A j \in 1 .. n : UsedSince(j)' = UsedSince(j)
        /\ UsedSince(n + 1)' = Since(c)
    BY <1>2, <2>1, NewClaim
  <2>3. /\ ~Existing(c) => ClaimOutcome(c, s) = "first"
        /\ Existing(c) =>
             /\ ClaimOutcome(c, s) = (IF tracker[c].session = s THEN "again" ELSE "refused")
             /\ c \in DOMAIN tracker
    BY <1>2, ClaimUsesEntry
  <2> SUFFICES ASSUME NEW j \in 1 .. n + 1, NEW i \in 1 .. j - 1,
                      First(i)', SameCandidate(i, j)', OtherSession(i, j)'
               PROVE  /\ First(j)' => \/ claims'[j].at - claims'[i].at > Ttl
                                      \/ Cardinality(UsedSince(j)') >= MaxEntries
                      /\ claims'[j].outcome = "again" =>
                           \E k \in i + 1 .. j - 1 :
                             First(k)' /\ SameCandidate(k, j)' /\ ~OtherSession(k, j)'
    BY <2>2 DEF ReplayOnlyAfterForgetting
  <2>4. i \in 1 .. n
    OBVIOUS
  <2>5. CASE j \in 1 .. n
    <3>1. \A k \in i + 1 .. j - 1 : k \in 1 .. n
      BY <2>5
    <3>2. First(i) /\ SameCandidate(i, j) /\ OtherSession(i, j) /\ First(j)' = First(j)
      BY <2>2, <2>4, <2>5
    <3>3. /\ First(j) => \/ claims[j].at - claims[i].at > Ttl
                         \/ Cardinality(UsedSince(j)) >= MaxEntries
          /\ claims[j].outcome = "again" =>
               \E k \in i + 1 .. j - 1 :
                 First(k) /\ SameCandidate(k, j) /\ ~OtherSession(k, j)
      BY <2>2, <2>5, <3>2 DEF ReplayOnlyAfterForgetting
    <3>4. claims'[j] = claims[j] /\ claims'[i] = claims[i] /\ UsedSince(j)' = UsedSince(j)
      BY <2>2, <2>4, <2>5
    <3>5. ASSUME NEW k \in i + 1 .. j - 1,
                 First(k) /\ SameCandidate(k, j) /\ ~OtherSession(k, j)
          PROVE  First(k)' /\ SameCandidate(k, j)' /\ ~OtherSession(k, j)'
      BY <2>2, <2>5, <3>1, <3>5
    <3> QED
      BY <3>2, <3>3, <3>4, <3>5
  <2>6. CASE j = n + 1
    <3>1. First(i) /\ claims[i].cand = c /\ claims[i].session # s /\ claims'[i] = claims[i]
      BY <2>2, <2>4, <2>6
    <3>2. First(j)' <=> ClaimOutcome(c, s) = "first"
      BY <2>2, <2>6 DEF First
    <3>3. CASE ~Existing(c)
      <4>1. ClaimOutcome(c, s) = "first"
        BY <2>3, <3>3
      <4>2. now - claims[i].at > Ttl \/ Cardinality(Since(c)) >= MaxEntries
        <5>1. CASE c \notin DOMAIN tracker
          BY <2>2, <2>4, <3>1, <5>1 DEF Memory, Forgotten
        <5>2. CASE c \in DOMAIN tracker
          <6>1. now - tracker[c].at > Ttl
            BY <3>3, <5>2 DEF Existing, IsStale
          <6>2. claims[i].at <= tracker[c].at
            BY <2>2, <2>4, <3>1, <5>2 DEF Memory, Remembered, LastRedeemed
          <6>3. /\ now \in Int /\ Ttl \in Int /\ claims[i].at \in Int
                /\ tracker[c].at \in Int
            BY <2>2, <2>4, <5>2, TimesAreInts
          <6> QED
            BY <6>1, <6>2, <6>3
        <5> QED
          BY <5>1, <5>2
      <4> QED
        BY <2>2, <2>6, <3>1, <4>1, <4>2
    <3>4. CASE Existing(c)
      <4>1. ClaimOutcome(c, s) # "first" /\ c \in DOMAIN tracker
        BY <2>3, <3>4
      <4>2. ASSUME ClaimOutcome(c, s) = "again"
            PROVE  \E k \in i + 1 .. j - 1 :
                     First(k)' /\ SameCandidate(k, j)' /\ ~OtherSession(k, j)'
        <5>1. tracker[c].session = s
          BY <2>3, <3>4, <4>2
        <5>2. Accepted(i)
          BY <3>1 DEF First, Accepted
        <5>3. PICK k \in 1 .. n : /\ k > i /\ First(k) /\ claims[k].cand = c
                                  /\ claims[k].session = s
          BY <2>2, <2>4, <3>1, <4>1, <5>1, <5>2 DEF Memory, Remembered, Superseded
        <5>4. k \in i + 1 .. j - 1
          BY <2>6, <5>3
        <5> QED
          BY <2>2, <2>6, <5>3, <5>4
      <4> QED
        BY <2>2, <2>6, <3>2, <4>1, <4>2
    <3> QED
      BY <3>3, <3>4
  <2> QED
    BY <2>5, <2>6
<1> QED
  BY <1>1, <1>2, OnlyClaims

LEMMA RefusalStep ==
  TypeOK /\ Memory /\ RefusedOnlyForReplay /\ [Next]_vars => RefusedOnlyForReplay'
<1> SUFFICES ASSUME TypeOK, Memory, RefusedOnlyForReplay, [Next]_vars
             PROVE  RefusedOnlyForReplay'
  OBVIOUS
<1>1. CASE UNCHANGED claims
  BY <1>1 DEF RefusedOnlyForReplay, First, Accepted, SameCandidate, OtherSession
<1>2. ASSUME NEW s \in SessionIds, NEW c \in Candidates, Claim(s, c)
      PROVE  RefusedOnlyForReplay'
  <2>1. PICK n \in Nat : n = Len(claims)
    BY <1>2, ClaimedLast
  <2>2. /\ DOMAIN claims = 1 .. n /\ DOMAIN claims' = 1 .. n + 1
        /\ \A i \in 1 .. n : claims'[i] = claims[i]
        /\ claims'[n + 1].cand = c /\ claims'[n + 1].session = s
        /\ claims'[n + 1].at = now /\ claims'[n + 1].outcome = ClaimOutcome(c, s)
        /\ \A i \in 1 .. n : First(i)' = First(i) /\ Accepted(i)' = Accepted(i)
        /\ \A i, j \in 1 .. n : /\ SameCandidate(i, j)' = SameCandidate(i, j)
                                /\ OtherSession(i, j)' = OtherSession(i, j)
        /\ \A i \in 1 .. n : /\ SameCandidate(i, n + 1)' = (claims[i].cand = c)
                             /\ OtherSession(i, n + 1)' = (claims[i].session # s)
    BY <1>2, <2>1, NewClaim
  <2>3. /\ ~Existing(c) => ClaimOutcome(c, s) = "first"
        /\ Existing(c) =>
             /\ ClaimOutcome(c, s) = (IF tracker[c].session = s THEN "again" ELSE "refused")
             /\ c \in DOMAIN tracker /\ now - tracker[c].at <= Ttl
    BY <1>2, ClaimUsesEntry
  <2> SUFFICES ASSUME NEW j \in 1 .. n + 1, claims'[j].outcome = "refused"
               PROVE  /\ \E i \in 1 .. j - 1 :
                           /\ First(i)' /\ SameCandidate(i, j)' /\ OtherSession(i, j)'
                           /\ claims'[j].at - claims'[i].at <= Ttl
                      /\ \A i \in 1 .. j - 1 :
                           Accepted(i)' /\ SameCandidate(i, j)' /\ ~OtherSession(i, j)' =>
                             \E k \in i + 1 .. j - 1 :
                               Accepted(k)' /\ SameCandidate(k, j)' /\ OtherSession(k, j)'
    BY <2>2 DEF RefusedOnlyForReplay
  <2>4. \A i \in 1 .. j - 1 : i \in 1 .. n
    OBVIOUS
  <2>5. CASE j \in 1 .. n
    <3>1. claims'[j] = claims[j] /\ claims[j].outcome = "refused"
      BY <2>2, <2>5
    <3>2. PICK i \in 1 .. j - 1 : /\ First(i) /\ SameCandidate(i, j) /\ OtherSession(i, j)
                                  /\ claims[j].at - claims[i].at <= Ttl
      BY <2>2, <2>5, <3>1 DEF RefusedOnlyForReplay
    <3>3. /\ First(i)' /\ SameCandidate(i, j)' /\ OtherSession(i, j)'
          /\ claims'[j].at - claims'[i].at <= Ttl
      BY <2>2, <2>4, <2>5, <3>1, <3>2
    <3>4. ASSUME NEW h \in 1 .. j - 1,
                 Accepted(h)' /\ SameCandidate(h, j)' /\ ~OtherSession(h, j)'
          PROVE  \E k \in h + 1 .. j - 1 :
                   Accepted(k)' /\ SameCandidate(k, j)' /\ OtherSession(k, j)'
      <4>1. Accepted(h) /\ SameCandidate(h, j) /\ ~OtherSession(h, j)
        BY <2>2, <2>4, <2>5, <3>4
      <4>2. PICK k \in h + 1 .. j - 1 :
              Accepted(k) /\ SameCandidate(k, j) /\ OtherSession(k, j)
        BY <2>2, <2>5, <3>1, <4>1 DEF RefusedOnlyForReplay
      <4>3. k \in 1 .. n
        BY <2>4
      <4> QED
        BY <2>2, <2>5, <4>2, <4>3
    <3> QED
      BY <3>3, <3>4
  <2>6. CASE j = n + 1
    <3>1. /\ Existing(c) /\ tracker[c].session # s /\ c \in DOMAIN tracker
          /\ now - tracker[c].at <= Ttl
      BY <2>2, <2>3, <2>6
    <3>2. RedeemedBy(c) /\ Superseded(c)
      BY <3>1 DEF Memory, Remembered
    <3>3. PICK i \in 1 .. n : /\ First(i) /\ claims[i].cand = c
                              /\ claims[i].session = tracker[c].session
                              /\ claims[i].at = tracker[c].at
      BY <2>2, <3>2 DEF RedeemedBy
    <3>4. /\ i \in 1 .. j - 1 /\ First(i)' /\ SameCandidate(i, j)' /\ OtherSession(i, j)'
          /\ claims'[j].at - claims'[i].at <= Ttl
      <4>1. i \in 1 .. j - 1
        BY <2>6
      <4>2. First(i)' /\ SameCandidate(i, j)' /\ OtherSession(i, j)'
        BY <2>2, <2>6, <3>1, <3>3
      <4>3. claims'[j].at = now /\ claims'[i].at = tracker[c].at
        BY <2>2, <2>6, <3>3
      <4> QED
        BY <3>1, <4>1, <4>2, <4>3
    <3>5. ASSUME NEW h \in 1 .. j - 1,
                 Accepted(h)' /\ SameCandidate(h, j)' /\ ~OtherSession(h, j)'
          PROVE  \E k \in h + 1 .. j - 1 :
                   Accepted(k)' /\ SameCandidate(k, j)' /\ OtherSession(k, j)'
      <4>1. h \in 1 .. n /\ Accepted(h) /\ claims[h].cand = c /\ claims[h].session = s
        BY <2>2, <2>4, <2>6, <3>5
      <4>2. PICK k \in 1 .. n : /\ k > h /\ First(k) /\ claims[k].cand = c
                                /\ claims[k].session = tracker[c].session
        BY <2>2, <3>1, <3>2, <4>1 DEF Superseded
      <4>3. k \in h + 1 .. j - 1 /\ Accepted(k)
        BY <2>6, <4>2 DEF First, Accepted
      <4> QED
        BY <2>2, <2>6, <3>1, <4>2, <4>3
    <3> QED
      BY <3>4, <3>5
  <2> QED
    BY <2>5, <2>6
<1> QED
  BY <1>1, <1>2, OnlyClaims

LEMMA MemoryInvariant == Spec => [](TypeOK /\ Memory)
<1>1. TypeOK /\ Memory /\ [Next]_vars => (TypeOK /\ Memory)'
  BY TypeStep, MemoryStep
<1> QED
  BY TypeInit, MemoryInit, <1>1, PTL DEF Spec

\* Whatever is claimed, evicted and purged in between, a second session gets a
\* candidate only when the tracker had to forget the first claim, and only the
\* session that was the last to redeem a candidate may retry.
THEOREM ReplaysFollowForgetting == Spec => []ReplayOnlyAfterForgetting
<1>1. Init => ReplayOnlyAfterForgetting
  BY DEF Init, ReplayOnlyAfterForgetting
<1> QED
  BY <1>1, MemoryInvariant, ReplayStep, PTL DEF Spec

\* A session that is refused met another session's claim within the TTL, and
\* one that had redeemed the candidate itself had lost it to another since.
THEOREM RefusalsAreReplays == Spec => []RefusedOnlyForReplay
<1>1. Init => RefusedOnlyForReplay
  BY DEF Init, RefusedOnlyForReplay
<1> QED
  BY <1>1, MemoryInvariant, RefusalStep, PTL DEF Spec

\* Wherever a fresh candidate stands in a submission, and whatever else is
\* listed, the submission is credited.
THEOREM OneIsEnough == Spec => []OneValidIsEnough
BY OneValid, PTL

-----------------------------------------------------------------------------
(* The tracker keeps the promise of CandidateClaims.                       *)

HolderMap ==
  [c \in Candidates |-> IF Existing(c) THEN tracker[c].session ELSE None]
Refusals ==
  {<<claims[i].cand, claims[i].session>> :
     i \in {j \in DOMAIN claims : claims[j].outcome = "refused"}}

LEMMA Holding ==
  \A c \in Candidates :
    /\ HolderMap[c] = IF c \in DOMAIN tracker /\ ~(now - tracker[c].at > Ttl)
                        THEN tracker[c].session ELSE None
    /\ HolderMap'[c] = IF c \in DOMAIN tracker' /\ ~(now' - tracker'[c].at > Ttl)
                         THEN tracker'[c].session ELSE None
BY DEF HolderMap, Existing, IsStale

\* Who is remembered to hold a candidate is a session.
LEMMA HolderIsSession ==
  ASSUME TypeOK, NEW c \in Candidates, Existing(c)
  PROVE  HolderMap[c] = tracker[c].session /\ tracker[c].session \in SessionIds
BY DEF HolderMap, Existing, TypeOK, EntryType

\* A step that at most takes candidates from their holders.
LEMMA ForgettingStep ==
  ASSUME \A c \in Candidates : HolderMap'[c] \in {HolderMap[c], None},
         Refusals' = Refusals
  PROVE  \E lost \in SUBSET Candidates :
           /\ HolderMap' = [c \in Candidates |-> IF c \in lost THEN None ELSE HolderMap[c]]
           /\ Refusals' = Refusals
<1> DEFINE lost == {c \in Candidates : HolderMap'[c] = None}
<1>1. \A c \in Candidates : HolderMap'[c] = IF c \in lost THEN None ELSE HolderMap[c]
  OBVIOUS
<1>2. HolderMap' = [c \in Candidates |-> IF c \in lost THEN None ELSE HolderMap[c]]
  BY <1>1 DEF HolderMap
<1> QED
  BY <1>2

LEMMA GrantIs ==
  ASSUME NEW c, NEW s, NEW lost,
         HolderMap[c] = None, HolderMap' = [Holders!Without(lost) EXCEPT ![c] = s],
         Refusals' = Refusals
  PROVE  Holders!Grant(c, s, lost)
BY DEF Holders!Grant, HolderMap, Refusals

LEMMA OnlyLastRefusal ==
  ASSUME TypeOK, NEW s \in SessionIds, NEW c \in Candidates, Claim(s, c)
  PROVE  Refusals' = IF ClaimOutcome(c, s) = "refused"
                       THEN Refusals \cup {<<c, s>>} ELSE Refusals
<1> DEFINE n == Len(claims)
           R(i) == claims[i].outcome = "refused"
<1>1. /\ n \in Nat /\ DOMAIN claims = 1 .. n /\ DOMAIN claims' = 1 .. n + 1
      /\ \A i \in 1 .. n : claims'[i] = claims[i]
      /\ claims'[n + 1].cand = c /\ claims'[n + 1].session = s
      /\ claims'[n + 1].outcome = ClaimOutcome(c, s)
  BY ClaimedLast
<1>2. Refusals = {<<claims[i].cand, claims[i].session>> : i \in {j \in 1 .. n : R(j)}}
  BY <1>1 DEF Refusals
<1>3. Refusals' = {<<claims'[i].cand, claims'[i].session>> :
                     i \in {j \in 1 .. n + 1 : claims'[j].outcome = "refused"}}
  BY <1>1 DEF Refusals
<1> HIDE DEF n
<1>4. \A i : i \in 1 .. n + 1 <=> i \in 1 .. n \/ i = n + 1
  BY <1>1
<1>5. CASE ClaimOutcome(c, s) = "refused"
  <2>1. {j \in 1 .. n + 1 : claims'[j].outcome = "refused"} = {j \in 1 .. n : R(j)} \cup {n + 1}
    BY <1>1, <1>4, <1>5
  <2> QED
    BY <1>1, <1>2, <1>3, <1>5, <2>1
<1>6. CASE ClaimOutcome(c, s) # "refused"
  <2>1. {j \in 1 .. n + 1 : claims'[j].outcome = "refused"} = {j \in 1 .. n : R(j)}
    BY <1>1, <1>4, <1>6
  <2> QED
    BY <1>1, <1>2, <1>3, <1>6, <2>1
<1> QED
  BY <1>5, <1>6

\* A claim grants the candidate, finds it granted, or is refused.
LEMMA ClaimKeepsPromise ==
  ASSUME TypeOK, NEW s \in SessionIds, NEW c \in Candidates, Claim(s, c), now' = now
  PROVE  Holders!ClaimsNext \/ (HolderMap' = HolderMap /\ Refusals' = Refusals)
<1>0. now \in Int /\ Ttl \in Int /\ Ttl >= 0
  BY ClockAssumption DEF TypeOK
<1>a. \A d \in DOMAIN tracker' \ {c} : d \in DOMAIN tracker /\ tracker'[d] = tracker[d]
  BY ClaimUsesEntry
<1>1. \A d \in Candidates \ {c} : HolderMap'[d] \in {HolderMap[d], None}
  <2> TAKE d \in Candidates \ {c}
  <2>1. CASE d \in DOMAIN tracker'
    <3>1. d \in DOMAIN tracker /\ tracker'[d] = tracker[d]
      BY <2>1, <1>a
    <3> QED
      BY <2>1, <3>1, Holding
  <2>2. CASE d \notin DOMAIN tracker'
    BY <2>2, Holding
  <2> QED
    BY <2>1, <2>2
<1>2. CASE ~Existing(c)
  <2>1. /\ ClaimOutcome(c, s) = "first" /\ c \in DOMAIN tracker'
        /\ tracker'[c].session = s /\ tracker'[c].at = now
    BY <1>2, ClaimUsesEntry
  <2>2. HolderMap[c] = None /\ HolderMap'[c] = s
    BY <1>0, <1>2, <2>1, Holding DEF Existing, IsStale
  <2>3. Refusals' = Refusals
    BY <2>1, OnlyLastRefusal
  <2>4. PICK lost \in SUBSET Candidates : \A d \in Candidates : d \in lost <=> HolderMap'[d] = None
    <3>1. {d \in Candidates : HolderMap'[d] = None} \in SUBSET Candidates
      OBVIOUS
    <3> QED
      BY <3>1
  <2> DEFINE without == [d \in Candidates |-> IF d \in lost THEN None ELSE HolderMap[d]]
  <2>5. HolderMap' = [without EXCEPT ![c] = s]
    BY <1>1, <2>2, <2>4 DEF HolderMap
  <2>6. Holders!Without(lost) = without
    BY DEF Holders!Without, HolderMap
  <2> HIDE DEF without
  <2>7. HolderMap' = [Holders!Without(lost) EXCEPT ![c] = s]
    BY <2>5, <2>6
  <2>8. Holders!Grant(c, s, lost)
    BY <2>2, <2>3, <2>7, GrantIs
  <2> QED
    BY <2>8 DEF Holders!ClaimsNext
<1>3. CASE Existing(c)
  <2>1. /\ ClaimOutcome(c, s) = (IF tracker[c].session = s THEN "again" ELSE "refused")
        /\ c \in DOMAIN tracker /\ c \in DOMAIN tracker'
        /\ tracker'[c].session = tracker[c].session /\ tracker'[c].at = tracker[c].at
        /\ DOMAIN tracker' = DOMAIN tracker
        /\ \A d \in DOMAIN tracker' \ {c} : tracker'[d] = tracker[d]
    BY <1>3, ClaimUsesEntry
  <2>2. \A d \in Candidates : HolderMap'[d] = HolderMap[d]
    BY <2>1, Holding
  <2>3. HolderMap' = HolderMap
    BY <2>2 DEF HolderMap
  <2>4. CASE tracker[c].session = s
    BY <2>1, <2>3, <2>4, OnlyLastRefusal
  <2>5. CASE tracker[c].session # s
    <3>1. HolderMap[c] \notin {None, s}
      BY <1>3, <2>5, HolderIsSession, CandidatesAssumption DEF HolderMap
    <3>2. Refusals' = Refusals \cup {<<c, s>>}
      BY <2>1, <2>5, OnlyLastRefusal
    <3>3. Holders!Refuse(c, s)
      BY <2>3, <3>1, <3>2 DEF Holders!Refuse, HolderMap, Refusals
    <3> QED
      BY <3>3 DEF Holders!ClaimsNext
  <2> QED
    BY <2>4, <2>5
<1> QED
  BY <1>2, <1>3

LEMMA ClaimsInitial == Init => Holders!ClaimsInit
<1> SUFFICES ASSUME Init PROVE Holders!ClaimsInit
  OBVIOUS
<1>1. DOMAIN tracker = {} /\ DOMAIN claims = {}
  BY DEF Init
<1>2. \A c \in Candidates : ~Existing(c)
  BY <1>1 DEF Existing
<1> QED
  BY <1>1, <1>2 DEF Holders!ClaimsInit

LEMMA ClaimsStep == TypeOK /\ [Next]_vars => [Holders!ClaimsNext]_Holders!claimsVars
<1> SUFFICES ASSUME TypeOK, [Next]_vars
             PROVE  Holders!ClaimsNext \/ (HolderMap' = HolderMap /\ Refusals' = Refusals)
  BY DEF Holders!claimsVars, HolderMap, Refusals
<1> DEFINE Forgets == (\A c \in Candidates : HolderMap'[c] \in {HolderMap[c], None})
                      /\ Refusals' = Refusals
<1>1. ASSUME Forgets PROVE Holders!ClaimsNext
  <2>1. PICK lost \in SUBSET Candidates :
          /\ HolderMap' = [c \in Candidates |-> IF c \in lost THEN None ELSE HolderMap[c]]
          /\ Refusals' = Refusals
    BY <1>1, ForgettingStep
  <2>2. Holders!Forget(lost)
    BY <2>1 DEF Holders!Forget, Holders!Without, HolderMap, Refusals
  <2> QED
    BY <2>2 DEF Holders!ClaimsNext
<1>2. ASSUME NEW s \in SessionIds, NEW listed \in Submissions, Submit(s, listed)
      PROVE  Holders!ClaimsNext \/ (HolderMap' = HolderMap /\ Refusals' = Refusals)
  <2>1. now' = now
    BY <1>2, SubmitClaims
  <2>2. CASE UNCHANGED <<tracker, claims>>
    BY <2>1, <2>2 DEF HolderMap, Existing, IsStale, Refusals
  <2> QED
    BY <1>2, <2>1, <2>2, SubmitClaims, ClaimKeepsPromise
<1>3. ASSUME NEW c \in Candidates, Purge(c) PROVE Forgets
  <2>1. /\ DOMAIN tracker' = DOMAIN tracker \ {c} /\ now' = now /\ claims' = claims
        /\ \A d \in DOMAIN tracker' : tracker'[d] = tracker[d]
    BY <1>3 DEF Purge, Restrict
  <2> QED
    BY <2>1, Holding DEF Refusals
<1>4. ASSUME NEW c \in Candidates, Issue(c) PROVE Forgets
  BY <1>4, Holding DEF Issue, Refusals
<1>5. CASE Tick
  <2>1. tracker' = tracker /\ claims' = claims /\ now' = now + 1 /\ now \in Int /\ Ttl \in Int
    BY <1>5, ClockAssumption DEF Tick, TypeOK
  <2>2. \A c \in DOMAIN tracker : tracker[c].at \in Int
    BY DEF TypeOK, EntryType
  <2>3. \A c \in Candidates : HolderMap'[c] \in {HolderMap[c], None}
    <3> TAKE c \in Candidates
    <3>1. CASE c \in DOMAIN tracker
      <4>1. ~(now' - tracker'[c].at > Ttl) => ~(now - tracker[c].at > Ttl)
        BY <2>1, <2>2, <3>1
      <4> QED
        BY <2>1, <3>1, <4>1, Holding
    <3>2. CASE c \notin DOMAIN tracker
      BY <2>1, <3>2, Holding
    <3> QED
      BY <3>1, <3>2
  <2>4. Refusals' = Refusals
    BY <2>1 DEF Refusals
  <2> QED
    BY <2>3, <2>4, <1>1
<1>6. CASE UNCHANGED vars
  BY <1>6 DEF vars, HolderMap, Existing, IsStale, Refusals
<1> QED
  BY <1>1, <1>2, <1>3, <1>4, <1>5, <1>6 DEF Next

\* Whatever is claimed, expires or is evicted, a candidate passes from one
\* session to another only by being forgotten, and a session is refused only
\* one that another session holds: what ingestion makes of the tracker, a claim
\* that may be forgotten at any time, is what a container does.
THEOREM TrackerKeepsPromise == Spec => ClaimsPromise
BY ClaimsInitial, ClaimsStep, TypeCorrect, PTL
   DEF Spec, ClaimsPromise, Holders!ClaimsSpec
=============================================================================
