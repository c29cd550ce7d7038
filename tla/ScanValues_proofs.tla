-------------------------- MODULE ScanValues_proofs --------------------------
(***************************************************************************)
(* What the tables of conditions of the analyses and of the transport      *)
(* select: facts that the proofs about them share.                         *)
(***************************************************************************)
EXTENDS ScanValues, WellFoundedInduction, TLAPS

\* Induction without a predicate to pass: a set of numbers has a least one.
LEMMA LeastOf ==
  ASSUME NEW T, T \subseteq Nat, T # {}
  PROVE  \E m \in T : \A x \in T : m <= x
<1>1. PICK m \in T : \A x \in T : ~(<<x, m>> \in OpToRel(<, Nat))
  BY NatLessThanWellFounded, WFMin
<1>2. \A x \in T : ~(x < m)
  BY <1>1 DEF OpToRel
<1> QED
  BY <1>2

LEMMA MinOf ==
  ASSUME NEW S, S \subseteq Nat, NEW m \in S, \A x \in S : m <= x
  PROVE  Min(S) = m
<1>1. Min(S) \in S /\ \A y \in S : Min(S) <= y
  BY DEF Min
<1> DEFINE k == Min(S)
<1> HIDE DEF k
<1>2. k \in Nat /\ m \in Nat /\ k <= m /\ m <= k
  BY <1>1 DEF k
<1>3. k = m
  BY <1>2
<1> QED
  BY <1>3 DEF k

\* The first known value is one of the values, if any is known.
LEMMA FirstOfAmong ==
  ASSUME NEW s, NEW n \in Nat, DOMAIN s = 1 .. n
  PROVE  IF \A i \in 1 .. n : s[i] = None THEN FirstOf(s) = None
         ELSE \E i \in 1 .. n : FirstOf(s) = s[i] /\ s[i] # None
<1> DEFINE known == {i \in DOMAIN s : s[i] # None}
<1>1. CASE known = {}
  BY <1>1 DEF FirstOf
<1>2. CASE known # {}
  <2>1. PICK m \in known : \A x \in known : m <= x
    <3>1. known \subseteq Nat
      OBVIOUS
    <3> HIDE DEF known
    <3> QED
      BY <1>2, <3>1, LeastOf
  <2>2. Min(known) = m
    <3>1. known \subseteq Nat
      OBVIOUS
    <3> HIDE DEF known
    <3> QED
      BY <2>1, <3>1, MinOf
  <2>3. FirstOf(s) = s[m]
    BY <1>2, <2>2 DEF FirstOf
  <2> QED
    BY <2>1, <2>3
<1> QED
  BY <1>1, <1>2

\* The first condition that holds decides, whatever the ones after it say.
LEMMA FirstHit ==
  ASSUME NEW p, NEW n \in Nat, DOMAIN p = 1 .. n, NEW k \in 1 .. n,
         p[k][1], \A i \in 1 .. k - 1 : ~p[i][1]
  PROVE  OneOf(p) = p[k][2]
<1> DEFINE hits == {i \in DOMAIN p : p[i][1]}
<1>1. k \in hits /\ \A i \in hits : k <= i
  OBVIOUS
<1>2. hits \subseteq Nat
  OBVIOUS
<1>3. Min(hits) = k
  <2> HIDE DEF hits
  <2> QED
    BY <1>1, <1>2, MinOf
<1> QED
  BY <1>1, <1>3 DEF OneOf

\* The last two rows of a longer table, where none before them holds; and
\* some row, where the last one always does.
LEMMA LastTwo ==
  ASSUME NEW p, NEW n \in Nat, n >= 2, DOMAIN p = 1 .. n, p[n][1],
         \A i \in 1 .. n - 2 : ~p[i][1]
  PROVE  OneOf(p) \in {p[n - 1][2], p[n][2]}
<1>1. CASE p[n - 1][1]
  <2>1. n - 1 \in 1 .. n /\ \A i \in 1 .. n - 1 - 1 : ~p[i][1]
    OBVIOUS
  <2>2. PICK k : k = n - 1
    OBVIOUS
  <2> QED
    BY <1>1, <2>1, <2>2, FirstHit
<1>2. CASE ~p[n - 1][1]
  <2>1. n \in 1 .. n /\ \A i \in 1 .. n - 1 : ~p[i][1]
    BY <1>2
  <2> QED
    BY <2>1, FirstHit
<1> QED
  BY <1>1, <1>2

LEMMA SomeHit ==
  ASSUME NEW p, NEW n \in Nat, DOMAIN p = 1 .. n, NEW k \in 1 .. n, p[k][1]
  PROVE  \E i \in 1 .. n : p[i][1] /\ OneOf(p) = p[i][2]
<1> DEFINE hits == {i \in DOMAIN p : p[i][1]}
<1>1. k \in hits /\ hits \subseteq Nat
  OBVIOUS
<1>2. PICK m \in hits : \A x \in hits : m <= x
  <2> HIDE DEF hits
  <2> QED
    BY <1>1, LeastOf
<1>3. Min(hits) = m
  <2> HIDE DEF hits
  <2> QED
    BY <1>1, <1>2, MinOf
<1> QED
  BY <1>1, <1>2, <1>3 DEF OneOf

\* The first condition that holds, where one does.
LEMMA LeastHit ==
  ASSUME NEW p, NEW n \in Nat, DOMAIN p = 1 .. n, NEW k \in 1 .. n, p[k][1]
  PROVE  \E i \in 1 .. k : /\ p[i][1] /\ OneOf(p) = p[i][2]
                          /\ \A j \in 1 .. i - 1 : ~p[j][1]
<1> DEFINE hits == {i \in DOMAIN p : p[i][1]}
<1>1. k \in hits /\ hits \subseteq Nat
  OBVIOUS
<1>2. PICK m \in hits : \A x \in hits : m <= x
  <2> HIDE DEF hits
  <2> QED
    BY <1>1, LeastOf
<1>3. Min(hits) = m
  <2> HIDE DEF hits
  <2> QED
    BY <1>1, <1>2, MinOf
<1>4. OneOf(p) = p[m][2]
  BY <1>1, <1>3 DEF OneOf
<1>5. m \in 1 .. k /\ \A j \in 1 .. m - 1 : ~p[j][1]
  BY <1>1, <1>2
<1> QED
  BY <1>2, <1>4, <1>5

\* Of two tables with the same falling values, the one that has a condition
\* at least as high up for each of the other's gives at least its value.
LEMMA LadderRises ==
  ASSUME NEW p, NEW q, NEW n \in Nat, DOMAIN p = 1 .. n, DOMAIN q = 1 .. n,
         \A i \in 1 .. n : p[i][2] \in Int /\ q[i][2] = p[i][2],
         \A i, j \in 1 .. n : i <= j => p[i][2] >= p[j][2],
         \A i \in 1 .. n : p[i][1] => \E j \in 1 .. i : q[j][1],
         NEW k \in 1 .. n, p[k][1]
  PROVE  OneOf(q) >= OneOf(p)
<1>1. PICK i \in 1 .. k : p[i][1] /\ OneOf(p) = p[i][2]
  BY LeastHit
<1>2. i \in 1 .. n
  OBVIOUS
<1>3. PICK j \in 1 .. i : q[j][1]
  BY <1>1, <1>2
<1>4. j \in 1 .. n
  BY <1>2
<1>5. PICK m \in 1 .. j : OneOf(q) = q[m][2]
  <2>1. PICK x : x = j /\ x \in 1 .. n /\ q[x][1]
    BY <1>3, <1>4
  <2>2. \E m \in 1 .. x : q[m][1] /\ OneOf(q) = q[m][2]
    BY <2>1, LeastHit
  <2> QED
    BY <2>1, <2>2
<1>6. m \in 1 .. n /\ m <= i
  BY <1>2, <1>4
<1> QED
  BY <1>1, <1>2, <1>5, <1>6

\* A table of four conditions, the last of which holds.
LEMMA OneOfFour ==
  ASSUME NEW p, DOMAIN p = 1 .. 4, p[4][1]
  PROVE  /\ p[1][1] => OneOf(p) = p[1][2]
         /\ ~p[1][1] /\ p[2][1] => OneOf(p) = p[2][2]
         /\ ~p[1][1] /\ ~p[2][1] /\ p[3][1] => OneOf(p) = p[3][2]
         /\ ~p[1][1] /\ ~p[2][1] /\ ~p[3][1] => OneOf(p) = p[4][2]
<1>1. ASSUME p[1][1] PROVE OneOf(p) = p[1][2]
  <2>1. 1 \in 1 .. 4 /\ \A i \in 1 .. 1 - 1 : ~p[i][1]
    OBVIOUS
  <2> QED
    BY <1>1, <2>1, FirstHit
<1>2. ASSUME ~p[1][1], p[2][1] PROVE OneOf(p) = p[2][2]
  <2>1. 2 \in 1 .. 4 /\ \A i \in 1 .. 2 - 1 : ~p[i][1]
    BY <1>2
  <2> QED
    BY <1>2, <2>1, FirstHit
<1>3. ASSUME ~p[1][1], ~p[2][1], p[3][1] PROVE OneOf(p) = p[3][2]
  <2>1. 3 \in 1 .. 4 /\ \A i \in 1 .. 3 - 1 : ~p[i][1]
    BY <1>3
  <2> QED
    BY <1>3, <2>1, FirstHit
<1>4. ASSUME ~p[1][1], ~p[2][1], ~p[3][1] PROVE OneOf(p) = p[4][2]
  <2>1. 4 \in 1 .. 4 /\ \A i \in 1 .. 4 - 1 : ~p[i][1]
    BY <1>4
  <2> QED
    BY <2>1, FirstHit
<1> QED
  BY <1>1, <1>2, <1>3, <1>4

\* The two strongest conditions of a longer table.
LEMMA FirstTwo ==
  ASSUME NEW p, NEW n \in Nat, n >= 2, DOMAIN p = 1 .. n
  PROVE  /\ p[1][1] => OneOf(p) = p[1][2]
         /\ ~p[1][1] /\ p[2][1] => OneOf(p) = p[2][2]
<1>1. ASSUME p[1][1] PROVE OneOf(p) = p[1][2]
  <2>1. 1 \in 1 .. n /\ \A i \in 1 .. 1 - 1 : ~p[i][1]
    OBVIOUS
  <2> QED
    BY <1>1, <2>1, FirstHit
<1>2. ASSUME ~p[1][1], p[2][1] PROVE OneOf(p) = p[2][2]
  <2>1. 2 \in 1 .. n /\ \A i \in 1 .. 2 - 1 : ~p[i][1]
    BY <1>2
  <2> QED
    BY <1>2, <2>1, FirstHit
<1> QED
  BY <1>1, <1>2
=============================================================================
