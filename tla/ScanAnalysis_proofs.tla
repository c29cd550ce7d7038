------------------------- MODULE ScanAnalysis_proofs -------------------------
(***************************************************************************)
(* Theorems of ScanAnalysis, for any devices, lines, tamperings, tables    *)
(* and bounds that its assumptions allow.                                  *)
(***************************************************************************)
EXTENDS ScanAnalysis, ScanValues_proofs, FiniteSetTheorems, TLAPS

-----------------------------------------------------------------------------
(* The submission being composed. Whatever is tampered with or altered, it *)
(* keeps its fields and its product.                                       *)

ScanFields ==
  {"product", "device", "line", "sent", "pat", "key", "session", "hashes", "identity", "mac",
   "sealed", "touched"}

Submission(s) ==
  s = [f \in ScanFields |-> s[f]] /\ s.product \in Products /\ Probed(s)

Composed == scan # None => Submission(scan)

\* A value of one of the fields that is as the fields are.
Fits(f, y) ==
  /\ f # "product"
  /\ f = "line" => y = [g \in LineFields |-> y[g]]
  /\ f = "sent" => {"tcp", "h2"} \subseteq DOMAIN y /\ {y.tcp, y.h2} \subseteq Places
  /\ f = "device" => "cf" \in DOMAIN y /\ "age" \in DOMAIN y.cf /\ y.cf.age \in Int

LEMMA FieldKeeps ==
  ASSUME NEW s, Submission(s), NEW f, NEW y, Fits(f, y), NEW r, r = [s EXCEPT ![f] = y]
  PROVE  Submission(r)
<1>1. r = [g \in ScanFields |-> r[g]] /\ r.product = s.product
  BY DEF Submission, ScanFields, Fits
<1>2. /\ r.line = IF f = "line" THEN y ELSE s.line
      /\ r.sent = IF f = "sent" THEN y ELSE s.sent
      /\ r.device = IF f = "device" THEN y ELSE s.device
  BY DEF Submission, ScanFields
<1>3. Probed(r)
  BY <1>2 DEF Submission, Probed, Fits
<1> QED
  BY <1>1, <1>3 DEF Submission

\* A change of a field is the change of a part of a submission.
LEMMA PutKeeps ==
  ASSUME NEW s, Submission(s), NEW t \in Tamperings \cup Alterations
  PROVE  Submission(Put(s, t)) /\ Submission([Put(s, t) EXCEPT !.touched = @ \cup {t.path}])
<1>1. Submission(Put(s, t))
  <2>1. CASE Len(t.path) = 1
    <3>1. Put(s, t) = [s EXCEPT ![t.path[1]] = t.to]
      BY <2>1 DEF Put
    <3>2. Fits(t.path[1], t.to)
      BY <2>1, FieldsAssumption DEF Fits
    <3> QED
      BY <3>1, <3>2, FieldKeeps
  <2>2. CASE Len(t.path) = 2 /\ s[t.path[1]] = None
    BY <2>2 DEF Put
  <2>3. CASE Len(t.path) = 2 /\ s[t.path[1]] # None
    <3>1. PICK f, g, x : f = t.path[1] /\ g = t.path[2] /\ x = t.to
      OBVIOUS
    <3>2. PICK y : y = [s[f] EXCEPT ![g] = x]
      OBVIOUS
    <3>3. Put(s, t) = [s EXCEPT ![f] = y]
      BY <2>3, <3>1, <3>2 DEF Put
    <3>4. f # "product" /\ (f = "sent" => g \notin {"tcp", "h2"}) /\ (f = "device" => g # "cf")
      BY <2>3, <3>1, FieldsAssumption
    <3> SUFFICES Fits(f, y)
      BY <3>3, FieldKeeps
    <3>5. CASE f = "line"
      BY <3>2, <3>5 DEF Fits, Submission, Probed
    <3>6. CASE f = "sent"
      BY <3>2, <3>4, <3>6 DEF Fits, Submission, Probed
    <3>7. CASE f = "device"
      BY <3>2, <3>4, <3>7 DEF Fits, Submission, Probed
    <3> QED
      BY <3>4, <3>5, <3>6, <3>7 DEF Fits
  <2>4. CASE Len(t.path) = 3
    <3>1. PICK f, g, h, x : f = t.path[1] /\ g = t.path[2] /\ h = t.path[3] /\ x = t.to
      OBVIOUS
    <3>2. PICK z, y : z = [s[f][g] EXCEPT ![h] = x] /\ y = [s[f] EXCEPT ![g] = z]
      OBVIOUS
    <3>3. Put(s, t) = [s EXCEPT ![f] = y]
      BY <2>4, <3>1, <3>2 DEF Put
    <3>4. /\ f \notin {"product", "line"}
          /\ f = "sent" /\ g \in {"tcp", "h2"} =>
               x \in Kinds \cup {None} \cup (IF h = "top" THEN {} ELSE {"raw"})
          /\ f = "device" /\ g = "cf" /\ h = "age" => x \in Int
      BY <2>4, <3>1, FieldsAssumption
    <3> SUFFICES Fits(f, y)
      BY <3>3, FieldKeeps
    <3>5. CASE f = "sent"
      <4>1. {"tcp", "h2"} \subseteq DOMAIN s.sent /\ {s.sent.tcp, s.sent.h2} \subseteq Places
        BY DEF Submission, Probed
      <4>2. g \in {"tcp", "h2"} => z \in Places
        BY <3>2, <3>4, <3>5, <4>1 DEF Places
      <4> QED
        BY <3>2, <3>5, <4>1, <4>2 DEF Fits
    <3>6. CASE f = "device"
      <4>1. "cf" \in DOMAIN s.device /\ "age" \in DOMAIN s.device.cf /\ s.device.cf.age \in Int
        BY DEF Submission, Probed
      <4>2. g = "cf" => "age" \in DOMAIN z /\ z.age \in Int
        BY <3>2, <3>4, <3>6, <4>1
      <4> QED
        BY <3>2, <3>6, <4>1, <4>2 DEF Fits
    <3> QED
      BY <3>4, <3>5, <3>6 DEF Fits
  <2> QED
    BY <2>1, <2>2, <2>3, <2>4, FieldsAssumption
<1>2. PICK p, touched : p = Put(s, t) /\ touched = p.touched \cup {t.path}
  OBVIOUS
<1>3. Submission([p EXCEPT !.touched = touched])
  <2>1. Fits("touched", touched)
    BY DEF Fits
  <2> QED
    BY <1>1, <1>2, <2>1, FieldKeeps
<1> QED
  BY <1>1, <1>2, <1>3

\* The SDK adds its signature and its MAC.
LEMMA SealKeeps ==
  ASSUME NEW s, Submission(s)
  PROVE  Submission(SealedBySdk(s))
<1> DEFINE id == IF s.key = None THEN None
                 ELSE [pubkey |-> s.key, sig |-> [by |-> s.key, over |-> SignedInput(s)]]
           signed == [s EXCEPT !.identity = id]
           mac == ComputeMac(signed)
           sealed == [signed EXCEPT !.mac = mac, !.sealed = TRUE]
<1>1. SealedBySdk(s) = IF s.sealed THEN s ELSE sealed
  BY DEF SealedBySdk
<1> HIDE DEF id, mac
<1>2. /\ sealed = [f \in ScanFields |-> sealed[f]] /\ sealed.product = s.product
      /\ sealed.line = s.line /\ sealed.sent = s.sent /\ sealed.device = s.device
  BY DEF Submission, ScanFields
<1> HIDE DEF sealed
<1>3. Submission(sealed)
  BY <1>2 DEF Submission, Probed
<1> QED
  BY <1>1, <1>3

LEMMA ComposedInit == Init => Composed
BY DEF Init, Composed

LEMMA ComposedStep == Composed /\ [Next]_vars => Composed'
<1> SUFFICES ASSUME Composed, [Next]_vars PROVE Composed'
  OBVIOUS
<1>1. ASSUME NEW key \in Keys, NEW honest \in HonestScans, NEW product \in Products,
             Compose(key, honest, product)
      PROVE  Composed'
  <2>1. PICK s : s = scan'
    OBVIOUS
  <2>2. /\ s = [f \in ScanFields |-> s[f]] /\ s.product \in Products
        /\ s.line = honest.line /\ s.sent = honest.sent /\ s.device = honest.device
    BY <1>1, <2>1 DEF Compose, ScanFields
  <2>3. Submission(s)
    BY <2>2, FieldsAssumption DEF Submission, Probed
  <2> QED
    BY <2>1, <2>3 DEF Composed
<1>2. ASSUME NEW s, Submission(s), NEW t \in Tamperings \cup Alterations, Change(s, t)
      PROVE  Composed'
  <2>1. scan' = [Put(s, t) EXCEPT !.touched = @ \cup {t.path}]
    BY <1>2 DEF Change
  <2> QED
    BY <1>2, <2>1, PutKeeps DEF Composed
<1>3. ASSUME NEW t \in Tamperings, Tamper(t) PROVE Composed'
  BY <1>2, <1>3 DEF Tamper, Composed
<1>4. ASSUME NEW t \in Alterations, Alter(t) PROVE Composed'
  BY <1>2, <1>4, SealKeeps DEF Alter, Composed
<1>5. ASSUME NEW blob, Submit(blob) PROVE Composed'
  BY <1>5, SealKeeps DEF Submit, Composed
<1>6. CASE Refuse
  BY <1>6 DEF Refuse, Composed
<1>7. CASE Read
  BY <1>7 DEF Read, Composed
<1>8. CASE Deliver \/ LoseAnswer
  BY <1>8 DEF Deliver, LoseAnswer, Finish, Composed
<1>9. CASE UNCHANGED vars
  BY <1>9 DEF vars, Composed
<1> QED
  BY <1>1, <1>3, <1>4, <1>5, <1>6, <1>7, <1>8, <1>9 DEF Next

-----------------------------------------------------------------------------
(* The history. A blob tells of scans in the log that carried its key, in  *)
(* the order they were made.                                               *)

Tells(blob, lg) ==
  /\ blob = [id |-> blob.id, created |-> blob.created, visits |-> blob.visits]
  /\ \E S : blob.visits \in Seq(S)
  /\ Len(blob.visits) \in 0 .. MaxVisits
  /\ \A i \in 1 .. Len(blob.visits) :
       /\ blob.visits[i].session \in 1 .. Len(lg)
       /\ blob.visits[i].t = blob.visits[i].session - 1
       /\ blob.visits[i].ip = lg[blob.visits[i].session].ip
       /\ lg[blob.visits[i].session].key = blob.id
       /\ lg[blob.visits[i].session].product = "full"
  /\ \A i, j \in 1 .. Len(blob.visits) :
       i < j => blob.visits[i].session < blob.visits[j].session

Logged == \E S : log \in Seq(S)

BlobsTell == \A blob \in held : \A lg : lg = log => Tells(blob, lg) /\ blob.visits # <<>>

\* A record is that of the submission, frozen since, with the blob it came
\* with; an answer is that of a record.
LineOf(s) == [Hydrated(s).line EXCEPT !.ua = s.device.ua]

Recorded ==
  record # None =>
    \E s, blob, n :
      LET id == Identity(s)
          visit == [session |-> n + 1, t |-> n, ip |-> s.line.source]
          processed == ProcessDeviceHistory(blob, id.key, visit, n)
      IN /\ s = scan /\ blob = presented /\ n = Len(log)
         /\ Submission(s) /\ Admitted(s)
         /\ blob \in held \cup {None, Corrupt}
         /\ record.product = s.product
         /\ record.device = Hydrated(s).device
         /\ record.blocks = DeviceBlocks(Hydrated(s).device)
         /\ record.net = NetworkAnalysis(LineOf(s))
         /\ record.relay = (LineOf(s).api \in AppleEgress)
         /\ record.pat = s.pat /\ record.id = id
         /\ record.history = IF s.product = "proxy" THEN None ELSE HistoryAnalysis(processed, n)

Answered ==
  response # None => record # None /\ \E r : r = record /\ response = MerchantResponse(r)

LEMMA MaxOfZero ==
  ASSUME NEW n \in Int
  PROVE  Max({0, n}) = IF n > 0 THEN n ELSE 0
<1> DEFINE m == IF n > 0 THEN n ELSE 0
<1>1. m \in {0, n} /\ \A y \in {0, n} : m >= y
  OBVIOUS
<1>2. ASSUME NEW x \in {0, n}, \A y \in {0, n} : x >= y PROVE x = m
  BY <1>2
<1> QED
  BY <1>1, <1>2 DEF Max

\* A longer log tells the same of the scans it had.
LEMMA LongerLog ==
  ASSUME NEW S, NEW lg \in Seq(S), NEW e, NEW blob, Tells(blob, lg)
  PROVE  Tells(blob, Append(lg, e))
<1> DEFINE T == S \cup {e}
           longer == Append(lg, e)
<1>1. lg \in Seq(T) /\ e \in T
  OBVIOUS
<1>2. /\ Len(longer) = Len(lg) + 1
      /\ Len(lg) \in Nat
      /\ \A k \in 1 .. Len(lg) : longer[k] = lg[k]
  BY <1>1
<1> HIDE DEF longer
<1> QED
  BY <1>2 DEF Tells

\* A visit is added at the end, the first one gives way when there are
\* enough of them.
Extends(after, before, visit) ==
  /\ after = [id |-> before.id, created |-> before.created, visits |-> after.visits]
  /\ \E S : after.visits \in Seq(S)
  /\ Len(after.visits) \in 1 .. MaxVisits
  /\ after.visits[Len(after.visits)] = visit
  /\ \E over \in {0, 1} :
       \A i \in 1 .. Len(after.visits) - 1 :
         /\ i + over \in 1 .. Len(before.visits)
         /\ after.visits[i] = before.visits[i + over]

LEMMA AppendVisitExtends ==
  ASSUME NEW lg, NEW blob, NEW visit, Tells(blob, lg)
  PROVE  Extends(AppendVisit(blob, visit), blob, visit)
<1> DEFINE visits == blob.visits
           after == AppendVisit(blob, visit)
           next == Append(visits, visit)
           n == Len(visits)
           over == Max({0, Len(next) - MaxVisits})
           kept == SubSeq(next, over + 1, Len(next))
<1> PICK S : visits \in Seq(S)
  BY DEF Tells
<1>1. MaxVisits \in Nat \ {0} /\ n \in Nat /\ n <= MaxVisits
  BY BoundsAssumption DEF Tells
<1>2. /\ next \in Seq(S \cup {visit}) /\ Len(next) = n + 1
      /\ next[n + 1] = visit
      /\ \A i \in 1 .. n : next[i] = visits[i]
  <2>1. visits \in Seq(S \cup {visit})
    OBVIOUS
  <2> QED
    BY <2>1
<1>3. over \in {0, 1} /\ over <= n /\ n + 1 - over <= MaxVisits
  <2> HIDE DEF next, n
  <2>1. Len(next) - MaxVisits \in Int
    BY <1>1, <1>2
  <2>2. over = IF Len(next) - MaxVisits > 0 THEN Len(next) - MaxVisits ELSE 0
    BY <2>1, MaxOfZero
  <2> QED
    BY <1>1, <1>2, <2>2
<1>4. after = [blob EXCEPT !.visits = kept]
  BY DEF AppendVisit
<1>5. after = [id |-> blob.id, created |-> blob.created, visits |-> kept] /\ after.visits = kept
  <2> HIDE DEF kept
  <2> QED
    BY <1>4 DEF Tells
<1>6. /\ kept \in Seq(S \cup {visit}) /\ Len(kept) = n + 1 - over
      /\ \A i \in 1 .. n + 1 - over : kept[i] = next[i + over]
  <2> HIDE DEF next, over, n, visits
  <2> QED
    BY <1>1, <1>2, <1>3
<1> HIDE DEF visits, after, next, n, over, kept
<1>7. Len(kept) \in 1 .. MaxVisits /\ kept[Len(kept)] = visit
  <2>1. Len(kept) \in 1 .. MaxVisits
    BY <1>1, <1>3, <1>6
  <2>2. kept[n + 1 - over] = next[n + 1]
    BY <1>1, <1>3, <1>6
  <2> QED
    BY <2>1, <2>2, <1>2, <1>6
<1>8. ASSUME NEW i \in 1 .. Len(kept) - 1
      PROVE  i + over \in 1 .. n /\ kept[i] = visits[i + over]
  BY <1>1, <1>2, <1>3, <1>6
<1> QED
  BY <1>3, <1>5, <1>6, <1>7, <1>8 DEF after, n, visits, Extends

\* The visit of the next scan in the log is appended.
LoggedVisit(lg, e) == [session |-> Len(lg) + 1, t |-> Len(lg), ip |-> e.ip]

LEMMA AppendVisitTells ==
  ASSUME NEW S, NEW lg \in Seq(S), NEW e, NEW before, NEW visit,
         Tells(before, lg), before.id = e.key, e.product = "full",
         visit = [session |-> Len(lg) + 1, t |-> Len(lg), ip |-> e.ip]
  PROVE  LET after == AppendVisit(before, visit)
         IN Tells(after, Append(lg, e)) /\ after.visits # <<>>
<1> DEFINE after == AppendVisit(before, visit)
           longer == Append(lg, e)
           n == Len(lg)
           visits == before.visits
<1>1. before = [id |-> before.id, created |-> before.created, visits |-> before.visits]
  BY DEF Tells
<1>2. Extends(after, before, visit)
  BY AppendVisitExtends
<1>3. /\ after = [id |-> before.id, created |-> before.created, visits |-> after.visits]
      /\ \E V : after.visits \in Seq(V)
      /\ Len(after.visits) \in 1 .. MaxVisits
      /\ after.visits[Len(after.visits)] = visit
  BY <1>2 DEF Extends
<1>4. PICK over \in {0, 1} :
        \A i \in 1 .. Len(after.visits) - 1 :
          i + over \in 1 .. Len(visits) /\ after.visits[i] = visits[i + over]
  BY <1>2 DEF Extends
<1>5. longer[n + 1] = e /\ Len(longer) = n + 1 /\ n \in Nat
  <2>1. lg \in Seq(S \cup {e})
    OBVIOUS
  <2> QED
    BY <2>1
<1>6. /\ Tells(before, longer)
      /\ \A i \in 1 .. Len(visits) : visits[i].session \in 1 .. n
  <2>1. Tells(before, longer)
    BY LongerLog
  <2>2. \A i \in 1 .. Len(visits) : visits[i].session \in 1 .. n
    BY DEF Tells
  <2> QED
    BY <2>1, <2>2
<1>7. visit.session = n + 1 /\ visit.t = n /\ visit.ip = e.ip
  OBVIOUS
<1> DEFINE m == Len(after.visits)
<1> HIDE DEF after, longer, n
<1>8. m \in Nat /\ m <= MaxVisits /\ m >= 1 /\ m \in 0 .. MaxVisits
  BY <1>3, BoundsAssumption
<1>9. after.id = before.id
  BY <1>3
<1>10. ASSUME NEW i \in 1 .. m
       PROVE  /\ after.visits[i].session \in 1 .. Len(longer)
              /\ after.visits[i].t = after.visits[i].session - 1
              /\ after.visits[i].ip = longer[after.visits[i].session].ip
              /\ longer[after.visits[i].session].key = after.id
              /\ longer[after.visits[i].session].product = "full"
  <2>1. CASE i = m
    <3>1. after.visits[i] = visit /\ longer[visit.session] = e
      BY <1>3, <1>5, <1>7, <2>1
    <3>2. e.key = after.id
      BY <1>2, <1>9
    <3> QED
      BY <1>5, <1>7, <3>1, <3>2
  <2>2. CASE i < m
    <3>1. i \in 1 .. m - 1
      BY <1>8, <2>2
    <3>2. PICK k \in 1 .. Len(visits) : after.visits[i] = visits[k]
      BY <1>4, <3>1
    <3>3. /\ visits[k].session \in 1 .. Len(longer)
          /\ visits[k].t = visits[k].session - 1
          /\ visits[k].ip = longer[visits[k].session].ip
          /\ longer[visits[k].session].key = before.id
          /\ longer[visits[k].session].product = "full"
      BY <1>6 DEF Tells
    <3> QED
      BY <3>2, <3>3, <1>9
  <2> QED
    BY <1>8, <2>1, <2>2
<1>11. ASSUME NEW i \in 1 .. m, NEW j \in 1 .. m, i < j
       PROVE  after.visits[i].session < after.visits[j].session
  <2>1. i \in 1 .. m - 1
    BY <1>8, <1>11
  <2>2. i + over \in 1 .. Len(visits) /\ after.visits[i] = visits[i + over]
    BY <1>4, <2>1
  <2>3. CASE j = m
    BY <1>3, <1>5, <1>6, <1>7, <2>2, <2>3
  <2>4. CASE j < m
    <3>1. j \in 1 .. m - 1
      BY <1>8, <2>4
    <3>2. j + over \in 1 .. Len(visits) /\ after.visits[j] = visits[j + over]
      BY <1>4, <3>1
    <3>3. i + over < j + over
      BY <1>8, <1>11, <2>1, <3>1
    <3> QED
      BY <1>2, <2>2, <3>2, <3>3 DEF Tells
  <2> QED
    BY <1>8, <2>3, <2>4
<1>12. after = [id |-> after.id, created |-> after.created, visits |-> after.visits]
  BY <1>3
<1>13. Tells(after, longer)
  BY <1>3, <1>8, <1>10, <1>11, <1>12 DEF Tells
<1> QED
  BY <1>3, <1>8, <1>13 DEF after, longer

\* A blob with no visits tells nothing.
LEMMA FreshTells ==
  ASSUME NEW key, NEW n, NEW lg
  PROVE  Tells(FreshBlob(key, n), lg) /\ FreshBlob(key, n).id = key
<1> DEFINE blob == FreshBlob(key, n)
<1>1. blob = [id |-> key, created |-> n, visits |-> <<>>]
  BY DEF FreshBlob
<1> HIDE DEF blob
<1>2. blob.id = key /\ blob.created = n /\ blob.visits = <<>> /\ Len(<<>>) = 0 /\ <<>> \in Seq({})
  BY <1>1
<1>3. MaxVisits \in Nat
  BY BoundsAssumption
<1> QED
  BY <1>1, <1>2, <1>3 DEF Tells, blob

-----------------------------------------------------------------------------
(* What is counted in a blob is counted once.                              *)

Of(key, lg) == {i \in DOMAIN lg : lg[i].key = key /\ lg[i].product = "full"}

\* The scans, addresses and recent scans the log has of a key.
Within(scans, ips, recent, key, lg) ==
  LET earlier == Of(key, lg)
  IN /\ scans <= Cardinality(earlier)
     /\ ips <= Cardinality({lg[i].ip : i \in earlier})
     /\ recent <= Cardinality({i \in earlier : Len(lg) - (i - 1) <= RecentWindow})

VisitsOf(blob) == {blob.visits[i] : i \in DOMAIN blob.visits}
IpsSeen(blob) == {v.ip : v \in VisitsOf(blob)}
SeenLately(blob, n) == {v \in VisitsOf(blob) : v.t >= n - RecentWindow}

LEMMA CountsAreOfTheDevice ==
  ASSUME NEW S, NEW lg \in Seq(S), NEW blob, Tells(blob, lg)
  PROVE  Within(Len(blob.visits), Cardinality(IpsSeen(blob)),
                Cardinality(SeenLately(blob, Len(lg))), blob.id, lg)
<1> DEFINE visits == blob.visits
           m == Len(visits)
           seen == {visits[i] : i \in DOMAIN visits}
           earlier == Of(blob.id, lg)
           n == Len(lg)
<1>1. PICK V : visits \in Seq(V)
  BY DEF Tells
<1>2. m \in Nat /\ DOMAIN visits = 1 .. m /\ n \in Nat /\ DOMAIN lg = 1 .. n
  BY <1>1
<1>3. \A i \in 1 .. m : /\ visits[i].session \in earlier
                        /\ visits[i].t = visits[i].session - 1
                        /\ visits[i].ip = lg[visits[i].session].ip
  BY <1>2 DEF Tells, Of
<1>4. \A i, j \in 1 .. m : i < j => visits[i].session < visits[j].session
  BY DEF Tells
<1>5. earlier \subseteq 1 .. n /\ IsFiniteSet(earlier)
  <2>1. earlier \subseteq 1 .. n
    BY <1>2 DEF Of
  <2> QED
    <3>1. IsFiniteSet(1 .. n)
      BY <1>2, FS_Interval
    <3> QED
      BY <2>1, <3>1, FS_Subset
<1> HIDE DEF visits, m, earlier, n
<1>6. ASSUME NEW i \in 1 .. m, NEW j \in 1 .. m, visits[i].session = visits[j].session
      PROVE  i = j
  <2>1. visits[i].session \in 1 .. n /\ visits[j].session \in 1 .. n
    <3>1. visits[i].session \in earlier /\ visits[j].session \in earlier
      BY <1>3
    <3> QED
      BY <1>5, <3>1
  <2>2. i \in Int /\ j \in Int /\ visits[i].session \in Int /\ visits[j].session \in Int
    BY <1>2, <2>1
  <2> QED
    BY <1>4, <1>6, <2>2
<1>7. m <= Cardinality(earlier)
  <2> DEFINE f == [i \in 1 .. m |-> visits[i].session]
  <2>1. f \in Injection(1 .. m, earlier)
    BY <1>3, <1>6 DEF Injection, IsInjective
  <2>2. Cardinality(1 .. m) = m
    BY <1>2, FS_Interval
  <2> QED
    BY <1>5, <2>1, <2>2, FS_Injection
<1>8. seen = {visits[i] : i \in 1 .. m}
  BY <1>2
<1> HIDE DEF seen
<1>9. Cardinality({v.ip : v \in seen}) <= Cardinality({lg[i].ip : i \in earlier})
  <2> DEFINE Ips == {lg[i].ip : i \in earlier}
  <2>1. {v.ip : v \in seen} \in SUBSET Ips
    BY <1>3, <1>8
  <2>2. IsFiniteSet(Ips)
    <3> DEFINE f == [i \in earlier |-> lg[i].ip]
    <3>1. f \in Surjection(earlier, Ips)
      BY DEF Surjection
    <3> QED
      BY <1>5, <3>1, FS_Surjection
  <2> QED
    BY <2>1, <2>2, FS_Subset
<1>10. Cardinality({v \in seen : v.t >= n - RecentWindow})
         <= Cardinality({i \in earlier : n - (i - 1) <= RecentWindow})
  <2> DEFINE A == {v \in seen : v.t >= n - RecentWindow}
             B == {i \in earlier : n - (i - 1) <= RecentWindow}
             f == [v \in A |-> v.session]
  <2>1. RecentWindow \in Nat
    BY BoundsAssumption
  <2>2. \A v \in A : v.session \in B
    <3>1. ASSUME NEW i \in 1 .. m, visits[i].t >= n - RecentWindow
          PROVE  visits[i].session \in B
      <4>1. visits[i].session \in earlier /\ visits[i].session \in Int
        <5>1. visits[i].session \in earlier
          BY <1>3
        <5>2. \A x \in earlier : x \in Int
          BY <1>2, <1>5
        <5> QED
          BY <5>1, <5>2
      <4>2. visits[i].t = visits[i].session - 1
        BY <1>3
      <4>3. n - (visits[i].session - 1) <= RecentWindow
        BY <1>2, <2>1, <3>1, <4>1, <4>2
      <4> QED
        BY <4>1, <4>3
    <3> HIDE DEF B
    <3> QED
      BY <1>8, <3>1
  <2>3. \A v, w \in A : v.session = w.session => v = w
    <3>1. ASSUME NEW v \in A, NEW w \in A, v.session = w.session PROVE v = w
      <4>1. PICK i \in 1 .. m : v = visits[i]
        BY <1>8
      <4>2. PICK j \in 1 .. m : w = visits[j]
        BY <1>8
      <4> QED
        BY <1>6, <3>1, <4>1, <4>2
    <3> QED
      BY <3>1
  <2>4. f \in Injection(A, B)
    BY <2>2, <2>3 DEF Injection, IsInjective
  <2>5. IsFiniteSet(B)
    BY <1>5, FS_Subset
  <2> QED
    BY <2>4, <2>5, FS_Injection
<1> QED
  BY <1>7, <1>9, <1>10
     DEF visits, m, seen, earlier, n, Within, VisitsOf, IpsSeen, SeenLately

\* The blob a full scan with a key is answered with.
LEMMA AfterTells ==
  ASSUME NEW S, NEW lg \in Seq(S), NEW e, NEW blob, NEW after,
         blob \in {None, Corrupt} \/ Tells(blob, lg),
         e.key # None, e.product = "full",
         after = ProcessDeviceHistory(blob, e.key, LoggedVisit(lg, e), Len(lg)).after
  PROVE  Tells(after, Append(lg, e)) /\ after.visits # <<>>
<1> DEFINE ours == blob \notin {None, Corrupt} /\ blob.id = e.key
           before == IF ours THEN blob ELSE FreshBlob(e.key, Len(lg))
<1>1. Tells(before, lg) /\ before.id = e.key
  BY FreshTells
<1>2. after = AppendVisit(before, LoggedVisit(lg, e))
  BY DEF ProcessDeviceHistory
<1> HIDE DEF before
<1> QED
  BY <1>1, <1>2, AppendVisitTells DEF LoggedVisit

\* What the analysis counts is at most what the log has of the key.
LEMMA HistoryCounts ==
  ASSUME NEW S, NEW lg \in Seq(S), NEW blob, NEW key, NEW visit,
         blob \in {None, Corrupt} \/ Tells(blob, lg)
  PROVE  LET n == Len(lg)
             history == HistoryAnalysis(ProcessDeviceHistory(blob, key, visit, n), n)
         IN Within(history.scanCount, history.distinctIps, history.recent, key, lg)
<1> DEFINE n == Len(lg)
           processed == ProcessDeviceHistory(blob, key, visit, n)
           history == HistoryAnalysis(processed, n)
           earlier == Of(key, lg)
           ours == blob \notin {None, Corrupt} /\ blob.id = key
           Ips == {lg[i].ip : i \in earlier}
           Recent == {i \in earlier : n - (i - 1) <= RecentWindow}
<1> SUFFICES Within(history.scanCount, history.distinctIps, history.recent, key, lg)
  OBVIOUS
<1>1. CASE ours /\ key # None
  <2>1. processed.outcome = "ok" /\ processed.before = blob
    BY <1>1 DEF ProcessDeviceHistory
  <2> HIDE DEF processed
  <2>2. /\ history.scanCount = Len(blob.visits)
        /\ history.distinctIps = Cardinality(IpsSeen(blob))
        /\ history.recent = Cardinality(SeenLately(blob, n))
    BY <2>1 DEF HistoryAnalysis, VisitsOf, IpsSeen, SeenLately
  <2> HIDE DEF history
  <2>3. blob.id = key /\ Tells(blob, lg)
    BY <1>1
  <2> QED
    BY <2>2, <2>3, CountsAreOfTheDevice
<1>2. CASE ~(ours /\ key # None)
  <2>1. processed.outcome \in {"absent", "auth_fail"}
    BY <1>2 DEF ProcessDeviceHistory
  <2> HIDE DEF processed
  <2>2. history.scanCount = 0 /\ history.distinctIps = 0 /\ history.recent = 0
    BY <2>1 DEF HistoryAnalysis, Unanalyzable
  <2>3. IsFiniteSet(earlier)
    <3>1. IsFiniteSet(1 .. n) /\ earlier \subseteq 1 .. n
      BY FS_Interval DEF Of
    <3> QED
      BY <3>1, FS_Subset
  <2>4. IsFiniteSet(Ips)
    <3> DEFINE f == [i \in earlier |-> lg[i].ip]
    <3>1. f \in Surjection(earlier, Ips)
      BY DEF Surjection
    <3> QED
      BY <2>3, <3>1, FS_Surjection
  <2>5. IsFiniteSet(Recent)
    BY <2>3, FS_Subset
  <2> HIDE DEF history, earlier, Ips, Recent
  <2>6. Cardinality(earlier) >= 0 /\ Cardinality(Ips) >= 0 /\ Cardinality(Recent) >= 0
    BY <2>3, <2>4, <2>5, FS_CardinalityType
  <2> QED
    BY <2>2, <2>6 DEF Within, earlier, Ips, Recent
<1> QED
  BY <1>1, <1>2

-----------------------------------------------------------------------------
(* The invariant.                                                          *)

History == Composed /\ Logged /\ Answered /\ Recorded /\ BlobsTell

LEMMA HistoryInit == Init => History
<1> SUFFICES ASSUME Init PROVE History
  OBVIOUS
<1>1. Composed
  BY ComposedInit
<1>2. Logged
  <2>1. log \in Seq({})
    BY DEF Init
  <2> QED
    BY <2>1 DEF Logged
<1>3. Answered /\ Recorded /\ BlobsTell
  BY DEF Init, Answered, Recorded, BlobsTell
<1> QED
  BY <1>1, <1>2, <1>3 DEF History

\* Nothing but the end of a scan touches the log and the blobs.
LEMMA LogStays ==
  ASSUME History, UNCHANGED <<held, log>>
  PROVE  Logged' /\ BlobsTell'
BY DEF History, Logged, BlobsTell

LEMMA RecordStays ==
  ASSUME History, UNCHANGED <<scan, presented, record, held, log>>
  PROVE  Recorded'
<1>1. CASE record = None
  BY <1>1 DEF Recorded
<1>2. CASE record # None
  <2>1. Recorded
    BY DEF History
  <2> QED
    BY <1>2, <2>1 DEF Recorded
<1> QED
  BY <1>1, <1>2

\* The submission is recorded with its blob.
LEMMA SubmitRecords ==
  ASSUME History, NEW blob \in held \cup {None, Corrupt}, Submit(blob)
  PROVE  Recorded'
<1>1. PICK s : s = SealedBySdk(scan)
  OBVIOUS
<1>2. PICK n : n = Len(log)
  OBVIOUS
<1>3. /\ scan # None /\ scan' = s /\ presented' = blob
      /\ record' = BuildRecord(s, blob)
      /\ held' = held /\ log' = log
  BY <1>1 DEF Submit
<1>4. Submission(s) /\ Admitted(s)
  BY <1>1, <1>3, SealKeeps DEF History, Composed, Submit, Accepted
<1> DEFINE id == Identity(s)
           visit == [session |-> n + 1, t |-> n, ip |-> s.line.source]
           processed == ProcessDeviceHistory(blob, id.key, visit, n)
<1>5. Processed(s, blob) = processed /\ now = n
  BY <1>2 DEF Processed, Visit, now
<1>6. /\ record'.product = s.product
      /\ record'.device = Hydrated(s).device
      /\ record'.blocks = DeviceBlocks(Hydrated(s).device)
      /\ record'.net = NetworkAnalysis(LineOf(s))
      /\ record'.relay = (LineOf(s).api \in AppleEgress)
      /\ record'.pat = s.pat /\ record'.id = id
      /\ record'.history = IF s.product = "proxy" THEN None ELSE HistoryAnalysis(processed, n)
  <2> HIDE DEF id, processed
  <2> QED
    BY <1>3, <1>5 DEF BuildRecord, LineOf, id
<1> HIDE DEF id, processed
<1>7. n = Len(log')
  BY <1>2, <1>3
<1> QED
  BY <1>3, <1>4, <1>6, <1>7 DEF Recorded, id, processed

\* The scan is logged, and the blob it is answered with tells of it too.
LEMMA FinishTells ==
  ASSUME History, Finish
  PROVE  /\ Logged'
         /\ \A blob \in held : Tells(blob, log') /\ blob.visits # <<>>
         /\ LET after == Processed(scan, presented).after
            IN after # None => Tells(after, log') /\ after.visits # <<>>
<1>1. record # None
  BY DEF Finish, History, Answered
<1>2. PICK s, blob, n :
        /\ s = scan /\ blob = presented /\ n = Len(log)
        /\ Submission(s)
        /\ blob \in held \cup {None, Corrupt}
        /\ record.id = Identity(s)
  BY <1>1 DEF History, Recorded
<1>3. PICK S : log \in Seq(S)
  BY DEF History, Logged
<1>4. PICK lg : lg = log
  OBVIOUS
<1> DEFINE e == [key |-> Identity(s).key, product |-> s.product, ip |-> s.line.source]
           visit == [session |-> n + 1, t |-> n, ip |-> s.line.source]
           after == ProcessDeviceHistory(blob, Identity(s).key, visit, n).after
<1>5. log' = Append(lg, e)
  BY <1>2, <1>4 DEF Finish
<1>6. Processed(scan, presented).after = after
  BY <1>2 DEF Processed, Visit, now
<1>7. lg \in Seq(S) /\ n = Len(lg) /\ \A b \in held : Tells(b, lg) /\ b.visits # <<>>
  BY <1>2, <1>3, <1>4 DEF History, BlobsTell
<1>8. Logged'
  <2>1. Append(lg, e) \in Seq(S \cup {e})
    BY <1>7
  <2> QED
    BY <1>5, <2>1 DEF Logged
<1>9. ASSUME NEW b \in held PROVE Tells(b, Append(lg, e)) /\ b.visits # <<>>
  BY <1>7, LongerLog
<1>10. ASSUME after # None PROVE Tells(after, Append(lg, e)) /\ after.visits # <<>>
  <2>1. Identity(s).key # None
    BY <1>10 DEF ProcessDeviceHistory
  <2>2. s.product = "full"
    BY <1>2, <2>1 DEF Identity, Absent, Outcome, Products, Submission
  <2>3. e.key = Identity(s).key /\ e.product = "full" /\ e.ip = s.line.source
    BY <2>2
  <2>4. visit = LoggedVisit(lg, e) /\ n = Len(lg)
    BY <1>7 DEF LoggedVisit
  <2>5. blob \in {None, Corrupt} \/ Tells(blob, lg)
    BY <1>2, <1>7
  <2> HIDE DEF e, visit
  <2>6. after = ProcessDeviceHistory(blob, e.key, LoggedVisit(lg, e), Len(lg)).after
    BY <2>3, <2>4
  <2> HIDE DEF after
  <2>7. e.key # None /\ e.product = "full" /\ lg \in Seq(S)
    BY <1>7, <2>1, <2>3
  <2> QED
    BY <2>5, <2>6, <2>7, AfterTells
<1> HIDE DEF e, after
<1> QED
  BY <1>5, <1>6, <1>8, <1>9, <1>10

LEMMA HistoryStep == History /\ [Next]_vars => History'
<1> SUFFICES ASSUME History, [Next]_vars PROVE History'
  OBVIOUS
<1>1. Composed'
  BY ComposedStep DEF History
<1> SUFFICES Logged' /\ Answered' /\ Recorded' /\ BlobsTell'
  BY <1>1 DEF History
<1>2. ASSUME NEW key \in Keys, NEW honest \in HonestScans, NEW product \in Products,
             Compose(key, honest, product)
      PROVE  Logged' /\ Answered' /\ Recorded' /\ BlobsTell'
  BY <1>2, LogStays DEF Compose, Answered, Recorded, History
<1>3. ASSUME NEW s, NEW t, Change(s, t)
      PROVE  Logged' /\ Answered' /\ Recorded' /\ BlobsTell'
  BY <1>3, LogStays DEF Change, Answered, Recorded, History
<1>4. ASSUME NEW t \in Tamperings, Tamper(t)
      PROVE  Logged' /\ Answered' /\ Recorded' /\ BlobsTell'
  BY <1>3, <1>4 DEF Tamper
<1>5. ASSUME NEW t \in Alterations, Alter(t)
      PROVE  Logged' /\ Answered' /\ Recorded' /\ BlobsTell'
  BY <1>3, <1>5 DEF Alter
<1>6. ASSUME NEW blob \in held \cup {None, Corrupt}, Submit(blob)
      PROVE  Logged' /\ Answered' /\ Recorded' /\ BlobsTell'
  <2>1. response = None /\ UNCHANGED <<response, held, log>>
    BY <1>6 DEF Submit, History, Answered
  <2> QED
    BY <1>6, <2>1, SubmitRecords, LogStays DEF Answered
<1>7. CASE Refuse
  BY <1>7, LogStays DEF Refuse, Answered, Recorded, History
<1>8. CASE Read
  <2>1. record # None /\ UNCHANGED <<scan, presented, record, held, log>>
    BY <1>8 DEF Read
  <2>2. PICK r : r = record
    OBVIOUS
  <2>3. response' = MerchantResponse(r) /\ record' = r
    BY <1>8, <2>2 DEF Read
  <2>4. Answered'
    BY <2>1, <2>2, <2>3 DEF Answered
  <2> QED
    BY <2>1, <2>4, LogStays, RecordStays
<1>9. CASE Deliver
  <2>1. Logged' /\ Answered' /\ Recorded'
    BY <1>9, FinishTells DEF Deliver, Finish, Answered, Recorded
  <2>2. held' = held \cup ({Processed(scan, presented).after} \ {None}) /\ Finish
    BY <1>9 DEF Deliver
  <2>3. \A blob \in held' : Tells(blob, log') /\ blob.visits # <<>>
    BY <2>2, FinishTells
  <2>4. BlobsTell'
    BY <2>3 DEF BlobsTell
  <2> QED
    BY <2>1, <2>4
<1>10. CASE LoseAnswer
  <2>1. Logged' /\ Answered' /\ Recorded'
    BY <1>10, FinishTells DEF LoseAnswer, Finish, Answered, Recorded
  <2>2. held' = held /\ Finish
    BY <1>10 DEF LoseAnswer
  <2>3. \A blob \in held' : Tells(blob, log') /\ blob.visits # <<>>
    BY <2>2, FinishTells
  <2>4. BlobsTell'
    BY <2>3 DEF BlobsTell
  <2> QED
    BY <2>1, <2>4
<1>11. CASE UNCHANGED vars
  <2>1. UNCHANGED <<scan, presented, record, response, held, log>>
    BY <1>11 DEF vars
  <2>2. Answered'
    BY <2>1 DEF History, Answered
  <2> QED
    BY <2>1, <2>2, LogStays, RecordStays
<1> QED
  BY <1>2, <1>4, <1>5, <1>6, <1>7, <1>8, <1>9, <1>10, <1>11 DEF Next

LEMMA HistoryInvariant == Spec => []History
<1>1. Init => History
  BY HistoryInit
<1>2. History /\ [Next]_vars => History'
  BY HistoryStep
<1> QED
  BY <1>1, <1>2, PTL DEF Spec

\* Whatever blob of whom a device presents, it is judged by scans with its
\* own key only, each counted once, and a blob stays within its bound.
THEOREM HistoriesAreOwn == Spec => []HistoryIsOfItsDevice
<1>1. History => HistoryIsOfItsDevice
  <2> SUFFICES ASSUME History PROVE HistoryIsOfItsDevice
    OBVIOUS
  <2>1. PICK lg, S : lg = log /\ lg \in Seq(S)
    BY DEF History, Logged
  <2>2. \A key : EarlierScans(key) = Of(key, lg)
    BY <2>1 DEF EarlierScans, Of
  <2>3. ASSUME NEW blob \in held
        PROVE  /\ Len(blob.visits) \in 1 .. MaxVisits
               /\ \A i \in DOMAIN blob.visits :
                    blob.visits[i].session \in EarlierScans(blob.id)
               /\ \A i, j \in DOMAIN blob.visits :
                    i < j => blob.visits[i].session < blob.visits[j].session
    <3>1. Tells(blob, lg) /\ blob.visits # <<>>
      BY <2>1 DEF History, BlobsTell
    <3>2. PICK V : blob.visits \in Seq(V)
      BY <3>1 DEF Tells
    <3>3. DOMAIN blob.visits = 1 .. Len(blob.visits) /\ Len(blob.visits) # 0
      BY <3>1, <3>2
    <3>4. Len(blob.visits) \in 1 .. MaxVisits
      BY <3>1, <3>3, BoundsAssumption DEF Tells
    <3>5. \A i \in DOMAIN blob.visits : blob.visits[i].session \in Of(blob.id, lg)
      BY <2>1, <3>1, <3>3 DEF Tells, Of
    <3> QED
      BY <2>2, <3>1, <3>3, <3>4, <3>5 DEF Tells
  <2>4. ASSUME record # None, record.history # None
        PROVE  LET earlier == EarlierScans(record.id.key)
               IN /\ record.history.scanCount <= Cardinality(earlier)
                  /\ record.history.distinctIps <= Cardinality({log[i].ip : i \in earlier})
                  /\ record.history.recent
                       <= Cardinality({i \in earlier : now - (i - 1) <= RecentWindow})
    <3>1. PICK key, visit, blob :
            /\ record.id.key = key /\ blob \in held \cup {None, Corrupt}
            /\ record.history
                 = HistoryAnalysis(ProcessDeviceHistory(blob, key, visit, Len(lg)), Len(lg))
      BY <2>1, <2>4 DEF History, Recorded
    <3>2. blob \in {None, Corrupt} \/ Tells(blob, lg)
      BY <2>1, <3>1 DEF History, BlobsTell
    <3>3. PICK history : history = record.history
      OBVIOUS
    <3>4. Within(history.scanCount, history.distinctIps, history.recent, key, lg)
      BY <2>1, <3>1, <3>2, <3>3, HistoryCounts
    <3> QED
      BY <2>1, <2>2, <3>1, <3>3, <3>4 DEF Within, now
  <2> QED
    BY <2>3, <2>4 DEF HistoryIsOfItsDevice
<1> QED
  BY <1>1, HistoryInvariant, PTL

-----------------------------------------------------------------------------
(* Two lines that differ in the user agent's browser alone are analysed    *)
(* alike, but for the network's identifier.                                *)

SameLine(x, y) ==
  /\ x.source = y.source /\ x.api = y.api /\ x.tls = y.tls /\ x.tcp = y.tcp
  /\ x.webrtc = y.webrtc /\ x.status = y.status /\ x.webrtcBlock = y.webrtcBlock
  /\ x.asn = y.asn /\ x.rtt = y.rtt /\ x.rcvRtt = y.rcvRtt /\ x.mss = y.mss

SameBlocks(a, b) ==
  /\ a.threat = b.threat /\ a.network = b.network
  /\ a.ip.ips = b.ip.ips /\ a.ip.category = b.ip.category
  /\ a.ip.networkClass = b.ip.networkClass /\ a.ip.integrity = b.ip.integrity
  /\ a.ip.signals = b.ip.signals

LEMMA AddressesAlike ==
  ASSUME NEW x, NEW y, SameLine(x, y)
  PROVE  /\ ProbeList(x) = ProbeList(y) /\ ProbeIps(x) = ProbeIps(y)
         /\ WebrtcIp(x) = WebrtcIp(y) /\ Forged(x) = Forged(y)
         /\ Integrity(x) = Integrity(y) /\ IpSignals(x) = IpSignals(y)
<1>1. ProbeList(x) = ProbeList(y)
  BY DEF SameLine, ProbeList
<1>2. ProbeIps(x) = ProbeIps(y)
  BY DEF SameLine, ProbeIps
<1>3. WebrtcIp(x) = WebrtcIp(y) /\ Forged(x) = Forged(y)
  BY DEF SameLine, WebrtcIp, Forged
<1>4. Integrity(x) = Integrity(y)
  BY <1>1, <1>3 DEF Integrity
<1>5. ProbeScatter(x) = ProbeScatter(y)
  BY <1>2 DEF ProbeScatter
<1>6. WebrtcVsProbes(x) = WebrtcVsProbes(y)
  BY <1>2, <1>3 DEF WebrtcVsProbes
<1>7. WebrtcSignals(x) = WebrtcSignals(y)
  BY <1>3, <1>6 DEF WebrtcSignals, SameLine
<1>8. IpSignals(x) = IpSignals(y)
  BY <1>5, <1>7 DEF IpSignals, SameLine
<1> QED
  BY <1>1, <1>2, <1>3, <1>4, <1>8

LEMMA NetworkAlike ==
  ASSUME NEW x, NEW y, SameLine(x, y)
  PROVE  SameBlocks(NetworkAnalysis(x), NetworkAnalysis(y))
<1>1. /\ WebrtcIp(x) = WebrtcIp(y) /\ Integrity(x) = Integrity(y)
      /\ IpSignals(x) = IpSignals(y)
  BY AddressesAlike
<1>2. Category(x) = Category(y)
  BY DEF Category, SameLine
<1>3. NetworkClass(x) = NetworkClass(y)
  BY <1>1 DEF NetworkClass, SameLine
<1>4. MssComponent(x) = MssComponent(y)
  BY DEF MssComponent, SameLine
<1>5. \A category : NetworkBlock(x, category) = NetworkBlock(y, category)
  BY <1>4 DEF NetworkBlock
<1>6. PICK status, tcp, ip, rtt, rcvRtt :
        /\ x.status = status /\ x.tcp = tcp /\ WebrtcIp(x) = ip /\ x.rtt = rtt /\ x.rcvRtt = rcvRtt
        /\ y.status = status /\ y.tcp = tcp /\ WebrtcIp(y) = ip /\ y.rtt = rtt /\ y.rcvRtt = rcvRtt
  BY <1>1 DEF SameLine
<1>7. WaterfallRule(x) = WaterfallRule(y)
  BY <1>6 DEF WaterfallRule, RatioKnown, RatioAtMost, RatioBelow
<1>8. /\ IpBlock(x).ips = IpBlock(y).ips /\ IpBlock(x).category = IpBlock(y).category
      /\ IpBlock(x).networkClass = IpBlock(y).networkClass
      /\ IpBlock(x).integrity = IpBlock(y).integrity /\ IpBlock(x).signals = IpBlock(y).signals
  BY <1>1, <1>2, <1>3 DEF IpBlock, SameLine
<1> QED
  BY <1>5, <1>7, <1>8 DEF NetworkAnalysis, SameBlocks

\* And are scored and labelled alike.
LEMMA NetworkJudgedAlike ==
  ASSUME NEW a, NEW b, SameBlocks(a, b)
  PROVE  NetworkTampering(a) = NetworkTampering(b) /\ PathTags(a) = PathTags(b)
<1>1. VpnScore(a) = VpnScore(b)
  BY DEF VpnScore, Shielded, SameBlocks
<1>2. ScatterPenalty(a) = ScatterPenalty(b)
  BY DEF ScatterPenalty, SameBlocks
<1>3. NoWebrtc(a) = NoWebrtc(b)
  BY DEF NoWebrtc, SameBlocks
<1> QED
  BY <1>1, <1>2, <1>3 DEF NetworkTampering, PathTags, SameBlocks

\* The line and the signed blob as hydrated.
LEMMA HydratedParts ==
  ASSUME NEW s, Submission(s)
  PROVE  /\ Hydrated(s).line =
              [s.line EXCEPT !.tcp = Tcp(s).ip, !.rtt = Tcp(s).rtt, !.rcvRtt = Tcp(s).rcvRtt,
                             !.mss = Tcp(s).mss, !.tls = AwsCf(s).ip, !.asn = AwsCf(s).asn]
         /\ Hydrated(s).device.cf = AwsCf(s)
         /\ NetworkAnalysis(LineOf(s)).ip.ips.tcp = Tcp(s).ip
<1>1. Hydrated(s).line =
        [s.line EXCEPT !.tcp = Tcp(s).ip, !.rtt = Tcp(s).rtt, !.rcvRtt = Tcp(s).rcvRtt,
                       !.mss = Tcp(s).mss, !.tls = AwsCf(s).ip, !.asn = AwsCf(s).asn]
  BY DEF Hydrated, Submission, ScanFields
<1>2. Hydrated(s).device.cf = AwsCf(s)
  BY DEF Hydrated, Submission, ScanFields, Probed
<1>3. LineOf(s).tcp = Tcp(s).ip
  BY <1>1 DEF LineOf, Submission, Probed, LineFields
<1>4. NetworkAnalysis(LineOf(s)).ip.ips.tcp = LineOf(s).tcp
  BY DEF NetworkAnalysis, IpBlock
<1> QED
  BY <1>1, <1>2, <1>3, <1>4

\* What the probes and the signed blob tell of a line does not depend on the
\* device it is the line of.
LEMMA LineOfAnotherDevice ==
  ASSUME NEW s, NEW d, Submission(s)
  PROVE  SameLine(LineOf(s), LineOf([s EXCEPT !.device = d]))
<1> DEFINE o == [s EXCEPT !.device = d]
<1>1. /\ o.line = s.line /\ o.sent = s.sent /\ o.product = s.product
      /\ o = [f \in ScanFields |-> o[f]]
  BY DEF Submission, ScanFields
<1> HIDE DEF o
<1>2. TcpRedeemed(s) <=> TcpRedeemed(o)
  BY <1>1 DEF TcpRedeemed, RedeemToken, Token, TcpPrint
<1>3. /\ Tcp(s).ip = Tcp(o).ip /\ Tcp(s).rtt = Tcp(o).rtt
      /\ Tcp(s).rcvRtt = Tcp(o).rcvRtt /\ Tcp(s).mss = Tcp(o).mss
  BY <1>1, <1>2 DEF Tcp, TcpPrint
<1>4. AwsCf(s).ip = AwsCf(o).ip /\ AwsCf(s).asn = AwsCf(o).asn
  BY <1>1 DEF AwsCf, CfParsed, NoCf
<1>5. ASSUME NEW r, r = [f \in ScanFields |-> r[f]]
      PROVE  Hydrated(r).line =
               [r.line EXCEPT !.tcp = Tcp(r).ip, !.rtt = Tcp(r).rtt, !.rcvRtt = Tcp(r).rcvRtt,
                              !.mss = Tcp(r).mss, !.tls = AwsCf(r).ip, !.asn = AwsCf(r).asn]
  BY <1>5 DEF Hydrated, ScanFields
<1>6. Hydrated(s).line = Hydrated(o).line
  <2>1. Hydrated(s).line =
          [s.line EXCEPT !.tcp = Tcp(s).ip, !.rtt = Tcp(s).rtt, !.rcvRtt = Tcp(s).rcvRtt,
                         !.mss = Tcp(s).mss, !.tls = AwsCf(s).ip, !.asn = AwsCf(s).asn]
    BY <1>5 DEF Submission
  <2>2. Hydrated(o).line =
          [s.line EXCEPT !.tcp = Tcp(s).ip, !.rtt = Tcp(s).rtt, !.rcvRtt = Tcp(s).rcvRtt,
                         !.mss = Tcp(s).mss, !.tls = AwsCf(s).ip, !.asn = AwsCf(s).asn]
    <3>1. Hydrated(o).line =
            [o.line EXCEPT !.tcp = Tcp(o).ip, !.rtt = Tcp(o).rtt, !.rcvRtt = Tcp(o).rcvRtt,
                           !.mss = Tcp(o).mss, !.tls = AwsCf(o).ip, !.asn = AwsCf(o).asn]
      BY <1>1, <1>5
    <3> QED
      BY <1>1, <1>3, <1>4, <3>1, Zenon
  <2> QED
    BY <2>1, <2>2
<1>7. Hydrated(s).line = [f \in LineFields |-> Hydrated(s).line[f]]
  BY <1>5 DEF Submission, Probed
<1> QED
  BY <1>6, <1>7 DEF LineOf, SameLine, LineFields, o

\* Whatever is tampered with, another device on the same line gets the same
\* answer of the reduced product: verdict and tags are of the network alone.
THEOREM ProxyVerdictsAreOfTheNetwork == Spec => []ProxyVerdictIsNetworkOnly
<1>1. History => ProxyVerdictIsNetworkOnly
  <2> SUFFICES ASSUME History, response # None, response.product = "proxy"
               PROVE  /\ response.network_tampering = FullResponse(record).network_tampering
                      /\ \A device \in {other.device : other \in ReturningScans} :
                           LET proxy == ProxyResponse(BuildRecord([scan EXCEPT !.device = device], None))
                           IN response.verdict = proxy.verdict /\ response.tags = proxy.tags
    BY DEF ProxyVerdictIsNetworkOnly
  <2>1. PICK r : record # None /\ r = record /\ response = MerchantResponse(r)
    BY DEF History, Answered
  <2>2. PICK s : s = scan /\ Submission(s) /\ record.net = NetworkAnalysis(LineOf(s))
    BY <2>1 DEF History, Recorded
  <2>3. response = ProxyResponse(r)
    <3>1. FullResponse(r).product = "full"
      BY DEF FullResponse
    <3> QED
      BY <2>1, <3>1 DEF MerchantResponse
  <2>4. response.network_tampering = FullResponse(record).network_tampering
    <3>1. response.network_tampering = NetworkTampering(r.net)
      BY <2>3 DEF ProxyResponse
    <3>2. FullResponse(record).network_tampering = NetworkTampering(r.net)
      BY <2>1 DEF FullResponse
    <3> QED
      BY <3>1, <3>2
  <2>5. ASSUME NEW device
        PROVE  LET proxy == ProxyResponse(BuildRecord([scan EXCEPT !.device = device], None))
               IN response.verdict = proxy.verdict /\ response.tags = proxy.tags
    <3> DEFINE o == [s EXCEPT !.device = device]
               q == BuildRecord(o, None)
    <3>1. q.net = NetworkAnalysis(LineOf(o))
      BY DEF BuildRecord, LineOf
    <3>2. SameBlocks(r.net, q.net)
      BY <2>1, <2>2, <3>1, LineOfAnotherDevice, NetworkAlike
    <3> HIDE DEF q
    <3>3. NetworkTampering(r.net) = NetworkTampering(q.net) /\ PathTags(r.net) = PathTags(q.net)
      BY <3>2, NetworkJudgedAlike
    <3>4. NetworkFlags(r) = NetworkFlags(q)
      BY <3>2 DEF NetworkFlags, SameBlocks
    <3>5. ProxyTags(r) = ProxyTags(q)
      BY <3>3, <3>4 DEF ProxyTags
    <3>6. response.verdict = ProxyResponse(q).verdict /\ response.tags = ProxyResponse(q).tags
      BY <2>3, <3>3, <3>5 DEF ProxyResponse
    <3>7. q = BuildRecord([scan EXCEPT !.device = device], None)
      BY <2>2 DEF q
    <3> QED
      BY <3>6, <3>7
  <2> QED
    BY <2>4, <2>5
<1> QED
  BY <1>1, HistoryInvariant, PTL

-----------------------------------------------------------------------------
(* What a clean verdict rests on.                                          *)

\* A token that is redeemed is the client's own, used where it was given.
LEMMA RedeemedIsOwn ==
  ASSUME NEW place \in Places, NEW print, NEW source,
         RedeemToken(ResolveProbeToken(place), print, source)
  PROVE  /\ place.top = "own" \/ (place.top = None /\ place.inline = "own")
         /\ print.ip = source
<1> DEFINE inline == InlineToken(place.inline)
           p == <<place.top, inline>>
           kind == ResolveProbeToken(place)
           known == {i \in DOMAIN p : p[i] # None}
<1>1. kind # None /\ kind \notin {"expired", "unlisted", "unsealed"} /\ print.ip = source
  BY DEF RedeemToken, Token
<1>2. place.top \in Kinds \cup {None} /\ place.inline \in Kinds \cup {"raw", None}
  BY DEF Places
<1>3. kind = IF known = {} THEN None ELSE p[Min(known)]
  BY DEF ResolveProbeToken, FirstOf
<1>4. DOMAIN p = {1, 2} /\ p[1] = place.top /\ p[2] = inline
  OBVIOUS
<1> HIDE DEF p, kind, inline
<1>5. CASE place.top # None
  <2>1. 1 \in known /\ \A x \in known : 1 <= x
    BY <1>4, <1>5
  <2>2. known \subseteq Nat
    BY <1>4
  <2>3. Min(known) = 1
    <3> HIDE DEF known
    <3> QED
      BY <2>1, <2>2, MinOf
  <2>4. kind = place.top
    BY <1>3, <1>4, <2>1, <2>3
  <2> QED
    BY <1>1, <1>2, <2>4 DEF Kinds
<1>6. CASE place.top = None
  <2>1. known # {}
    BY <1>1, <1>3
  <2>2. 2 \in known /\ \A x \in known : 2 <= x
    BY <1>4, <1>6, <2>1
  <2>3. known \subseteq Nat
    BY <1>4
  <2>4. Min(known) = 2
    <3> HIDE DEF known
    <3> QED
      BY <2>2, <2>3, MinOf
  <2>5. kind = inline
    BY <1>3, <1>4, <2>2, <2>4
  <2>6. inline = IF place.inline = "raw" THEN None ELSE place.inline
    BY DEF InlineToken, inline
  <2> QED
    BY <1>1, <1>2, <1>6, <2>5, <2>6 DEF Kinds
<1> QED
  BY <1>1, <1>5, <1>6

\* Edited or stale evidence of the signed blob is a strong sign at least.
LEMMA StaleCfTampers ==
  ASSUME NEW r, r.device.cf.tampered \/ CfReplayed(r.device.cf) \/ CfSlow(r.device.cf)
  PROVE  DeviceTampering(r) \in {60, 100}
<1> DEFINE p == <<<<Definitive(r, TRUE), 100>>, <<Strong(r), 60>>,
                  <<IframeStuck(r) \/ r.blocks.worker.mainOnly, 50>>,
                  <<KernelSignal(r, "KERNEL_OS_MISMATCH_DARWIN") \/ LocationMismatch(r), 35>>,
                  <<Lies(r) >= 1, 25>>, <<TRUE, 0>>>>
<1>1. Definitive(r, TRUE) \/ Strong(r)
  BY DEF Definitive, Strong
<1>2. DeviceTampering(r) = OneOf(p)
  BY DEF DeviceTampering, TamperingFrom
<1>3. DOMAIN p = 1 .. 6 /\ p[1][2] = 100 /\ p[2][2] = 60
  OBVIOUS
<1>4. (Definitive(r, TRUE) => p[1][1]) /\ (~Definitive(r, TRUE) /\ Strong(r) => ~p[1][1] /\ p[2][1])
  OBVIOUS
<1> HIDE DEF p
<1>5. /\ p[1][1] => OneOf(p) = p[1][2]
      /\ ~p[1][1] /\ p[2][1] => OneOf(p) = p[2][2]
  <2>1. PICK n \in Nat : n = 6
    OBVIOUS
  <2>2. n >= 2 /\ DOMAIN p = 1 .. n
    BY <1>3, <2>1
  <2> QED
    BY <2>2, FirstTwo
<1> QED
  BY <1>1, <1>2, <1>3, <1>4, <1>5

\* The strongest axis decides.
LEMMA CleanIsBelow ==
  ASSUME NEW axes, Verdict(axes) = "clean", NEW axis \in axes
  PROVE  ~(axis >= SuspectThreshold)
BY DEF Verdict

\* Tampered with or not, a scan that comes out clean has evidence of its own
\* probes, of the address it came from and in time: of all of them where the
\* reduced product is asked for.
THEOREM CleanVerdictsRestOnProbes == Spec => []CleanRestsOnProbes
<1>1. History => CleanRestsOnProbes
  <2> SUFFICES ASSUME History, response # None, response.verdict = "clean"
               PROVE  CleanRestsOnProbes
    BY DEF CleanRestsOnProbes
  <2>1. PICK r : record # None /\ r = record /\ response = MerchantResponse(r)
    BY DEF History, Answered
  <2>2. PICK s : /\ s = scan /\ Submission(s) /\ Admitted(s)
                 /\ r.product = s.product /\ r.device = Hydrated(s).device
                 /\ r.net = NetworkAnalysis(LineOf(s))
    BY <2>1 DEF History, Recorded
  <2>3. r.device.cf = AwsCf(s) /\ r.net.ip.ips.tcp = Tcp(s).ip
    BY <2>2, HydratedParts
  <2> DEFINE own(place) == place.top = "own" \/ (place.top = None /\ place.inline = "own")
  <2>4. s.sent.tcp \in Places /\ s.sent.h2 \in Places /\ s.device.cf.age \in Int
    BY <2>2 DEF Submission, Probed
  <2>5. r.net.ip.ips.tcp \in {None, s.line.source}
    <3>1. CASE TcpRedeemed(s)
      BY <2>3, <3>1 DEF Tcp, TcpRedeemed, RedeemToken, Token
    <3>2. CASE ~TcpRedeemed(s)
      BY <2>3, <3>2 DEF Tcp, NoTcpPrint
    <3> QED
      BY <3>1, <3>2
  <2>6. TcpRedeemed(s) => own(s.sent.tcp) /\ r.net.ip.ips.tcp = s.line.source
    <3> SUFFICES ASSUME TcpRedeemed(s) PROVE own(s.sent.tcp) /\ r.net.ip.ips.tcp = s.line.source
      OBVIOUS
    <3>1. own(s.sent.tcp) /\ TcpPrint(s).ip = s.line.source
      BY <2>4, RedeemedIsOwn DEF TcpRedeemed
    <3> QED
      BY <2>3, <3>1 DEF Tcp
  <2>7. H2Redeemed(s) => own(s.sent.h2) /\ s.line.h2 = s.line.source
    <3> SUFFICES ASSUME H2Redeemed(s) PROVE own(s.sent.h2) /\ s.line.h2 = s.line.source
      OBVIOUS
    <3>1. own(s.sent.h2) /\ H2Print(s).ip = s.line.source
      BY <2>4, RedeemedIsOwn DEF H2Redeemed
    <3> QED
      BY <3>1 DEF H2Print
  <2>8. Authentic(s) => r.device.cf.age # None
    BY <2>3, <2>4, NoneAssumption DEF Authentic, AwsCf
  <2>9. ASSUME r.device.cf.age # None, response.product = "full"
        PROVE  s.sent.tls = "own" /\ r.device.cf.age \in -MaxAgeSeconds .. MaxAgeSeconds
    <3>1. PICK cf : cf = r.device.cf
      OBVIOUS
    <3>2. CfParsed(s)
      BY <2>3, <2>9 DEF AwsCf, NoCf
    <3>3. /\ cf.tampered <=> s.sent.tls # "own"
          /\ cf.expired <=> s.device.cf.age > 90 \/ s.device.cf.age < -90
          /\ cf.age = s.device.cf.age
      <4>1. /\ cf.tampered = VerifyCfToken(s).tampered
            /\ cf.expired = VerifyCfToken(s).expired
            /\ cf.age = s.device.cf.age
        BY <2>3, <3>1, <3>2 DEF AwsCf
      <4>2. /\ VerifyCfToken(s).tampered <=> s.sent.tls # "own"
            /\ VerifyCfToken(s).expired <=> s.device.cf.age > 90 \/ s.device.cf.age < -90
        BY DEF VerifyCfToken, MaxAgeSeconds
      <4> QED
        BY <4>1, <4>2
    <3>4. response = FullResponse(r)
      BY <2>1, <2>9 DEF MerchantResponse, ProxyResponse
    <3>5. ~(DeviceTampering(r) >= 30)
      <4>1. PICK axes : axes = {ApplyPat(Automation(r), r), DeviceTampering(r), NetworkTampering(r.net)}
        OBVIOUS
      <4>2. Verdict(axes) = "clean"
        BY <3>4, <4>1 DEF FullResponse
      <4>3. DeviceTampering(r) \in axes
        BY <4>1
      <4> QED
        BY <4>2, <4>3, CleanIsBelow DEF SuspectThreshold
    <3>6. ~cf.tampered /\ ~CfReplayed(cf) /\ ~CfSlow(cf)
      BY <3>1, <3>5, StaleCfTampers
    <3>7. cf.age \in -90 .. 90
      <4>1. cf.age \in Int
        BY <2>4, <3>3
      <4>2. ~cf.expired
        BY <2>9, <3>1, <3>6 DEF CfSlow
      <4> QED
        BY <3>3, <4>1, <4>2
    <3> QED
      BY <3>1, <3>3, <3>6, <3>7 DEF MaxAgeSeconds
  <2>10. /\ s.product = "proxy" => Authentic(s) /\ TcpRedeemed(s) /\ H2Redeemed(s)
         /\ Authentic(s) \/ TcpRedeemed(s) \/ H2Redeemed(s)
    BY <2>2 DEF Admitted, Hydratable
  <2>11. response.product = "proxy" => s.product = "proxy"
    <3>1. FullResponse(r).product = "full"
      BY DEF FullResponse
    <3> QED
      BY <2>1, <2>2, <3>1 DEF MerchantResponse
  <2> HIDE DEF own
  <2>12. /\ r.net.ip.ips.tcp \in {None, s.line.source}
         /\ r.device.cf.age # None /\ response.product = "full" =>
               s.sent.tls = "own" /\ r.device.cf.age \in -MaxAgeSeconds .. MaxAgeSeconds
         /\ LET attested == r.device.cf.age # None
                tcp == own(s.sent.tcp) /\ r.net.ip.ips.tcp = s.line.source
                h2 == own(s.sent.h2) /\ s.line.h2 = s.line.source
            IN IF response.product = "proxy" THEN attested /\ tcp /\ h2 ELSE attested \/ tcp \/ h2
    BY <2>5, <2>6, <2>7, <2>8, <2>9, <2>10, <2>11
  <2> QED
    BY <2>1, <2>2, <2>12 DEF CleanRestsOnProbes, own
<1> QED
  BY <1>1, HistoryInvariant, PTL

-----------------------------------------------------------------------------
(* Evidence that is withheld. What the probes saw of a device reaches the  *)
(* analyses as far as its tokens are redeemed; the detectors make nothing  *)
(* of what is missing.                                                     *)

NoProbeHints == [brands |-> None, platform |-> None, mobile |-> None]

\* Device e is device d, or d without what some of the probes saw of it.
Withheld(e, d) ==
  /\ e.ua = d.ua /\ e.engine = d.engine /\ e.incognito = d.incognito /\ e.nav = d.nav
  /\ e.scopes = d.scopes /\ e.tz = d.tz /\ e.locale = d.locale /\ e.lies = d.lies
  /\ e.headless = d.headless /\ e.cdp = d.cdp /\ e.status = d.status
  /\ e.bodyBrands = d.bodyBrands /\ e.cf.tz = d.cf.tz
  /\ e.wire.ja4 \in {d.wire.ja4, None} /\ e.wire.ciphers \in {d.wire.ciphers, None}
  /\ e.wire.grease \in {d.wire.grease, None} /\ e.wire.ecn \in {d.wire.ecn, None}
  /\ e.hints.header = d.hints.header /\ e.hints.probe \in {d.hints.probe, NoProbeHints}
  /\ e.majors.ua = d.majors.ua /\ e.majors.header = d.majors.header
  /\ e.majors.scripts = d.majors.scripts /\ e.majors.probe \in {d.majors.probe, None}

LEMMA WireWithheld ==
  ASSUME NEW e, NEW d, Withheld(e, d)
  PROVE  /\ Ja4Ua(e).family = Ja4Ua(d).family /\ Ja4Ua(e).os = Ja4Ua(d).os
         /\ \A code \in {"JA4_UA_BROWSER_MISMATCH", "TLS_UA_MISMATCH"} :
              code \in Ja4Ua(e).signals => code \in Ja4Ua(d).signals
         /\ KernelOs(e) \subseteq KernelOs(d)
<1>1. /\ e.ua = d.ua /\ e.hints.header = d.hints.header
      /\ e.wire.ja4 \in {d.wire.ja4, None} /\ e.wire.ciphers \in {d.wire.ciphers, None}
      /\ e.wire.grease \in {d.wire.grease, None} /\ e.wire.ecn \in {d.wire.ecn, None}
  BY DEF Withheld
<1>2. Differ(Ja4Family(e), UaFamily(e.ua)) => Differ(Ja4Family(d), UaFamily(d.ua))
  <2>1. e.wire.ja4 = None => Ja4Family(e) = None
    BY WireTablesAssumption DEF Ja4Family, Known
  <2>2. e.wire.ja4 = d.wire.ja4 => Ja4Family(e) = Ja4Family(d)
    BY DEF Ja4Family
  <2> QED
    BY <1>1, <2>1, <2>2 DEF Differ
<1>3. StrippedTls(e) => StrippedTls(d)
  BY <1>1, NoneAssumption DEF StrippedTls
<1>4. KernelOs(e) \subseteq KernelOs(d)
  BY <1>1, NoneAssumption DEF KernelOs
<1>5. ASSUME NEW x
      PROVE  /\ Ja4Ua(x).family = UaFamily(x.ua) /\ Ja4Ua(x).os = UaOs(x.ua)
             /\ "JA4_UA_BROWSER_MISMATCH" \in Ja4Ua(x).signals
                  <=> Differ(Ja4Family(x), UaFamily(x.ua))
             /\ "TLS_UA_MISMATCH" \in Ja4Ua(x).signals <=> StrippedTls(x)
  BY DEF Ja4Ua
<1> QED
  BY <1>1, <1>2, <1>3, <1>4, <1>5

LEMMA HintsWithheldToo ==
  ASSUME NEW e, NEW d, Withheld(e, d)
  PROVE  ClientHintsMismatch(e) => ClientHintsMismatch(d)
<1>1. /\ e.ua = d.ua /\ e.hints.header = d.hints.header
      /\ e.hints.probe \in {d.hints.probe, NoProbeHints}
      /\ e.majors.ua = d.majors.ua /\ e.majors.header = d.majors.header
      /\ e.majors.scripts = d.majors.scripts /\ e.majors.probe \in {d.majors.probe, None}
  BY DEF Withheld
<1>2. \A field \in {"brands", "platform", "mobile"} :
        Hint(e, field) # None => Hint(e, field) = Hint(d, field)
  BY <1>1 DEF Hint, NoProbeHints
<1>3. DoubleCaptureDiffers(e) => DoubleCaptureDiffers(d)
  BY <1>1 DEF DoubleCaptureDiffers, NoProbeHints, Differ
<1>4. VersionsDiffer(e) => VersionsDiffer(d)
  BY <1>1 DEF VersionsDiffer, Differ
<1>5. /\ Hint(e, "platform") # "Unknown" /\ Differ(Hint(e, "platform"), HintsOs(e.ua)) =>
           Hint(d, "platform") # "Unknown" /\ Differ(Hint(d, "platform"), HintsOs(d.ua))
      /\ \A mobile : Differ(Hint(e, "mobile"), mobile) => Differ(Hint(d, "mobile"), mobile)
  BY <1>1, <1>2 DEF Differ
<1>6. Hint(e, "brands") # None /\ FamiliesDiffer(BrandFamily(Hint(e, "brands")), HintsFamily(e.ua)) =>
      Hint(d, "brands") # None /\ FamiliesDiffer(BrandFamily(Hint(d, "brands")), HintsFamily(d.ua))
  BY <1>1, <1>2
<1> QED
  BY <1>1, <1>3, <1>4, <1>5, <1>6 DEF ClientHintsMismatch

LEMMA CollectedAlike ==
  ASSUME NEW e, NEW d, Withheld(e, d)
  PROVE  /\ BrowserEngine(e) = BrowserEngine(d)
         /\ Divergences(e) = Divergences(d)
         /\ OracleMissing(e) <=> OracleMissing(d)
         /\ TzGeoMismatch(e) <=> TzGeoMismatch(d)
         /\ LocaleTamper(e) <=> LocaleTamper(d)
         /\ HintsWithheld(e) <=> HintsWithheld(d)
<1>1. BrowserEngine(e) = BrowserEngine(d)
  BY DEF Withheld, BrowserEngine
<1>2. Divergences(e) = Divergences(d) /\ (OracleMissing(e) <=> OracleMissing(d))
  BY DEF Withheld, Divergences, OracleMissing, ScopeOf
<1>3. (TzGeoMismatch(e) <=> TzGeoMismatch(d)) /\ (LocaleTamper(e) <=> LocaleTamper(d))
  BY DEF Withheld, TzGeoMismatch, LocaleTamper, ScopeOf
<1>4. HintsWithheld(e) <=> HintsWithheld(d)
  BY DEF Withheld, HintsWithheld
<1> QED
  BY <1>1, <1>2, <1>3, <1>4

LEMMA HydratedIsWithheld ==
  ASSUME NEW s, Submission(s), Whole(s.device), CfParsed(s)
  PROVE  Withheld(Hydrated(s).device, s.device)
<1> DEFINE tcp == Tcp(s)
           h2 == H2(s)
           cf == AwsCf(s)
           d == s.device
           wire == [ja4 |-> FirstOf(<<h2.ja4, tcp.ja4>>), h2 |-> h2.order, ecn |-> tcp.ecn,
                    ciphers |-> FirstOf(<<h2.ciphers, tcp.ciphers>>),
                    grease |-> FirstOf(<<h2.grease, tcp.grease>>)]
           e == Hydrated(s).device
<1>1. e = [d EXCEPT !.hints.probe = tcp.hints, !.majors.probe = tcp.major, !.cf = cf, !.wire = wire]
  BY DEF Hydrated, Submission, ScanFields
<1>2. /\ tcp.ja4 \in {d.wire.ja4, None} /\ tcp.ciphers \in {d.wire.ciphers, None}
      /\ tcp.grease \in {d.wire.grease, None} /\ tcp.ecn \in {d.wire.ecn, None}
      /\ tcp.hints \in {d.hints.probe, NoProbeHints} /\ tcp.major \in {d.majors.probe, None}
  BY DEF Tcp, TcpPrint, NoTcpPrint, NoProbeHints
<1>3. /\ h2.ja4 \in {d.wire.ja4, None} /\ h2.ciphers \in {d.wire.ciphers, None}
      /\ h2.grease \in {d.wire.grease, None}
  BY DEF H2, H2Print, NoH2Print
<1>4. cf.tz = d.cf.tz
  BY DEF AwsCf
<1>5. ASSUME NEW v, NEW a \in {v, None}, NEW b \in {v, None}
      PROVE  FirstOf(<<a, b>>) \in {v, None}
  <2> DEFINE p == <<a, b>>
  <2>1. PICK n \in Nat : n = 2
    OBVIOUS
  <2>2. DOMAIN p = 1 .. n /\ \A i \in 1 .. n : p[i] \in {v, None}
    BY <2>1
  <2> HIDE DEF p
  <2>3. IF \A i \in 1 .. n : p[i] = None THEN FirstOf(p) = None
        ELSE \E i \in 1 .. n : FirstOf(p) = p[i] /\ p[i] # None
    BY <2>2, FirstOfAmong
  <2>4. FirstOf(p) \in {v, None}
    BY <2>2, <2>3
  <2> QED
    BY <2>4 DEF p
<1>6. /\ wire.ja4 \in {d.wire.ja4, None} /\ wire.ciphers \in {d.wire.ciphers, None}
      /\ wire.grease \in {d.wire.grease, None} /\ wire.ecn \in {d.wire.ecn, None}
  <2>1. wire.ja4 \in {d.wire.ja4, None}
    BY <1>2, <1>3, <1>5
  <2>2. wire.ciphers \in {d.wire.ciphers, None}
    BY <1>2, <1>3, <1>5
  <2>3. wire.grease \in {d.wire.grease, None}
    BY <1>2, <1>3, <1>5
  <2> QED
    BY <1>2, <2>1, <2>2, <2>3
<1> HIDE DEF tcp, cf, wire, e
<1>7. /\ e.hints = [d.hints EXCEPT !.probe = tcp.hints]
      /\ e.majors = [d.majors EXCEPT !.probe = tcp.major]
      /\ e.cf = cf /\ e.wire = wire
      /\ \A f \in DeviceFields \ {"hints", "majors", "cf", "wire"} : e[f] = d[f]
  BY <1>1 DEF Whole, DeviceFields
<1>8. /\ e.hints.header = d.hints.header /\ e.hints.probe = tcp.hints
      /\ e.majors.ua = d.majors.ua /\ e.majors.header = d.majors.header
      /\ e.majors.scripts = d.majors.scripts /\ e.majors.probe = tcp.major
  BY <1>7 DEF Whole
<1>9. /\ e.ua = d.ua /\ e.engine = d.engine /\ e.incognito = d.incognito /\ e.nav = d.nav
      /\ e.scopes = d.scopes /\ e.tz = d.tz /\ e.locale = d.locale /\ e.lies = d.lies
      /\ e.headless = d.headless /\ e.cdp = d.cdp /\ e.status = d.status
      /\ e.bodyBrands = d.bodyBrands
  BY <1>7 DEF DeviceFields
<1> QED
  BY <1>2, <1>4, <1>6, <1>7, <1>8, <1>9 DEF Withheld, e

-----------------------------------------------------------------------------
(* The scores of an honest device and of an honest line.                   *)

\* What a record has of a device, whole or with evidence withheld.
OfDevice(r, e) == r.device = e /\ r.blocks = DeviceBlocks(e)

LEMMA LiesAlike ==
  ASSUME NEW r, NEW q, NEW e, NEW d, OfDevice(r, e), OfDevice(q, d), Withheld(e, d)
  PROVE  /\ Lies(r) = Lies(q)
         /\ IframeStuck(r) <=> IframeStuck(q)
         /\ PristineCompromised(r) <=> PristineCompromised(q)
         /\ TimingScore(r) = TimingScore(q)
<1>1. /\ r.device.lies = q.device.lies /\ r.device.status = q.device.status
      /\ r.device.ua = q.device.ua /\ r.device.scopes = q.device.scopes
      /\ r.device.cdp = q.device.cdp
  BY DEF OfDevice, Withheld
<1>2. r.blocks.ja4Ua.family = q.blocks.ja4Ua.family /\ r.blocks.ja4Ua.os = q.blocks.ja4Ua.os
  BY WireWithheld DEF OfDevice, DeviceBlocks
<1>3. BraveIos(r) <=> BraveIos(q)
  BY <1>1, <1>2 DEF BraveIos
<1>4. Lies(r) = Lies(q)
  BY <1>1, <1>3 DEF Lies
<1>5. MobileBrowser(r) <=> MobileBrowser(q)
  BY <1>1 DEF MobileBrowser
<1>6. TimingScore(r) = TimingScore(q)
  BY <1>1, <1>5 DEF TimingScore
<1> QED
  BY <1>1, <1>4, <1>6 DEF IframeStuck, PristineCompromised

\* Evidence of its own, and a key that signed, if any did.
Genuine(r) ==
  /\ ~r.device.cf.tampered /\ ~r.device.cf.expired
  /\ ~CfReplayed(r.device.cf)
  /\ r.pat.attempted => r.pat.verified
  /\ r.id.sig => r.id.verified
  /\ r.history # None => ~r.history.tampered

\* What its line explains is not held against a device, and what nothing
\* explains is: the tier is that of what is misread or doubted.
LEMMA HonestDeviceIsExcused ==
  ASSUME NEW d, HonestDevice(d), NEW line, HonestPath(d, line),
         NEW e, Withheld(e, d), NEW r, OfDevice(r, e), Genuine(r),
         r.net.ip.category = Category(line), r.relay = (line.api \in AppleEgress)
  PROVE  /\ Definitive(r, TRUE) <=> Misread(r)
         /\ Strong(r) <=> "BROWSER_ENGINE_INCONSISTENT_SOFT" \in r.blocks.engine
         /\ ~IframeStuck(r) /\ ~LocationMismatch(r)
<1> DEFINE q == [device |-> d, blocks |-> DeviceBlocks(d)]
           darwin == "KERNEL_OS_MISMATCH_DARWIN"
           linux == "KERNEL_OS_MISMATCH_LINUX"
<1>1. OfDevice(q, d)
  BY DEF OfDevice
<1>2. /\ Lies(r) = Lies(q) /\ (IframeStuck(r) <=> IframeStuck(q))
  <2> HIDE DEF q
  <2> QED
    BY <1>1, LiesAlike
<1>3. /\ r.device = e /\ r.blocks.ja4Ua = Ja4Ua(e) /\ r.blocks.kernelOs = KernelOs(e)
      /\ r.blocks.hintsMismatch = ClientHintsMismatch(e)
      /\ r.blocks.timezone = Timezone(e) /\ r.blocks.localeTamper = LocaleTamper(e)
  BY DEF OfDevice, DeviceBlocks
<1>4. /\ q.blocks.ja4Ua = Ja4Ua(d) /\ q.blocks.hintsMismatch = ClientHintsMismatch(d)
      /\ q.blocks.localeTamper = LocaleTamper(d)
      /\ DeviceBlocks(d).ja4Ua = Ja4Ua(d) /\ DeviceBlocks(d).kernelOs = KernelOs(d)
      /\ DeviceBlocks(d).timezone = Timezone(d)
  BY DEF DeviceBlocks
<1>5. /\ ~q.blocks.hintsMismatch /\ ~HintsWithheld(d) /\ ~q.blocks.localeTamper
      /\ DOMAIN d.lies.of \cap (WebrtcLies \cup {"Navigator.platform"}) = {}
      /\ Lies(q) \in 0 .. 4 /\ ~IframeStuck(q)
  BY DEF HonestDevice
<1> HIDE DEF q
<1>6. Timezone(e).geo = TzGeoMismatch(e) /\ Timezone(d).geo = TzGeoMismatch(d)
  BY DEF Timezone
<1>7. ~r.blocks.hintsMismatch /\ ~HintsWithheld(r.device) /\ ~r.blocks.localeTamper
  <2>1. ~r.blocks.hintsMismatch
    BY <1>3, <1>4, <1>5, HintsWithheldToo, Zenon
  <2>2. ~HintsWithheld(r.device) /\ ~r.blocks.localeTamper
    BY <1>3, <1>4, <1>5, CollectedAlike, Zenon
  <2> QED
    BY <2>1, <2>2
<1>8. r.device.lies.of = d.lies.of /\ Lies(r) \in 0 .. 4 /\ ~IframeStuck(r)
  BY <1>2, <1>3, <1>5 DEF Withheld
<1>9. Shielded(r.net) <=> Category(line) = "corporate_proxy"
  BY DEF Shielded
<1>10. "TLS_UA_MISMATCH" \in r.blocks.ja4Ua.signals => Shielded(r.net)
  <2>1. "TLS_UA_MISMATCH" \in Ja4Ua(e).signals => "TLS_UA_MISMATCH" \in Ja4Ua(d).signals
    BY WireWithheld
  <2> QED
    BY <1>3, <1>4, <1>9, <2>1 DEF HonestPath
<1>11. ~LocationMismatch(r)
  <2>1. TzGeoMismatch(e) <=> TzGeoMismatch(d)
    BY CollectedAlike
  <2>2. r.blocks.timezone.geo => DeviceBlocks(d).timezone.geo
    BY <1>3, <1>4, <1>6, <2>1, Zenon
  <2> QED
    BY <1>9, <2>2 DEF HonestPath, LocationMismatch
<1>12. ~KernelSignal(r, linux) /\ (KernelSignal(r, darwin) => ~SafariDarwin(r))
  <2>1. r.blocks.kernelOs \subseteq KernelOs(d)
    BY <1>3, WireWithheld
  <2>2. \/ KernelOs(d) = {} \/ Shielded(r.net) \/ r.relay
        \/ r.net.ip.category = "privacy_relay" /\ KernelOs(d) = {darwin}
    BY <1>4, <1>9 DEF HonestPath
  <2> QED
    BY <2>1, <2>2 DEF KernelSignal, AppleRelay
<1>13. Definitive(r, TRUE) <=> Misread(r)
  <2>1. ~(Lies(r) >= 20)
        /\ DOMAIN r.device.lies.of \cap (WebrtcLies \cup {"Navigator.platform"}) = {}
    BY <1>5, <1>8
  <2> QED
    BY <1>7, <1>12, <2>1, Zenon DEF Definitive, Misread, Genuine
<1>14. Strong(r) <=> "BROWSER_ENGINE_INCONSISTENT_SOFT" \in r.blocks.engine
  <2>1. ~(Lies(r) >= 5)
    BY <1>8
  <2> QED
    BY <1>7, <1>10, <1>12, <2>1, Zenon DEF Strong, Genuine, CfSlow
<1> QED
  BY <1>8, <1>11, <1>13, <1>14

LEMMA HonestDeviceIsJudged ==
  ASSUME NEW r, Definitive(r, TRUE) <=> Misread(r),
         Strong(r) <=> "BROWSER_ENGINE_INCONSISTENT_SOFT" \in r.blocks.engine,
         ~IframeStuck(r), ~LocationMismatch(r)
  PROVE  IF Misread(r) THEN DeviceTampering(r) = 100
         ELSE IF Doubted(r) THEN DeviceTampering(r) \in {50, 60} ELSE DeviceTampering(r) \in {0, 25}
<1> DEFINE p == <<<<Definitive(r, TRUE), 100>>, <<Strong(r), 60>>,
                  <<IframeStuck(r) \/ r.blocks.worker.mainOnly, 50>>,
                  <<KernelSignal(r, "KERNEL_OS_MISMATCH_DARWIN") \/ LocationMismatch(r), 35>>,
                  <<Lies(r) >= 1, 25>>, <<TRUE, 0>>>>
<1>1. DeviceTampering(r) = OneOf(p)
  BY DEF DeviceTampering, TamperingFrom
<1>2. PICK n \in Nat : n = 6
  OBVIOUS
<1>3. /\ DOMAIN p = 1 .. n /\ p[6][1] /\ p[1][2] = 100 /\ p[2][2] = 60 /\ p[3][2] = 50
      /\ p[5][2] = 25 /\ p[6][2] = 0
  BY <1>2
<1>4. /\ p[1][1] = Definitive(r, TRUE) /\ p[2][1] = Strong(r)
      /\ p[3][1] = (IframeStuck(r) \/ r.blocks.worker.mainOnly)
      /\ p[4][1] = (KernelSignal(r, "KERNEL_OS_MISMATCH_DARWIN") \/ LocationMismatch(r))
  OBVIOUS
<1> HIDE DEF p
<1>5. /\ p[1][1] <=> Misread(r)
      /\ p[2][1] \/ p[3][1] <=> Doubted(r)
      /\ p[4][1] => Misread(r)
  <2>1. p[1][1] <=> Misread(r)
    BY <1>4, Zenon
  <2>2. p[2][1] \/ p[3][1] <=> Doubted(r)
    BY <1>4, Zenon DEF Doubted
  <2>3. p[4][1] => Misread(r)
    BY <1>4, Zenon DEF Misread
  <2> QED
    BY <2>1, <2>2, <2>3
<1>6. CASE Misread(r)
  <2>1. n >= 2 /\ p[1][1]
    BY <1>2, <1>5, <1>6
  <2>2. OneOf(p) = p[1][2]
    BY <1>3, <2>1, FirstTwo
  <2> QED
    BY <1>1, <1>3, <1>6, <2>2
<1>7. CASE ~Misread(r) /\ p[2][1]
  <2>1. n >= 2 /\ ~p[1][1]
    BY <1>2, <1>5, <1>7
  <2>2. OneOf(p) = p[2][2]
    BY <1>3, <1>7, <2>1, FirstTwo
  <2> QED
    BY <1>1, <1>3, <1>5, <1>7, <2>2
<1>8. CASE ~Misread(r) /\ ~p[2][1] /\ p[3][1]
  <2>1. PICK k \in 1 .. n : k = 3
    BY <1>2
  <2>2. p[k][1] /\ \A i \in 1 .. k - 1 : ~p[i][1]
    BY <1>5, <1>8, <2>1
  <2>3. OneOf(p) = p[k][2]
    BY <1>3, <2>2, FirstHit
  <2> QED
    BY <1>1, <1>3, <1>5, <1>8, <2>1, <2>3
<1>9. CASE ~Misread(r) /\ ~p[2][1] /\ ~p[3][1]
  <2>1. n >= 2 /\ p[n][1] /\ \A i \in 1 .. n - 2 : ~p[i][1]
    <3>1. \A i \in 1 .. n - 2 : i \in {1, 2, 3, 4}
      BY <1>2
    <3> QED
      BY <1>2, <1>3, <1>5, <1>9, <3>1
  <2>2. OneOf(p) \in {p[n - 1][2], p[n][2]}
    BY <1>3, <2>1, LastTwo
  <2> QED
    BY <1>1, <1>2, <1>3, <1>5, <1>9, <2>2
<1> QED
  BY <1>6, <1>7, <1>8, <1>9

LEMMA RoundFive ==
  /\ Round5(0) = 0 /\ \A n \in 0 .. 25 : Round5(n) \in 0 .. 25
  /\ \A n \in 0 .. 100 : Round5(n) \in 0 .. 100
<1>1. ASSUME NEW n \in 0 .. 25 PROVE (2 * n + 5) \div 10 \in 0 .. 5
  OBVIOUS
<1>2. ASSUME NEW n \in 0 .. 25 PROVE Round5(n) \in 0 .. 25
  <2>1. PICK k \in 0 .. 5 : k = (2 * n + 5) \div 10
    BY <1>1
  <2>2. k * 5 \in 0 .. 25
    OBVIOUS
  <2> QED
    BY <2>1, <2>2 DEF Round5
<1>3. ASSUME NEW n \in 0 .. 100 PROVE Round5(n) \in 0 .. 100
  <2>1. PICK k \in 0 .. 20 : k = (2 * n + 5) \div 10
    OBVIOUS
  <2>2. k * 5 \in 0 .. 100
    OBVIOUS
  <2> QED
    BY <2>1, <2>2 DEF Round5
<1>4. (2 * 0 + 5) \div 10 = 0
  OBVIOUS
<1> QED
  BY <1>2, <1>3, <1>4 DEF Round5

LEMMA CappedBetween ==
  ASSUME NEW n \in 0 .. 100
  PROVE  Capped(n) = n
<1>1. Min({100, n}) = n
  <2>1. n \in {100, n} /\ {100, n} \subseteq Nat /\ \A x \in {100, n} : n <= x
    OBVIOUS
  <2> QED
    BY <2>1, MinOf
<1>2. Max({0, n}) = n
  BY MaxOfZero
<1> QED
  BY <1>1, <1>2 DEF Capped

LEMMA HonestDeviceIsNotAutomated ==
  ASSUME NEW d, HonestDevice(d), NEW e, Withheld(e, d), NEW r, OfDevice(r, e)
  PROVE  ApplyPat(Automation(r), r) \in 0 .. 25
<1> DEFINE q == [device |-> d, blocks |-> DeviceBlocks(d)]
           cdp == r.device.cdp
           stealth == IF r.device.headless.stealth > 0 THEN 20 ELSE 0
           weak == WeakEvidence(r)
           p == <<<<r.device.headless.rating > 0 \/ IframeStuck(r) \/ HardResidue(cdp), 100>>,
                  <<Burst(cdp) \/ TimingScore(r) = 75 \/ cdp.soft # {} \/ PristineCompromised(r), 75>>,
                  <<ProxyTrap(cdp) \/ TimingScore(r) = 60, 60>>, <<TRUE, weak>>>>
<1>1. OfDevice(q, d)
  BY DEF OfDevice
<1>2. /\ d.headless.rating = 0 /\ d.headless.stealth = 0 /\ WeakHeadless(d.headless) \in 0 .. 25
      /\ ~IframeStuck(q) /\ ~PristineCompromised(q)
      /\ ~HardResidue(d.cdp) /\ d.cdp.soft = {} /\ ~ProxyTrap(d.cdp)
      /\ ~Burst(d.cdp) /\ TimingScore(q) = 0
  BY DEF HonestDevice
<1> HIDE DEF q
<1>3. /\ ~IframeStuck(r) /\ ~PristineCompromised(r) /\ TimingScore(r) = 0
      /\ cdp = d.cdp /\ r.device.headless = d.headless
  BY <1>1, <1>2, LiesAlike DEF OfDevice, Withheld
<1>4. weak \in 0 .. 25
  <2>1. WeakHeadless(r.device.headless) + stealth \in 0 .. 25
    BY <1>2, <1>3
  <2>2. PICK n \in 0 .. 25 : n = WeakHeadless(r.device.headless) + stealth
    BY <2>1
  <2>3. Capped(n) = n /\ Round5(n) \in 0 .. 25
    BY CappedBetween, RoundFive
  <2> QED
    BY <2>2, <2>3 DEF WeakEvidence
<1>5. Automation(r) = OneOf(p)
  BY DEF Automation
<1>6. DOMAIN p = 1 .. 4 /\ p[4][1] /\ p[4][2] = weak /\ ~p[1][1] /\ ~p[2][1] /\ ~p[3][1]
  <2>1. DOMAIN p = 1 .. 4 /\ p[4][1] /\ p[4][2] = weak
    OBVIOUS
  <2>2. /\ p[1][1] = (r.device.headless.rating > 0 \/ IframeStuck(r) \/ HardResidue(cdp))
        /\ p[2][1] = (Burst(cdp) \/ TimingScore(r) = 75 \/ cdp.soft # {} \/ PristineCompromised(r))
        /\ p[3][1] = (ProxyTrap(cdp) \/ TimingScore(r) = 60)
    OBVIOUS
  <2> HIDE DEF p, weak, cdp
  <2>3. /\ ~(r.device.headless.rating > 0) /\ ~(TimingScore(r) = 75) /\ ~(TimingScore(r) = 60)
        /\ ~HardResidue(cdp) /\ ~(cdp.soft # {}) /\ ~ProxyTrap(cdp) /\ ~Burst(cdp)
    BY <1>2, <1>3
  <2> QED
    BY <1>3, <2>1, <2>2, <2>3, Zenon
<1> HIDE DEF p, weak
<1>7. Automation(r) \in 0 .. 25
  BY <1>4, <1>5, <1>6, OneOfFour
<1>8. PICK a \in 0 .. 25 : a = Automation(r)
  BY <1>7
<1>9. Min({a, 25}) = a
  <2>1. a \in {a, 25} /\ {a, 25} \subseteq Nat /\ \A x \in {a, 25} : a <= x
    OBVIOUS
  <2> QED
    BY <2>1, MinOf
<1> QED
  BY <1>8, <1>9 DEF ApplyPat

\* What the analyses are told of a line: the TCP probe's address is that of
\* the request, or nothing the probe saw is told.
Told(x, line) ==
  /\ x.api = line.api /\ x.tls = line.tls /\ x.asn = line.asn
  /\ x.webrtc = line.webrtc /\ x.status = line.status /\ x.webrtcBlock = line.webrtcBlock
  /\ \/ x.tcp = line.source /\ x.rtt = line.rtt /\ x.rcvRtt = line.rcvRtt /\ x.mss = line.mss
     \/ x.tcp = None /\ x.rtt = 0 /\ x.rcvRtt = 0 /\ x.mss = 0

LEMMA HonestLineIsNoThreat ==
  ASSUME NEW line, HonestLine(line), NEW x, Told(x, line)
  PROVE  ThreatScore(WaterfallRule(x)) = 0
<1>1. /\ line.rtt \in Nat /\ line.rcvRtt \in Nat /\ line.source # None
      /\ line.status \notin {"forgery", "parse_fail"}
      /\ WebrtcIp(line) = line.source \/ 100 * line.rcvRtt <= 150 * line.rtt
  BY DEF HonestLine
<1>2. WebrtcIp(x) = WebrtcIp(line) /\ x.status = line.status
  BY DEF Told, WebrtcIp
<1> DEFINE ip == WebrtcIp(x)
           both == ip # None /\ x.tcp # None
           p == <<
             <<x.status \in {"forgery", "parse_fail"}, 0>>,
             <<both /\ ip = x.tcp, 1>>,
             <<both /\ RatioAtMost(x, 105), 2>>,
             <<both /\ Same24(ip, x.tcp) /\ (RatioKnown(x) => RatioBelow(x, 300)), 3>>,
             <<both /\ Same16(ip, x.tcp) /\ RatioBelow(x, 200), 4>>,
             <<both /\ RatioKnown(x) /\ ~RatioBelow(x, 200), 5>>,
             <<x.status = "no_candidates" /\ RatioKnown(x) /\ ~RatioAtMost(x, 250), 6>>,
             <<x.status = "no_candidates" /\ RatioKnown(x) /\ ~RatioAtMost(x, 150), 7>>,
             <<TRUE, 8>>>>
<1>3. WaterfallRule(x) = OneOf(p)
  BY DEF WaterfallRule
<1>4. DOMAIN p = 1 .. 9
  OBVIOUS
<1>5. /\ p[1][1] = (x.status \in {"forgery", "parse_fail"})
      /\ p[2][1] = (both /\ ip = x.tcp)
      /\ p[6][1] = (both /\ RatioKnown(x) /\ ~RatioBelow(x, 200))
      /\ p[7][1] = (x.status = "no_candidates" /\ RatioKnown(x) /\ ~RatioAtMost(x, 250))
      /\ p[8][1] = (x.status = "no_candidates" /\ RatioKnown(x) /\ ~RatioAtMost(x, 150))
      /\ p[9][1]
  OBVIOUS
<1>6. /\ p[2][2] = 1 /\ p[3][2] = 2 /\ p[4][2] = 3 /\ p[5][2] = 4 /\ p[9][2] = 8
  OBVIOUS
<1> HIDE DEF p
<1>7. ~p[1][1]
  BY <1>1, <1>2, <1>5
<1>8. CASE p[2][1]
  <2>1. PICK n, k : n = 9 /\ n \in Nat /\ k = 2 /\ k \in 1 .. n
    OBVIOUS
  <2>2. \A i \in 1 .. k - 1 : ~p[i][1]
    BY <1>7, <2>1
  <2>3. OneOf(p) = 1
    BY <1>4, <1>6, <1>8, <2>1, <2>2, FirstHit
  <2> QED
    BY <1>3, <2>3 DEF ThreatScore
<1>9. CASE ~p[2][1]
  <2>1. RatioKnown(x) => \/ RatioBelow(x, 200) /\ RatioAtMost(x, 250) /\ RatioAtMost(x, 150)
                         \/ ip = line.source /\ x.tcp = line.source
    BY <1>1, <1>2 DEF Told, RatioKnown, RatioBelow, RatioAtMost
  <2>2. ~(ip = line.source /\ x.tcp = line.source)
    BY <1>1, <1>5, <1>9
  <2>3. ~p[6][1] /\ ~p[7][1] /\ ~p[8][1]
    BY <1>5, <2>1, <2>2
  <2>4. PICK n, k : n = 9 /\ n \in Nat /\ k = 9 /\ k \in 1 .. n
    OBVIOUS
  <2>5. PICK i \in 1 .. n : p[i][1] /\ OneOf(p) = p[i][2]
    BY <1>4, <1>5, <2>4, SomeHit
  <2>6. i \in {3, 4, 5, 9}
    BY <1>7, <1>9, <2>3, <2>4, <2>5
  <2>7. OneOf(p) \in {2, 3, 4, 8}
    BY <1>6, <2>5, <2>6
  <2> QED
    BY <1>3, <2>7 DEF ThreatScore
<1> QED
  BY <1>8, <1>9

\* Of three numbers the greatest.
LEMMA MaxOfThree ==
  ASSUME NEW a \in Nat, NEW b \in Nat, NEW S, S = {a, 0, b}
  PROVE  Max(S) = IF a >= b THEN a ELSE b
<1> DEFINE m == IF a >= b THEN a ELSE b
<1>1. m \in S /\ \A y \in S : m >= y
  OBVIOUS
<1>2. ASSUME NEW x \in S, \A y \in S : x >= y PROVE x = m
  BY <1>2
<1>3. Max(S) \in S /\ \A y \in S : Max(S) >= y
  BY <1>1 DEF Max
<1> QED
  BY <1>2, <1>3

\* A privacy relay is half a VPN, nobody else on an honest line is one.
LEMMA HonestLineIsNoVpn ==
  ASSUME NEW line, HonestLine(line), NEW x, Told(x, line)
  PROVE  /\ CategorySeverity(Known(AsnCatalog, x.asn)) \in {0, 15}
         /\ Category(x) = Category(line)
         /\ VpnScore(NetworkAnalysis(x)) = IF Category(x) = "privacy_relay" THEN 50 ELSE 0
<1>1. Known(AsnCatalog, x.asn) \notin {"datacenter", "vpn_proxy"}
  BY DEF HonestLine, Told
<1>2. Category(x) \notin {"datacenter", "vpn_proxy"} /\ Category(x) = Category(line)
  BY <1>1 DEF Category, Known, Told
<1>3. CategorySeverity(Known(AsnCatalog, x.asn)) \in {0, 15}
  BY <1>1 DEF CategorySeverity
<1> DEFINE block == NetworkBlock(x, Category(x))
<1>4. /\ NetworkAnalysis(x).network = block
      /\ Shielded(NetworkAnalysis(x)) <=> Category(x) = "corporate_proxy"
  <2>1. IpBlock(x).category = Category(x)
    BY DEF IpBlock
  <2> QED
    BY <2>1 DEF NetworkAnalysis, Shielded
<1>5. CASE Category(x) # "privacy_relay"
  <2>1. block.signals = <<>>
    BY <1>2, <1>5 DEF NetworkBlock, Signal
  <2> QED
    BY <1>2, <1>3, <1>4, <1>5, <2>1 DEF VpnScore
<1>6. CASE Category(x) = "privacy_relay"
  <2>1. PICK m \in 0 .. 50 : m = MssComponent(x)
    <3>1. MssComponent(line) \in 0 .. 50
      BY <1>2, <1>6 DEF HonestLine
    <3>2. x.mss = line.mss => MssComponent(x) = MssComponent(line)
      BY DEF MssComponent
    <3>3. x.mss = 0 => MssComponent(x) = 0
      BY DEF MssComponent
    <3> QED
      BY <3>1, <3>2, <3>3 DEF Told
  <2>2. block.vpn = Max({50, m}) /\ block.signals = Signal("CATEGORY_PRIVACY_RELAY", 50)
    BY <1>6, <2>1 DEF NetworkBlock
  <2>3. Max({50, m}) = 50
    <3>1. 50 \in {50, m} /\ \A y \in {50, m} : 50 >= y
      OBVIOUS
    <3>2. ASSUME NEW v \in {50, m}, \A y \in {50, m} : v >= y PROVE v = 50
      BY <3>2
    <3>3. Max({50, m}) \in {50, m} /\ \A y \in {50, m} : Max({50, m}) >= y
      BY <3>1 DEF Max
    <3> QED
      BY <3>2, <3>3
  <2>4. block.signals # <<>>
    BY <2>2 DEF Signal
  <2> QED
    BY <1>2, <1>3, <1>4, <1>6, <2>2, <2>3, <2>4 DEF VpnScore
<1> QED
  BY <1>5, <1>6

\* No rule covers an address that is not there.
LEMMA NoRuleForNone == ByCidr(None) = None
<1>1. Known(HandOverlay, None) = None /\ Known(AutoOverlay, None) = None
  BY OverlayAssumption DEF Known
<1> DEFINE p == <<Known(HandOverlay, None), Known(AutoOverlay, None)>>
<1>2. PICK n \in Nat : n = 2
  OBVIOUS
<1>3. DOMAIN p = 1 .. n /\ \A i \in 1 .. n : p[i] = None
  BY <1>1, <1>2
<1>4. ByCidr(None) = FirstOf(p)
  BY DEF ByCidr
<1> HIDE DEF p
<1> QED
  BY <1>3, <1>4, FirstOfAmong

\* All that is known of a carrier's line is that it is a carrier's.
LEMMA ClassOfCarrier ==
  ASSUME NEW line, NEW x, Told(x, line), NEW class \in {ByDataset(line.asn), ByCatalog(line.asn)},
         LET ips == {line.source, line.api, line.tls} \ {None}
         IN {ByDataset(line.asn), ByCatalog(line.asn)}
              \cup {ByCidr(ip) : ip \in ips \cup {WebrtcIp(line)}} \subseteq {None, class}
  PROVE  NetworkClass(x) = class
<1>1. WebrtcIp(x) = WebrtcIp(line)
  BY DEF Told, WebrtcIp
<1> DEFINE q == <<x.tcp, x.tls, x.api, WebrtcIp(x)>>
           first == FirstOf(q)
           p == <<ByCidr(first), ByDataset(x.asn), ByCidr(x.tcp), ByCidr(x.tls),
                  ByCidr(x.api), ByCidr(WebrtcIp(x)), ByCatalog(x.asn)>>
<1>2. \A ip \in {x.tcp, x.tls, x.api, WebrtcIp(x)} : ByCidr(ip) \in {None, class}
  BY <1>1, NoRuleForNone DEF Told
<1>3. first \in {x.tcp, x.tls, x.api, WebrtcIp(x), None}
  <2>1. PICK n \in Nat : n = 4
    OBVIOUS
  <2>2. DOMAIN q = 1 .. n /\ \A i \in 1 .. n : q[i] \in {x.tcp, x.tls, x.api, WebrtcIp(x)}
    BY <2>1
  <2> HIDE DEF q
  <2> QED
    BY <2>2, FirstOfAmong
<1>4. ByCidr(first) \in {None, class}
  BY <1>2, <1>3, NoRuleForNone
<1>5. x.asn = line.asn
  BY DEF Told
<1> HIDE DEF first
<1>6. PICK n \in Nat : n = 7
  OBVIOUS
<1>7. DOMAIN p = 1 .. n /\ \A i \in 1 .. n : p[i] \in {None, class}
  <2>1. /\ p[1] \in {None, class} /\ p[2] \in {None, class} /\ p[3] \in {None, class}
        /\ p[4] \in {None, class} /\ p[5] \in {None, class} /\ p[6] \in {None, class}
        /\ p[7] \in {None, class}
    BY <1>2, <1>4, <1>5
  <2>2. DOMAIN p = 1 .. n
    BY <1>6
  <2> HIDE DEF p
  <2> QED
    BY <1>6, <2>1, <2>2
<1>8. p[2] = class \/ p[7] = class
  BY <1>5
<1>9. NetworkClass(x) = FirstOf(p)
  BY DEF NetworkClass, first
<1> HIDE DEF p
<1>10. 2 \in 1 .. n /\ 7 \in 1 .. n
  BY <1>6
<1> QED
  BY <1>7, <1>8, <1>9, <1>10, FirstOfAmong

LEMMA ExtremesOfThree ==
  ASSUME NEW a \in Int, NEW b \in Int, NEW c \in Int, NEW S, S \subseteq {a, b, c}, S # {}
  PROVE  Max(S) \in S /\ Min(S) \in S
<1> DEFINE most(x) == x \in S /\ (a \in S => x >= a) /\ (b \in S => x >= b) /\ (c \in S => x >= c)
           least(x) == x \in S /\ (a \in S => x <= a) /\ (b \in S => x <= b) /\ (c \in S => x <= c)
<1>1. a \in S \/ b \in S \/ c \in S
  OBVIOUS
<1>2. (most(a) \/ most(b) \/ most(c)) /\ (least(a) \/ least(b) \/ least(c))
  BY <1>1
<1>3. (\E x \in S : \A y \in S : x >= y) /\ (\E x \in S : \A y \in S : x <= y)
  <2>1. \A y \in S : y = a \/ y = b \/ y = c
    OBVIOUS
  <2> QED
    BY <1>2, <2>1
<1> QED
  BY <1>3 DEF Max, Min

LEMMA PoolIsNoScatter ==
  ASSUME NEW line, HonestLine(line), NEW x, Told(x, line),
         LET ips == {line.source, line.api, line.tls} \ {None}
         IN \A a, b \in ips : a = b \/ (IsV4(a) /\ IsV4(b) /\ a - b < 256)
  PROVE  ProbeScatter(x) = 0
<1> DEFINE ips == ProbeIps(x)
<1>1. ips \subseteq {line.source, line.api, line.tls} \ {None}
  BY DEF ProbeIps, Told
<1>2. ips \subseteq Int
  BY <1>1 DEF HonestLine
<1>3. \A a, b \in ips : a = b \/ (IsV4(a) /\ IsV4(b) /\ a - b < 256)
  <2> HIDE DEF ips
  <2> QED
    BY <1>1
<1>4. \E a, b, c \in Int : ips \subseteq {a, b, c}
  <2>1. ips \subseteq {line.source, line.api, line.tls}
    BY <1>1
  <2>2. ASSUME NEW v PROVE v \in Int \/ v \notin ips
    BY <1>2
  <2> DEFINE a == IF line.source \in ips THEN line.source ELSE 0
             b == IF line.api \in ips THEN line.api ELSE 0
             c == IF line.tls \in ips THEN line.tls ELSE 0
  <2>3. a \in Int /\ b \in Int /\ c \in Int
    BY <1>2
  <2>4. ips \subseteq {a, b, c}
    <3> HIDE DEF ips
    <3> QED
      BY <2>1
  <2> HIDE DEF a, b, c
  <2> QED
    BY <2>3, <2>4
<1> HIDE DEF ips
<1>5. CASE ips = {}
  BY <1>5, FS_EmptySet DEF ProbeScatter, ips
<1>6. CASE ips # {} /\ \A a, b \in ips : a = b
  <2>1. PICK a : ips = {a}
    BY <1>6
  <2>2. Cardinality(ips) = 1
    BY <2>1, FS_Singleton
  <2> QED
    BY <2>2 DEF ProbeScatter, ips
<1>7. CASE \E a, b \in ips : a # b
  <2>1. \A a \in ips : IsV4(a)
    BY <1>3, <1>7
  <2>2. Max(ips) \in ips /\ Min(ips) \in ips
    <3>1. PICK a \in Int, b \in Int, c \in Int : ips \subseteq {a, b, c}
      BY <1>4
    <3>2. ips # {}
      BY <1>7
    <3> QED
      BY <3>1, <3>2, ExtremesOfThree
  <2>3. Max(ips) - Min(ips) < 256
    <3>1. PICK a, b : a = Max(ips) /\ b = Min(ips) /\ a \in ips /\ b \in ips
      BY <2>2
    <3>2. a \in Int /\ b \in Int
      BY <1>2, <3>1
    <3>3. a - b < 256
      BY <1>3, <3>1, <3>2
    <3> QED
      BY <3>1, <3>3
  <2> QED
    BY <2>1, <2>3 DEF ProbeScatter, ips
<1> QED
  BY <1>5, <1>6, <1>7

\* Signals that a scatter penalty is small for, if it counts them at all.
IpCodes ==
  {"IP_PROBE_SCATTER", "WEBRTC_SIGINT_FORGERY", "WEBRTC_BLOCKED", "SAME_SUBNET_CGNAT",
   "WEBRTC_IP_MISMATCH"}
Mild == {s \in [code : IpCodes, severity : Int] :
           s.code = "IP_PROBE_SCATTER" => s.severity \in 0 .. 29}

LEMMA MildSignal ==
  ASSUME NEW code \in IpCodes, NEW severity \in Int,
         code = "IP_PROBE_SCATTER" => severity \in 0 .. 29
  PROVE  Signal(code, severity) \in Seq(Mild)
<1>1. [code |-> code, severity |-> severity] \in Mild
  BY DEF Mild
<1> DEFINE s == [code |-> code, severity |-> severity]
<1> HIDE DEF s
<1>2. <<s>> \in Seq(Mild) /\ <<>> \in Seq(Mild)
  BY <1>1 DEF s
<1> QED
  BY <1>2 DEF Signal, s

LEMMA SignalsAreSequences ==
  ASSUME NEW x, NEW s
  PROVE  \E S : /\ <<s>> \in Seq(S) /\ WebrtcSignals(x) \in Seq(S)
                /\ Signal("IP_PROBE_SCATTER", CategorySeverity(Known(AsnCatalog, x.asn))) \in Seq(S)
<1> DEFINE signals == [code : IpCodes, severity : Int]
           all == signals \cup {s}
<1>1. ASSUME NEW code \in IpCodes, NEW severity \in Int PROVE Signal(code, severity) \in Seq(all)
  <2>1. [code |-> code, severity |-> severity] \in all
    OBVIOUS
  <2> HIDE DEF all
  <2> QED
    BY <2>1 DEF Signal
<1>2. <<s>> \in Seq(all) /\ <<>> \in Seq(all)
  <2>1. s \in all
    OBVIOUS
  <2> HIDE DEF all
  <2> QED
    BY <2>1
<1> HIDE DEF all
<1>3. CategorySeverity(Known(AsnCatalog, x.asn)) \in Int
  BY DEF CategorySeverity
<1>4. WebrtcVsProbes(x) \in Seq(all)
  <2>1. Signal("SAME_SUBNET_CGNAT", 10) \in Seq(all) /\ Signal("WEBRTC_IP_MISMATCH", 70) \in Seq(all)
    BY <1>1 DEF IpCodes
  <2> QED
    BY <1>2, <2>1 DEF WebrtcVsProbes
<1>5. WebrtcSignals(x) \in Seq(all)
  <2> DEFINE forgery == Signal("WEBRTC_SIGINT_FORGERY", IF Forged(x) THEN 90 ELSE 0)
             blocked == Signal("WEBRTC_BLOCKED", IF x.webrtcBlock THEN 0 ELSE 20)
  <2>1. forgery \in Seq(all)
    <3>1. (IF Forged(x) THEN 90 ELSE 0) \in Int
      OBVIOUS
    <3> QED
      BY <1>1, <3>1 DEF IpCodes
  <2>2. blocked \in Seq(all)
    <3>1. (IF x.webrtcBlock THEN 0 ELSE 20) \in Int
      OBVIOUS
    <3> QED
      BY <1>1, <3>1 DEF IpCodes
  <2>3. WebrtcSignals(x) = forgery \o IF WebrtcIp(x) # None THEN WebrtcVsProbes(x) ELSE blocked
    BY DEF WebrtcSignals
  <2> HIDE DEF forgery, blocked
  <2> QED
    BY <1>4, <2>1, <2>2, <2>3
<1>6. Signal("IP_PROBE_SCATTER", CategorySeverity(Known(AsnCatalog, x.asn))) \in Seq(all)
  BY <1>1, <1>3 DEF IpCodes
<1> QED
  BY <1>2, <1>5, <1>6

LEMMA HonestLineIsMild ==
  ASSUME NEW x, ProbeScatter(x) = 0, CategorySeverity(Known(AsnCatalog, x.asn)) \in {0, 15}
  PROVE  IpSignals(x) \in Seq(Mild)
<1> DEFINE probes == Signal("IP_PROBE_SCATTER", ProbeScatter(x))
           category == Signal("IP_PROBE_SCATTER", CategorySeverity(Known(AsnCatalog, x.asn)))
           forgery == Signal("WEBRTC_SIGINT_FORGERY", IF Forged(x) THEN 90 ELSE 0)
           blocked == Signal("WEBRTC_BLOCKED", IF x.webrtcBlock THEN 0 ELSE 20)
<1>1. ASSUME NEW severity \in 0 .. 29 PROVE Signal("IP_PROBE_SCATTER", severity) \in Seq(Mild)
  <2>1. PICK code \in IpCodes : code = "IP_PROBE_SCATTER"
    BY DEF IpCodes
  <2>2. Signal(code, severity) \in Seq(Mild)
    BY MildSignal
  <2> QED
    BY <2>1, <2>2
<1>2. probes \in Seq(Mild) /\ category \in Seq(Mild)
  <2>1. ProbeScatter(x) \in 0 .. 29 /\ CategorySeverity(Known(AsnCatalog, x.asn)) \in 0 .. 29
    OBVIOUS
  <2> QED
    BY <1>1, <2>1
<1>3. ASSUME NEW code \in IpCodes \ {"IP_PROBE_SCATTER"}, NEW severity \in Int
      PROVE  Signal(code, severity) \in Seq(Mild)
  BY MildSignal
<1>4. forgery \in Seq(Mild) /\ blocked \in Seq(Mild)
  <2>1. (IF Forged(x) THEN 90 ELSE 0) \in Int /\ (IF x.webrtcBlock THEN 0 ELSE 20) \in Int
    OBVIOUS
  <2> QED
    BY <1>3, <2>1 DEF IpCodes
<1>5. WebrtcVsProbes(x) \in Seq(Mild)
  <2>1. Signal("SAME_SUBNET_CGNAT", 10) \in Seq(Mild) /\ Signal("WEBRTC_IP_MISMATCH", 70) \in Seq(Mild)
    BY <1>3 DEF IpCodes
  <2>2. <<>> \in Seq(Mild)
    OBVIOUS
  <2> QED
    BY <2>1, <2>2 DEF WebrtcVsProbes
<1>6. WebrtcSignals(x) = forgery \o IF WebrtcIp(x) # None THEN WebrtcVsProbes(x) ELSE blocked
  BY DEF WebrtcSignals
<1>7. IpSignals(x) = probes \o WebrtcSignals(x) \o category
  BY DEF IpSignals
<1> HIDE DEF probes, category, forgery, blocked
<1>8. WebrtcSignals(x) \in Seq(Mild)
  BY <1>4, <1>5, <1>6
<1> QED
  BY <1>2, <1>7, <1>8

LEMMA MildPenalty ==
  ASSUME NEW blocks, blocks.ip.signals \in Seq(Mild)
  PROVE  ScatterPenalty(blocks) \in 0 .. 29
<1> DEFINE signals == blocks.ip.signals
           cost(s) == IF s.code = "IP_PROBE_SCATTER" THEN s.severity ELSE None
           costs == [i \in DOMAIN signals |-> cost(signals[i])]
<1>1. PICK n \in Nat : n = Len(signals) /\ DOMAIN signals = 1 .. n
  OBVIOUS
<1>2. ASSUME NEW s \in Mild PROVE cost(s) = None \/ cost(s) \in 0 .. 29
  BY DEF Mild
<1>3. ASSUME NEW i \in 1 .. n PROVE costs[i] = None \/ costs[i] \in 0 .. 29
  <2>1. signals[i] \in Mild
    BY <1>1
  <2>2. costs[i] = cost(signals[i])
    BY <1>1
  <2> HIDE DEF cost, costs, signals
  <2> QED
    BY <1>2, <2>1, <2>2
<1>4. DOMAIN costs = 1 .. n
  BY <1>1
<1>5. ScatterPenalty(blocks) =
        IF blocks.ip.networkClass \in {"mobile", "security_filter"} \/ FirstOf(costs) = None
        THEN 0 ELSE FirstOf(costs)
  BY DEF ScatterPenalty
<1> HIDE DEF costs
<1>6. FirstOf(costs) = None \/ FirstOf(costs) \in 0 .. 29
  BY <1>3, <1>4, FirstOfAmong
<1> QED
  BY <1>5, <1>6

\* An address of either family among those that the probes saw.
BothFamilies(x) == \E a, b \in ProbeIps(x) : IsV4(a) /\ ~IsV4(b)

LEMMA OneOfEither ==
  ASSUME NEW line, HonestLine(line), NEW x, Told(x, line), NEW a, NEW b,
         IsV4(a), ~IsV4(b), {line.source, line.api, line.tls} \ {None} = {a, b}
  PROVE  ProbeScatter(x) = IF BothFamilies(x) THEN 60 ELSE 0
<1> DEFINE ips == ProbeIps(x)
<1>1. ips \subseteq {a, b} /\ a # b
  BY DEF ProbeIps, Told
<1> HIDE DEF ips
<1>2. CASE a \in ips /\ b \in ips
  <2>1. ips = {a, b} /\ Cardinality({a}) = 1 /\ b \notin {a}
    BY <1>1, <1>2, FS_Singleton
  <2>2. Cardinality({a} \cup {b}) = 1 + 1
    BY <2>1, FS_Singleton, FS_AddElement
  <2>3. {a} \cup {b} = ips
    BY <2>1
  <2>4. Cardinality(ips) = 2
    BY <2>2, <2>3
  <2>5. BothFamilies(x)
    BY <1>2 DEF BothFamilies, ips
  <2> QED
    BY <1>2, <2>4, <2>5 DEF ProbeScatter, ips
<1>3. CASE ~(a \in ips /\ b \in ips)
  <2>1. ips = {} \/ ips = {a} \/ ips = {b}
    BY <1>1, <1>3
  <2>2. Cardinality({}) = 0 /\ Cardinality({a}) = 1 /\ Cardinality({b}) = 1
    BY FS_EmptySet, FS_Singleton
  <2>3. Cardinality(ips) <= 1
    <3>1. CASE ips = {}
      BY <2>2, <3>1
    <3>2. CASE ips = {a}
      BY <2>2, <3>2
    <3>3. CASE ips = {b}
      BY <2>2, <3>3
    <3> QED
      BY <2>1, <3>1, <3>2, <3>3
  <2>4. ~BothFamilies(x)
    BY <1>1, <1>3 DEF BothFamilies, ips
  <2> QED
    BY <2>3, <2>4 DEF ProbeScatter, ips
<1> QED
  BY <1>2, <1>3

\* The first signal of such a line is the scatter of its probes.
LEMMA ScatterPenaltyOfSixty ==
  ASSUME NEW x, ProbeScatter(x) = 60, NEW blocks, blocks.ip.signals = IpSignals(x)
  PROVE  ScatterPenalty(blocks) =
           IF blocks.ip.networkClass \in {"mobile", "security_filter"} THEN 0 ELSE 60
<1> DEFINE s == [code |-> "IP_PROBE_SCATTER", severity |-> 60]
           signals == IpSignals(x)
           cost(v) == IF v.code = "IP_PROBE_SCATTER" THEN v.severity ELSE None
           costs == [i \in DOMAIN signals |-> cost(signals[i])]
<1>1. Len(signals) >= 1 /\ signals[1] = s /\ DOMAIN signals = 1 .. Len(signals)
  <2> DEFINE rest == WebrtcSignals(x)
             category == Signal("IP_PROBE_SCATTER", CategorySeverity(Known(AsnCatalog, x.asn)))
  <2>1. signals = <<s>> \o rest \o category
    BY DEF IpSignals, Signal
  <2>2. \E S : <<s>> \in Seq(S) /\ rest \in Seq(S) /\ category \in Seq(S)
    BY SignalsAreSequences
  <2> HIDE DEF s, rest, category, signals
  <2>3. PICK S : <<s>> \in Seq(S) /\ rest \in Seq(S) /\ category \in Seq(S)
    BY <2>2
  <2> QED
    BY <2>1, <2>3
<1> HIDE DEF signals
<1>2. costs[1] = 60 /\ 1 \in DOMAIN costs /\ DOMAIN costs \subseteq Nat
  BY <1>1
<1>3. FirstOf(costs) = 60
  <2> DEFINE known == {i \in DOMAIN costs : costs[i] # None}
  <2>1. 60 # None
    BY NoneAssumption
  <2>2. known \subseteq Nat /\ 1 \in known /\ \A i \in known : 1 <= i
    BY <1>1, <1>2, <2>1
  <2>3. Min(known) = 1
    <3> HIDE DEF known
    <3> QED
      BY <2>2, MinOf
  <2> HIDE DEF costs
  <2> QED
    BY <1>2, <2>2, <2>3 DEF FirstOf
<1>4. ScatterPenalty(blocks) =
        IF blocks.ip.networkClass \in {"mobile", "security_filter"} \/ FirstOf(costs) = None
        THEN 0 ELSE FirstOf(costs)
  BY DEF ScatterPenalty, signals
<1> QED
  BY <1>3, <1>4, NoneAssumption

LEMMA HonestLineIsJudged ==
  ASSUME NEW line, HonestLine(line), NEW x, Told(x, line), NEW r, r.net = NetworkAnalysis(x)
  PROVE  NetworkTampering(r.net) \in IF LineDoubted(line, r) THEN 30 .. 69 ELSE 0 .. 29
<1> DEFINE blocks == NetworkAnalysis(x)
           penalty == ScatterPenalty(blocks)
           excused == NetworkClass(x) \in {"mobile", "security_filter"}
<1>1. /\ blocks.threat = 0
      /\ VpnScore(blocks) = IF Category(x) = "privacy_relay" THEN 50 ELSE 0
      /\ CategorySeverity(Known(AsnCatalog, x.asn)) \in {0, 15}
  BY HonestLineIsNoThreat, HonestLineIsNoVpn DEF NetworkAnalysis
<1>2. /\ blocks.ip.signals = IpSignals(x) /\ blocks.ip.networkClass = NetworkClass(x)
      /\ blocks.ip.category = Category(x) /\ blocks.ip.ips.tcp = x.tcp
  BY DEF NetworkAnalysis, IpBlock
<1> HIDE DEF blocks
<1>3. LineDoubted(line, r) <=> Category(x) = "privacy_relay" \/ (~excused /\ BothFamilies(x))
  <2>1. ProbeIps(x) = {line.api, line.tls, r.net.ip.ips.tcp} \ {None}
    BY <1>2 DEF ProbeIps, Told, blocks
  <2> QED
    BY <1>2, <2>1 DEF LineDoubted, BothFamilies, blocks
<1>4. IF ~excused /\ BothFamilies(x) THEN penalty = 60 ELSE penalty \in 0 .. 29
  <2> DEFINE ips == {line.source, line.api, line.tls} \ {None}
             ofAsn == {ByDataset(line.asn), ByCatalog(line.asn)}
             classes == ofAsn \cup {ByCidr(ip) : ip \in ips \cup {WebrtcIp(line)}}
  <2>1. \/ \A a, b \in ips : a = b \/ (IsV4(a) /\ IsV4(b) /\ a - b < 256)
        \/ \E class \in ofAsn \cap {"mobile", "security_filter"} : classes \subseteq {None, class}
        \/ \E a, b \in ips : IsV4(a) /\ ~IsV4(b) /\ ips = {a, b}
    BY DEF HonestLine
  <2>2. ProbeScatter(x) = 0 => penalty \in 0 .. 29
    BY <1>1, <1>2, HonestLineIsMild, MildPenalty
  <2>3. excused => penalty \in 0 .. 29
    BY <1>2 DEF ScatterPenalty
  <2>4. ProbeIps(x) \subseteq ips
    BY DEF ProbeIps, Told
  <2>5. CASE \A a, b \in ips : a = b \/ (IsV4(a) /\ IsV4(b) /\ a - b < 256)
    <3>1. ProbeScatter(x) = 0
      BY <2>5, PoolIsNoScatter
    <3>2. ~BothFamilies(x)
      BY <2>4, <2>5 DEF BothFamilies
    <3> QED
      BY <2>2, <3>1, <3>2
  <2>6. CASE \E class \in ofAsn \cap {"mobile", "security_filter"} : classes \subseteq {None, class}
    <3>1. PICK class \in ofAsn \cap {"mobile", "security_filter"} : classes \subseteq {None, class}
      BY <2>6
    <3>2. NetworkClass(x) = class
      BY <3>1, ClassOfCarrier
    <3> QED
      BY <2>3, <3>1, <3>2
  <2>7. CASE \E a, b \in ips : IsV4(a) /\ ~IsV4(b) /\ ips = {a, b}
    <3>1. ProbeScatter(x) = IF BothFamilies(x) THEN 60 ELSE 0
      BY <2>7, OneOfEither
    <3>2. ProbeScatter(x) = 60 /\ ~excused => penalty = 60
      BY <1>2, ScatterPenaltyOfSixty
    <3> QED
      BY <2>2, <2>3, <3>1, <3>2
  <2> QED
    BY <2>1, <2>5, <2>6, <2>7
<1>5. PICK vpn \in {0, 50} : vpn = Round5(VpnScore(blocks)) /\ (vpn = 50 <=> Category(x) = "privacy_relay")
  <2>1. Round5(0) = 0 /\ Round5(50) = 50
    BY RoundFive DEF Round5
  <2> QED
    BY <1>1, <2>1
<1>6. PICK cost \in Nat : cost = penalty
  BY <1>4
<1>7. NetworkTampering(blocks) = IF vpn >= cost THEN vpn ELSE cost
  <2>1. {Round5(VpnScore(blocks)), blocks.threat, penalty} = {vpn, 0, cost}
    BY <1>1, <1>5, <1>6
  <2>2. PICK S : S = {vpn, 0, cost}
    OBVIOUS
  <2>3. Max(S) = IF vpn >= cost THEN vpn ELSE cost
    BY <2>2, MaxOfThree
  <2> QED
    BY <2>1, <2>2, <2>3 DEF NetworkTampering
<1> HIDE DEF penalty, excused
<1> QED
  BY <1>3, <1>4, <1>5, <1>6, <1>7 DEF blocks

-----------------------------------------------------------------------------
(* An untouched scan, from the device to the merchant.                     *)

\* What a device composes, before anything is tampered with.
Fresh(key, honest, product) ==
  [product |-> product, device |-> honest.device, line |-> honest.line,
   sent |-> honest.sent, pat |-> honest.pat, key |-> key, session |-> "own",
   hashes |-> "own", identity |-> None, mac |-> None, sealed |-> FALSE, touched |-> {}]

Untouched ==
  (scan # None \/ record # None) /\ scan.touched = {} =>
    \E key \in Keys, honest \in HonestScans, product \in Products :
      LET fresh == Fresh(key, honest, product)
      IN /\ scan \in {fresh, SealedBySdk(fresh)}
         /\ record # None => scan = SealedBySdk(fresh)

\* The SDK seals once, and touches nothing.
LEMMA SealedOnce ==
  ASSUME NEW s, Submission(s)
  PROVE  /\ SealedBySdk(s).touched = s.touched
         /\ SealedBySdk(SealedBySdk(s)) = SealedBySdk(s)
<1> DEFINE id == IF s.key = None THEN None
                 ELSE [pubkey |-> s.key, sig |-> [by |-> s.key, over |-> SignedInput(s)]]
           signed == [s EXCEPT !.identity = id]
           mac == ComputeMac(signed)
           sealed == [signed EXCEPT !.mac = mac, !.sealed = TRUE]
<1>1. SealedBySdk(s) = IF s.sealed THEN s ELSE sealed
  BY DEF SealedBySdk
<1> HIDE DEF id, mac
<1>2. sealed.sealed /\ sealed.touched = s.touched
  BY DEF Submission, ScanFields
<1> HIDE DEF sealed
<1>3. \A x : x.sealed => SealedBySdk(x) = x
  BY DEF SealedBySdk
<1> QED
  BY <1>1, <1>2, <1>3

LEMMA UntouchedStep == Composed /\ Untouched /\ [Next]_vars => Untouched'
<1> SUFFICES ASSUME Composed, Untouched, [Next]_vars PROVE Untouched'
  OBVIOUS
<1>1. ASSUME NEW key \in Keys, NEW honest \in HonestScans, NEW product \in Products,
             Compose(key, honest, product)
      PROVE  Untouched'
  <2>1. scan' = Fresh(key, honest, product) /\ record' = None
    BY <1>1 DEF Compose, Fresh
  <2> QED
    BY <2>1 DEF Untouched
<1>2. ASSUME NEW s, Submission(s), NEW t \in Tamperings \cup Alterations, Change(s, t)
      PROVE  Untouched'
  <2>1. PICK p : p = Put(s, t) /\ Submission(p)
    <3>1. Submission(Put(s, t))
      BY <1>2, PutKeeps
    <3> QED
      BY <3>1
  <2>2. scan' = [p EXCEPT !.touched = @ \cup {t.path}]
    BY <1>2, <2>1 DEF Change
  <2>3. "touched" \in DOMAIN p
    BY <2>1 DEF Submission, ScanFields
  <2>4. t.path \in scan'.touched
    BY <2>2, <2>3
  <2> QED
    BY <2>4 DEF Untouched
<1>3. ASSUME NEW t \in Tamperings, Tamper(t) PROVE Untouched'
  BY <1>2, <1>3 DEF Tamper, Composed
<1>4. ASSUME NEW t \in Alterations, Alter(t) PROVE Untouched'
  BY <1>2, <1>4, SealKeeps DEF Alter, Composed
<1>5. ASSUME NEW blob, Submit(blob) PROVE Untouched'
  <2>1. scan # None /\ scan' = SealedBySdk(scan) /\ Submission(scan)
    BY <1>5 DEF Submit, Composed
  <2> SUFFICES ASSUME scan'.touched = {} PROVE Untouched'
    BY DEF Untouched
  <2>2. scan.touched = {}
    BY <2>1, SealedOnce
  <2>3. PICK key \in Keys, honest \in HonestScans, product \in Products :
          scan \in {Fresh(key, honest, product), SealedBySdk(Fresh(key, honest, product))}
    BY <2>1, <2>2 DEF Untouched
  <2>4. PICK fresh : fresh = Fresh(key, honest, product)
    OBVIOUS
  <2>5. scan' = SealedBySdk(fresh)
    <3>1. CASE scan = fresh
      BY <2>1, <3>1
    <3>2. CASE scan = SealedBySdk(fresh)
      <4>1. SealedBySdk(SealedBySdk(fresh)) = SealedBySdk(fresh)
        BY DEF SealedBySdk
      <4> QED
        BY <2>1, <3>2, <4>1
    <3> QED
      BY <2>3, <2>4, <3>1, <3>2
  <2> QED
    BY <2>4, <2>5 DEF Untouched
<1>6. CASE Refuse
  BY <1>6 DEF Refuse, Untouched
<1>7. CASE Read
  BY <1>7 DEF Read, Untouched
<1>8. CASE Deliver
  BY <1>8 DEF Deliver, Finish, Untouched
<1>9. CASE LoseAnswer
  BY <1>9 DEF LoseAnswer, Finish, Untouched
<1>10. CASE UNCHANGED vars
  BY <1>10 DEF vars, Untouched
<1> QED
  BY <1>1, <1>3, <1>4, <1>5, <1>6, <1>7, <1>8, <1>9, <1>10 DEF Next

\* What reaches the analyses of a sealed scan is the device's own.
LEMMA FreshParts ==
  ASSUME NEW key, NEW honest, NEW product, NEW s, s = SealedBySdk(Fresh(key, honest, product))
  PROVE  /\ s.device = honest.device /\ s.line = honest.line /\ s.sent = honest.sent
         /\ s.pat = honest.pat /\ s.hashes = "own"
<1> DEFINE fresh == Fresh(key, honest, product)
           id == IF fresh.key = None THEN None
                 ELSE [pubkey |-> fresh.key, sig |-> [by |-> fresh.key, over |-> SignedInput(fresh)]]
           signed == [fresh EXCEPT !.identity = id]
           mac == ComputeMac(signed)
<1>1. s = [signed EXCEPT !.mac = mac, !.sealed = TRUE]
  BY DEF SealedBySdk, Fresh
<1> HIDE DEF id, mac
<1> QED
  BY <1>1 DEF Fresh

LEMMA FreshIdentity ==
  ASSUME NEW key \in Keys, NEW honest, NEW product, NEW s,
         s = SealedBySdk(Fresh(key, honest, product))
  PROVE  s.identity = [pubkey |-> key, sig |-> [by |-> key, over |-> SignedInput(s)]]
<1> DEFINE fresh == Fresh(key, honest, product)
           id == [pubkey |-> key, sig |-> [by |-> key, over |-> SignedInput(fresh)]]
           signed == [fresh EXCEPT !.identity = id]
           mac == ComputeMac(signed)
<1>1. key # None
  BY HonestAssumption
<1>2. s = [signed EXCEPT !.mac = mac, !.sealed = TRUE]
  BY <1>1 DEF SealedBySdk, Fresh
<1> HIDE DEF id, mac
<1>3. s.identity = id
  BY <1>2 DEF Fresh
<1>4. SignedInput(s) = SignedInput(fresh)
  BY FreshParts DEF SignedInput, Fresh
<1> QED
  BY <1>3, <1>4 DEF id

\* A key that signed is believed, where it is asked at all.
LEMMA FreshIsVerified ==
  ASSUME NEW key \in Keys, NEW honest \in HonestScans, NEW product \in Products,
         NEW s, s = SealedBySdk(Fresh(key, honest, product))
  PROVE  Identity(s).sig => Identity(s).verified
<1>1. CASE s.product = "proxy"
  BY <1>1 DEF Identity, Absent, Outcome
<1>2. CASE s.product # "proxy"
  <2> DEFINE sig == [by |-> key, over |-> SignedInput(s)]
             id == s.identity
             p == <<<<s.sent.h2.top = None, "probe_token_missing">>,
                    <<id.pubkey = Unreadable, "pubkey_invalid">>,
                    <<id.sig # [by |-> id.pubkey, over |-> SignedInput(s)], "sig_invalid">>>>
  <2>1. id = [pubkey |-> key, sig |-> sig] /\ s.sent = honest.sent
    BY FreshParts, FreshIdentity
  <2>2. honest.sent.h2.top # None /\ key # None /\ key # Unreadable
    BY HonestAssumption
  <2>3. id.pubkey = key /\ id.sig = sig
    BY <2>1
  <2>4. OneOf(p) = None
    <3>1. DOMAIN p = {1, 2, 3}
      OBVIOUS
    <3>2. /\ p[1][1] = (s.sent.h2.top = None) /\ p[2][1] = (id.pubkey = Unreadable)
          /\ p[3][1] = (id.sig # [by |-> id.pubkey, over |-> SignedInput(s)])
      OBVIOUS
    <3> HIDE DEF p
    <3>3. ~p[1][1] /\ ~p[2][1] /\ ~p[3][1]
      BY <2>1, <2>2, <2>3, <3>2
    <3>4. {i \in DOMAIN p : p[i][1]} = {}
      BY <3>1, <3>3
    <3> QED
      BY <3>4 DEF OneOf
  <2>5. Identity(s) = VerifyDeviceIdentity(s)
    BY <1>2 DEF Identity
  <2> HIDE DEF p, sig
  <2>6. CASE id = None
    <3>1. VerifyDeviceIdentity(s) = Absent
      BY <2>6 DEF VerifyDeviceIdentity
    <3> QED
      BY <2>5, <3>1 DEF Absent, Outcome
  <2>7. CASE id # None /\ sig = None
    <3>1. VerifyDeviceIdentity(s) = Outcome(TRUE, id.pubkey, id.sig # None, "malformed")
      BY <2>3, <2>7 DEF VerifyDeviceIdentity
    <3>2. Identity(s).sig = (id.sig # None)
      BY <2>5, <3>1 DEF Outcome
    <3> QED
      BY <2>3, <2>7, <3>2
  <2>8. CASE id # None /\ sig # None
    <3>1. VerifyDeviceIdentity(s) = Outcome(TRUE, id.pubkey, TRUE, OneOf(p))
      BY <2>2, <2>3, <2>8 DEF VerifyDeviceIdentity, p
    <3>2. Identity(s).verified = (OneOf(p) = None)
      BY <2>5, <3>1 DEF Outcome
    <3> QED
      BY <2>4, <3>2
  <2> QED
    BY <2>6, <2>7, <2>8
<1> QED
  BY <1>1, <1>2

\* The signed blob is the function's, and in time.
LEMMA FreshIsAuthentic ==
  ASSUME NEW s, s.sent.tls = "own", s.device.cf.age \in -MaxAgeSeconds .. MaxAgeSeconds
  PROVE  /\ CfParsed(s) /\ AwsCf(s).ip = s.line.tls /\ AwsCf(s).asn = s.line.asn
         /\ ~AwsCf(s).tampered /\ ~AwsCf(s).expired /\ ~CfReplayed(AwsCf(s))
<1>1. CfParsed(s)
  BY DEF CfParsed
<1>2. /\ AwsCf(s).ip = s.line.tls /\ AwsCf(s).asn = s.line.asn /\ AwsCf(s).age = s.device.cf.age
      /\ AwsCf(s).tampered = VerifyCfToken(s).tampered
      /\ AwsCf(s).expired = VerifyCfToken(s).expired
  BY <1>1 DEF AwsCf
<1>3. ~VerifyCfToken(s).tampered /\ ~VerifyCfToken(s).expired
  <2>1. /\ VerifyCfToken(s).tampered = (s.sent.tls # "own")
        /\ VerifyCfToken(s).expired
             = (s.device.cf.age > MaxAgeSeconds \/ s.device.cf.age < -MaxAgeSeconds)
    BY DEF VerifyCfToken
  <2>2. ~(s.device.cf.age > MaxAgeSeconds \/ s.device.cf.age < -MaxAgeSeconds)
    BY DEF MaxAgeSeconds
  <2> QED
    BY <2>1, <2>2
<1>4. ~(AwsCf(s).age < -90 \/ AwsCf(s).age > 300)
  BY <1>2 DEF MaxAgeSeconds
<1> QED
  BY <1>1, <1>2, <1>3, <1>4, Zenon DEF CfReplayed

\* And of its line what the TCP probe saw at the scan's own address, if any.
LEMMA FreshIsTold ==
  ASSUME NEW s, Submission(s), AwsCf(s).ip = s.line.tls, AwsCf(s).asn = s.line.asn
  PROVE  Told(LineOf(s), s.line)
<1>1. Hydrated(s).line =
        [s.line EXCEPT !.tcp = Tcp(s).ip, !.rtt = Tcp(s).rtt, !.rcvRtt = Tcp(s).rcvRtt,
                       !.mss = Tcp(s).mss, !.tls = AwsCf(s).ip, !.asn = AwsCf(s).asn]
  BY HydratedParts
<1>2. s.line = [f \in LineFields |-> s.line[f]]
  BY DEF Submission, Probed
<1>3. /\ LineOf(s).tcp = Tcp(s).ip /\ LineOf(s).rtt = Tcp(s).rtt
      /\ LineOf(s).rcvRtt = Tcp(s).rcvRtt /\ LineOf(s).mss = Tcp(s).mss
      /\ LineOf(s).tls = s.line.tls /\ LineOf(s).asn = s.line.asn
      /\ LineOf(s).api = s.line.api /\ LineOf(s).webrtc = s.line.webrtc
      /\ LineOf(s).status = s.line.status /\ LineOf(s).webrtcBlock = s.line.webrtcBlock
  BY <1>1, <1>2 DEF LineOf, LineFields
<1>4. CASE TcpRedeemed(s)
  <2>1. TcpPrint(s).ip = s.line.source
    BY <1>4 DEF TcpRedeemed, RedeemToken, Token
  <2>2. /\ Tcp(s).ip = s.line.source /\ Tcp(s).rtt = s.line.rtt /\ Tcp(s).rcvRtt = s.line.rcvRtt
        /\ Tcp(s).mss = s.line.mss
    BY <1>4, <2>1 DEF Tcp, TcpPrint
  <2> QED
    BY <1>3, <2>2 DEF Told
<1>5. CASE ~TcpRedeemed(s)
  <2>1. Tcp(s).ip = None /\ Tcp(s).rtt = 0 /\ Tcp(s).rcvRtt = 0 /\ Tcp(s).mss = 0
    BY <1>5 DEF Tcp, NoTcpPrint
  <2> QED
    BY <1>3, <2>1 DEF Told
<1> QED
  BY <1>4, <1>5

\* The axes of a verdict, by what the highest of them is.
LEMMA VerdictOfAxes ==
  ASSUME NEW axes
  PROVE  /\ (\E axis \in axes : axis = 100) => Verdict(axes) = "block"
         /\ (\A axis \in axes : axis \in 0 .. 69) /\ (\E axis \in axes : axis \in 30 .. 69) =>
              Verdict(axes) = "suspect"
         /\ (\A axis \in axes : axis \in 0 .. 29) => Verdict(axes) = "clean"
<1> DEFINE peaks(threshold) == \E axis \in axes : axis >= threshold
<1>1. Verdict(axes) = IF peaks(70) THEN "block" ELSE IF peaks(30) THEN "suspect" ELSE "clean"
  BY DEF Verdict, BlockThreshold, SuspectThreshold
<1>2. (\E axis \in axes : axis = 100) => peaks(70)
  OBVIOUS
<1>3. (\A axis \in axes : axis \in 0 .. 69) => ~peaks(70)
  OBVIOUS
<1>4. (\E axis \in axes : axis \in 30 .. 69) => peaks(30)
  OBVIOUS
<1>5. (\A axis \in axes : axis \in 0 .. 29) => ~peaks(70) /\ ~peaks(30)
  OBVIOUS
<1> HIDE DEF peaks
<1> QED
  BY <1>1, <1>2, <1>3, <1>4, <1>5, Zenon

LEMMA HonestIsJudged ==
  ASSUME NEW honest \in HonestScans, NEW s, Submission(s),
         s.device = honest.device, s.line = honest.line, s.sent = honest.sent,
         s.pat = honest.pat, Identity(s).sig => Identity(s).verified,
         NEW r, OfDevice(r, Hydrated(s).device), r.net = NetworkAnalysis(LineOf(s)),
         r.relay = (LineOf(s).api \in AppleEgress),
         r.pat = s.pat, r.id = Identity(s), r.history # None => ~r.history.tampered
  PROVE  LET full == MerchantResponse(r).product = "full"
         IN MerchantResponse(r).verdict =
              IF full /\ Misread(r) THEN "block"
              ELSE IF (full /\ Doubted(r)) \/ LineDoubted(s.line, r) THEN "suspect" ELSE "clean"
<1> DEFINE d == honest.device
           e == Hydrated(s).device
           line == honest.line
<1>1. /\ HonestDevice(d) /\ HonestLine(line) /\ HonestPath(d, line) /\ honest.sent.tls = "own"
      /\ d.cf.age \in -MaxAgeSeconds .. MaxAgeSeconds
      /\ honest.pat.attempted => honest.pat.verified
  BY HonestAssumption
<1>2. /\ CfParsed(s) /\ AwsCf(s).ip = s.line.tls /\ AwsCf(s).asn = s.line.asn
      /\ ~AwsCf(s).tampered /\ ~AwsCf(s).expired /\ ~CfReplayed(AwsCf(s))
  BY <1>1, FreshIsAuthentic
<1>3. r.device = e /\ r.device.cf = AwsCf(s)
  BY HydratedParts DEF OfDevice
<1> HIDE DEF e
<1>4. Withheld(e, d)
  <2>1. Whole(s.device)
    BY <1>1, Zenon DEF HonestDevice
  <2> QED
    BY <1>2, <2>1, HydratedIsWithheld DEF e
<1>5. Genuine(r)
  <2>1. r.id.sig => r.id.verified
    OBVIOUS
  <2>2. r.pat.attempted => r.pat.verified
    BY <1>1
  <2> QED
    BY <1>2, <1>3, <2>1, <2>2, Zenon DEF Genuine
<1>6. Told(LineOf(s), line)
  BY <1>2, FreshIsTold
<1>7. OfDevice(r, e)
  BY DEF e
<1>8. r.net.ip.category = Category(line) /\ r.relay = (line.api \in AppleEgress)
  <2>1. r.net.ip.category = Category(LineOf(s))
    BY DEF NetworkAnalysis, IpBlock
  <2> QED
    BY <1>1, <1>6, <2>1, HonestLineIsNoVpn DEF Told
<1> DEFINE automation == ApplyPat(Automation(r), r)
           tampering == DeviceTampering(r)
           network == NetworkTampering(r.net)
<1>9. automation \in 0 .. 25
  BY <1>1, <1>4, <1>7, HonestDeviceIsNotAutomated
<1>10. IF Misread(r) THEN tampering = 100
       ELSE IF Doubted(r) THEN tampering \in {50, 60} ELSE tampering \in {0, 25}
  <2>1. /\ Definitive(r, TRUE) <=> Misread(r)
        /\ Strong(r) <=> "BROWSER_ENGINE_INCONSISTENT_SOFT" \in r.blocks.engine
        /\ ~IframeStuck(r) /\ ~LocationMismatch(r)
    BY <1>1, <1>4, <1>5, <1>7, <1>8, HonestDeviceIsExcused
  <2> QED
    BY <2>1, HonestDeviceIsJudged
<1>11. network \in IF LineDoubted(line, r) THEN 30 .. 69 ELSE 0 .. 29
  BY <1>1, <1>6, HonestLineIsJudged
<1>12. /\ FullResponse(r).verdict = Verdict({automation, tampering, network})
       /\ FullResponse(r).product = "full"
  BY DEF FullResponse
<1>13. ProxyResponse(r).verdict = Verdict({network}) /\ ProxyResponse(r).product = "proxy"
  BY DEF ProxyResponse
<1> HIDE DEF automation, tampering, network, line, d
<1>14. s.line = line
  BY DEF line
<1>15. CASE r.product = "proxy"
  <2>1. MerchantResponse(r).verdict = Verdict({network}) /\ MerchantResponse(r).product = "proxy"
    BY <1>13, <1>15 DEF MerchantResponse
  <2>2. LineDoubted(line, r) => Verdict({network}) = "suspect"
    BY <1>11, VerdictOfAxes
  <2>3. ~LineDoubted(line, r) => Verdict({network}) = "clean"
    BY <1>11, VerdictOfAxes
  <2> QED
    BY <1>14, <2>1, <2>2, <2>3
<1>16. CASE r.product # "proxy"
  <2> DEFINE axes == {automation, tampering, network}
  <2>1. MerchantResponse(r).verdict = Verdict(axes) /\ MerchantResponse(r).product = "full"
    BY <1>12, <1>16 DEF MerchantResponse
  <2>2. ASSUME Misread(r) PROVE Verdict(axes) = "block"
    BY <1>10, <2>2, VerdictOfAxes
  <2>3. ASSUME ~Misread(r), Doubted(r) \/ LineDoubted(line, r) PROVE Verdict(axes) = "suspect"
    <3>1. tampering \in 0 .. 69 /\ network \in 0 .. 69
      BY <1>10, <1>11, <2>3
    <3>2. tampering \in 30 .. 69 \/ network \in 30 .. 69
      BY <1>10, <1>11, <2>3
    <3> QED
      BY <1>9, <3>1, <3>2, VerdictOfAxes
  <2>4. ASSUME ~Misread(r), ~Doubted(r), ~LineDoubted(line, r) PROVE Verdict(axes) = "clean"
    <3>1. tampering \in 0 .. 29 /\ network \in 0 .. 29
      BY <1>10, <1>11, <2>4
    <3> QED
      BY <1>9, <3>1, VerdictOfAxes
  <2> HIDE DEF axes
  <2> QED
    BY <1>14, <2>1, <2>2, <2>3, <2>4
<1> QED
  BY <1>15, <1>16

\* The verdict on an untouched scan of an honest device: no rule, and no two of
\* them together, hold its own wrappers, its carrier's pool, what its company's
\* gateway makes of it or the kernel of a listed relay against it, however its
\* history was rolled back; and what is held against it is what the code has no
\* carve-out for, whatever else would excuse it.
THEOREM HonestScansAreExcused == Spec => []HonestScanIsExcused
<1>1. Init => Untouched
  BY DEF Init, Untouched
<1>2. History => Composed
  BY DEF History
<1>3. Untouched /\ History => HonestScanIsExcused
  <2> SUFFICES ASSUME Untouched, History, response # None, scan.touched = {}, presented # Corrupt
               PROVE  HonestScanIsExcused
    BY DEF HonestScanIsExcused
  <2>1. PICK r : record # None /\ r = record /\ response = MerchantResponse(r)
    BY DEF History, Answered
  <2>2. PICK s, blob, n :
          LET visit == [session |-> n + 1, t |-> n, ip |-> s.line.source]
              processed == ProcessDeviceHistory(blob, Identity(s).key, visit, n)
          IN /\ s = scan /\ blob = presented /\ Submission(s)
             /\ r.device = Hydrated(s).device /\ r.blocks = DeviceBlocks(Hydrated(s).device)
             /\ r.net = NetworkAnalysis(LineOf(s)) /\ r.pat = s.pat /\ r.id = Identity(s)
             /\ r.relay = (LineOf(s).api \in AppleEgress)
             /\ r.history = IF s.product = "proxy" THEN None ELSE HistoryAnalysis(processed, n)
    BY <2>1 DEF History, Recorded
  <2>3. PICK key \in Keys, honest \in HonestScans, product \in Products :
          s = SealedBySdk(Fresh(key, honest, product))
    BY <2>1, <2>2 DEF Untouched
  <2>4. r.history # None => ~r.history.tampered
    <3> DEFINE visit == [session |-> n + 1, t |-> n, ip |-> s.line.source]
               processed == ProcessDeviceHistory(blob, Identity(s).key, visit, n)
    <3>1. blob # Corrupt
      BY <2>2
    <3>2. processed.outcome \in {"absent", "ok"}
      BY <3>1 DEF ProcessDeviceHistory
    <3> HIDE DEF processed
    <3>3. ~HistoryAnalysis(processed, n).tampered
      BY <3>2 DEF HistoryAnalysis, Unanalyzable
    <3> QED
      BY <2>2, <3>3 DEF processed
  <2>5. OfDevice(r, Hydrated(s).device)
    BY <2>2 DEF OfDevice
  <2> DEFINE full == MerchantResponse(r).product = "full"
  <2>6. MerchantResponse(r).verdict =
          IF full /\ Misread(r) THEN "block"
          ELSE IF (full /\ Doubted(r)) \/ LineDoubted(s.line, r) THEN "suspect" ELSE "clean"
    <3>1. s.device = honest.device /\ s.line = honest.line /\ s.sent = honest.sent
          /\ s.pat = honest.pat
      BY <2>3, FreshParts
    <3>2. Identity(s).sig => Identity(s).verified
      BY <2>3, FreshIsVerified
    <3> QED
      BY <2>2, <2>4, <2>5, <3>1, <3>2, HonestIsJudged
  <2>7. s = scan /\ r = record /\ response = MerchantResponse(r)
    BY <2>1, <2>2
  <2> QED
    BY <2>6, <2>7 DEF HonestScanIsExcused
<1> QED
  BY <1>1, <1>2, <1>3, UntouchedStep, HistoryInvariant, PTL DEF Spec

-----------------------------------------------------------------------------
(* What is found of a device adds up: no finding takes another one back,   *)
(* but for the weak signs of a headless browser.                           *)

\* Record r shows every sign of tampering that record q shows, perhaps a
\* stronger one, and the carve-outs treat both alike.
TamperedAtLeast(r, q) ==
  /\ q.blocks.ja4Ua.signals \subseteq r.blocks.ja4Ua.signals
  /\ q.blocks.worker.divergences \subseteq r.blocks.worker.divergences
  /\ q.blocks.kernelOs \subseteq r.blocks.kernelOs /\ q.blocks.engine \subseteq r.blocks.engine
  /\ DOMAIN q.device.lies.of \subseteq DOMAIN r.device.lies.of
  /\ Lies(q) \in Int /\ Lies(r) \in Int /\ Lies(r) >= Lies(q)
  /\ q.blocks.worker.mainOnly => r.blocks.worker.mainOnly
  /\ q.blocks.hintsMismatch => r.blocks.hintsMismatch
  /\ q.blocks.localeTamper => r.blocks.localeTamper
  /\ q.blocks.timezone.geo => r.blocks.timezone.geo
  /\ IframeStuck(q) => IframeStuck(r)
  /\ HintsWithheld(q.device) => HintsWithheld(r.device)
  /\ q.device.cf.tampered => r.device.cf.tampered
  /\ CfReplayed(q.device.cf) => CfReplayed(r.device.cf) \/ r.device.cf.tampered
  /\ CfSlow(q.device.cf) =>
       CfSlow(r.device.cf) \/ CfReplayed(r.device.cf) \/ r.device.cf.tampered
  /\ q.pat.attempted /\ ~q.pat.verified => r.pat.attempted /\ ~r.pat.verified
  /\ q.id.sig /\ ~q.id.verified => r.id.sig /\ ~r.id.verified
  /\ q.history # None /\ q.history.tampered => r.history # None /\ r.history.tampered
  /\ Shielded(r.net) <=> Shielded(q.net)
  /\ AppleRelay(r) <=> AppleRelay(q)
  /\ SafariDarwin(r) <=> SafariDarwin(q)

LEMMA LadderOfTampering ==
  ASSUME NEW q, NEW r,
         Definitive(q, TRUE) => Definitive(r, TRUE),
         Strong(q) => Strong(r) \/ Definitive(r, TRUE),
         IframeStuck(q) \/ q.blocks.worker.mainOnly => IframeStuck(r) \/ r.blocks.worker.mainOnly,
         KernelSignal(q, "KERNEL_OS_MISMATCH_DARWIN") \/ LocationMismatch(q) =>
           KernelSignal(r, "KERNEL_OS_MISMATCH_DARWIN") \/ LocationMismatch(r),
         Lies(q) >= 1 => Lies(r) >= 1
  PROVE  DeviceTampering(r) >= DeviceTampering(q) /\ {DeviceTampering(r), DeviceTampering(q)} \subseteq Nat
<1> DEFINE p(x) == <<<<Definitive(x, TRUE), 100>>, <<Strong(x), 60>>,
                     <<IframeStuck(x) \/ x.blocks.worker.mainOnly, 50>>,
                     <<KernelSignal(x, "KERNEL_OS_MISMATCH_DARWIN") \/ LocationMismatch(x), 35>>,
                     <<Lies(x) >= 1, 25>>, <<TRUE, 0>>>>
<1>1. PICK a, b : a = p(q) /\ b = p(r)
  <2> HIDE DEF p
  <2> QED
    OBVIOUS
<1>2. DeviceTampering(q) = OneOf(a) /\ DeviceTampering(r) = OneOf(b)
  BY <1>1 DEF DeviceTampering, TamperingFrom
<1>3. PICK n \in Nat : n = 6
  OBVIOUS
<1>4. DOMAIN a = 1 .. n /\ DOMAIN b = 1 .. n
  BY <1>1, <1>3
<1>5. /\ a[1][2] = 100 /\ a[2][2] = 60 /\ a[3][2] = 50 /\ a[4][2] = 35 /\ a[5][2] = 25 /\ a[6][2] = 0
      /\ b[1][2] = 100 /\ b[2][2] = 60 /\ b[3][2] = 50 /\ b[4][2] = 35 /\ b[5][2] = 25 /\ b[6][2] = 0
  BY <1>1
<1>6. \A x : /\ p(x)[1][1] = Definitive(x, TRUE) /\ p(x)[2][1] = Strong(x)
             /\ p(x)[3][1] = (IframeStuck(x) \/ x.blocks.worker.mainOnly)
             /\ p(x)[4][1] = (KernelSignal(x, "KERNEL_OS_MISMATCH_DARWIN") \/ LocationMismatch(x))
             /\ p(x)[5][1] = (Lies(x) >= 1) /\ p(x)[6][1]
  OBVIOUS
<1> HIDE DEF p
<1>7. /\ a[1][1] => b[1][1]
      /\ a[2][1] => b[1][1] \/ b[2][1]
      /\ a[3][1] => b[3][1]
      /\ a[4][1] => b[4][1]
      /\ a[5][1] => b[5][1]
      /\ a[6][1] /\ b[6][1]
  BY <1>1, <1>6, Zenon
<1>8. \A i \in 1 .. n : a[i][1] => \E j \in 1 .. i : b[j][1]
  <2>1. \A i \in 1 .. n : i \in {1, 2, 3, 4, 5, 6}
    BY <1>3
  <2>2. \A i \in {1, 2, 3, 4, 5, 6} : i \in 1 .. i /\ 1 \in 1 .. i
    OBVIOUS
  <2> QED
    BY <1>7, <2>1, <2>2
<1>9. /\ \A i \in 1 .. n : a[i][2] \in Nat /\ b[i][2] = a[i][2]
      /\ \A i, j \in 1 .. n : i <= j => a[i][2] >= a[j][2]
  BY <1>3, <1>5
<1>10. 6 \in 1 .. n
  BY <1>3
<1>11. OneOf(b) >= OneOf(a)
  <2>1. PICK k \in 1 .. n : a[k][1]
    BY <1>7, <1>10
  <2>2. \A i \in 1 .. n : a[i][2] \in Int /\ b[i][2] = a[i][2]
    BY <1>9
  <2> QED
    BY <1>4, <1>8, <1>9, <2>1, <2>2, LadderRises
<1>12. OneOf(a) \in Nat /\ OneOf(b) \in Nat
  <2>1. PICK i \in 1 .. n : OneOf(a) = a[i][2]
    BY <1>4, <1>7, <1>10, SomeHit
  <2>2. PICK j \in 1 .. n : OneOf(b) = b[j][2]
    BY <1>4, <1>7, <1>10, SomeHit
  <2> QED
    BY <1>9, <2>1, <2>2
<1> QED
  BY <1>2, <1>11, <1>12

LEMMA TamperingRises ==
  ASSUME NEW q, NEW r, TamperedAtLeast(r, q)
  PROVE  DeviceTampering(r) >= DeviceTampering(q) /\ {DeviceTampering(r), DeviceTampering(q)} \subseteq Nat
<1>1. /\ Lies(q) >= 20 => Lies(r) >= 20
      /\ Lies(q) >= 5 => Lies(r) >= 5
      /\ Lies(q) >= 1 => Lies(r) >= 1
  BY DEF TamperedAtLeast
<1>2. \A code : KernelSignal(q, code) => KernelSignal(r, code)
  BY Zenon DEF TamperedAtLeast, KernelSignal
<1>3. /\ q.blocks.worker.divergences \ {"onLine"} # {} => r.blocks.worker.divergences \ {"onLine"} # {}
      /\ DOMAIN q.device.lies.of \cap (WebrtcLies \cup {"Navigator.platform"}) # {} =>
           DOMAIN r.device.lies.of \cap (WebrtcLies \cup {"Navigator.platform"}) # {}
      /\ \A code : code \in q.blocks.ja4Ua.signals => code \in r.blocks.ja4Ua.signals
      /\ \A code : code \in q.blocks.engine => code \in r.blocks.engine
  BY DEF TamperedAtLeast
<1>4. Definitive(q, TRUE) => Definitive(r, TRUE)
  BY <1>1, <1>2, <1>3, Zenon DEF TamperedAtLeast, Definitive
<1>5. Strong(q) => Strong(r) \/ Definitive(r, TRUE)
  BY <1>1, <1>2, <1>3, Zenon DEF TamperedAtLeast, Strong, Definitive
<1>6. /\ IframeStuck(q) \/ q.blocks.worker.mainOnly => IframeStuck(r) \/ r.blocks.worker.mainOnly
      /\ LocationMismatch(q) => LocationMismatch(r)
  BY Zenon DEF TamperedAtLeast, LocationMismatch
<1> QED
  BY <1>1, <1>2, <1>4, <1>5, <1>6, LadderOfTampering

\* Record r shows every mark of automation that record q shows.
AutomatedAtLeast(r, q) ==
  /\ q.device.headless.rating > 0 => r.device.headless.rating > 0
  /\ IframeStuck(q) => IframeStuck(r)
  /\ PristineCompromised(q) => PristineCompromised(r)
  /\ HardResidue(q.device.cdp) => HardResidue(r.device.cdp)
  /\ q.device.cdp.soft \subseteq r.device.cdp.soft
  /\ ProxyTrap(q.device.cdp) => ProxyTrap(r.device.cdp)
  /\ Burst(q.device.cdp) => Burst(r.device.cdp)
  /\ TimingScore(r) >= TimingScore(q)
  /\ WeakEvidence(r) >= WeakEvidence(q)
  /\ \A x \in {q, r} : WeakHeadless(x.device.headless) \in 0 .. 100

LEMMA WeakIsPercent ==
  ASSUME NEW r, WeakHeadless(r.device.headless) \in 0 .. 100
  PROVE  WeakEvidence(r) \in 0 .. 100
<1> DEFINE sum == WeakHeadless(r.device.headless) + IF r.device.headless.stealth > 0 THEN 20 ELSE 0
<1>1. sum \in 0 .. 120
  OBVIOUS
<1>2. PICK n \in 0 .. 120 : n = sum
  BY <1>1
<1>3. Capped(n) \in 0 .. 100
  <2>1. PICK m : m = IF n <= 100 THEN n ELSE 100
    OBVIOUS
  <2>2. m \in {100, n} /\ {100, n} \subseteq Nat /\ (\A x \in {100, n} : m <= x) /\ m \in 0 .. 100
    BY <2>1
  <2>3. Min({100, n}) = m
    BY <2>2, MinOf
  <2>4. Max({0, m}) = m
    BY <2>2, MaxOfZero
  <2> QED
    BY <2>2, <2>3, <2>4 DEF Capped
<1> HIDE DEF sum
<1>4. Round5(Capped(n)) \in 0 .. 100
  BY <1>3, RoundFive
<1>5. WeakEvidence(r) = IF MobileBrowser(r) THEN 0 ELSE Round5(Capped(n))
  BY <1>2 DEF WeakEvidence, sum
<1> QED
  BY <1>4, <1>5

LEMMA AutomationRises ==
  ASSUME NEW q, NEW r, AutomatedAtLeast(r, q)
  PROVE  /\ {Automation(q), Automation(r)} \subseteq 0 .. 100
         /\ \/ Automation(r) >= Automation(q)
            \/ Automation(r) \in {60, 75} /\ WeakEvidence(q) > Automation(r)
<1> DEFINE hard(x) == x.device.headless.rating > 0 \/ IframeStuck(x) \/ HardResidue(x.device.cdp)
           soft(x) == \/ Burst(x.device.cdp) \/ TimingScore(x) = 75 \/ x.device.cdp.soft # {}
                      \/ PristineCompromised(x)
           suspect(x) == ProxyTrap(x.device.cdp) \/ TimingScore(x) = 60
<1>1. ASSUME NEW x
      PROVE  /\ hard(x) => Automation(x) = 100
             /\ ~hard(x) /\ soft(x) => Automation(x) = 75
             /\ ~hard(x) /\ ~soft(x) /\ suspect(x) => Automation(x) = 60
             /\ ~hard(x) /\ ~soft(x) /\ ~suspect(x) => Automation(x) = WeakEvidence(x)
  <2> DEFINE p == <<<<hard(x), 100>>, <<soft(x), 75>>, <<suspect(x), 60>>, <<TRUE, WeakEvidence(x)>>>>
  <2>1. Automation(x) = OneOf(p)
    BY DEF Automation
  <2>2. /\ DOMAIN p = 1 .. 4 /\ p[4][1]
        /\ p[1][2] = 100 /\ p[2][2] = 75 /\ p[3][2] = 60 /\ p[4][2] = WeakEvidence(x)
    OBVIOUS
  <2>3. p[1][1] = hard(x) /\ p[2][1] = soft(x) /\ p[3][1] = suspect(x)
    OBVIOUS
  <2> HIDE DEF p, hard, soft, suspect
  <2>4. /\ p[1][1] => OneOf(p) = 100
        /\ ~p[1][1] /\ p[2][1] => OneOf(p) = 75
        /\ ~p[1][1] /\ ~p[2][1] /\ p[3][1] => OneOf(p) = 60
        /\ ~p[1][1] /\ ~p[2][1] /\ ~p[3][1] => OneOf(p) = WeakEvidence(x)
    BY <2>2, OneOfFour
  <2> QED
    BY <2>1, <2>3, <2>4, Zenon
<1>2. hard(q) => hard(r)
  BY Zenon DEF AutomatedAtLeast
<1>3. \A x : TimingScore(x) \in {0, 60, 75}
  BY DEF TimingScore
<1>4. soft(q) => soft(r)
  <2>1. TimingScore(q) = 75 => TimingScore(r) = 75
    BY <1>3 DEF AutomatedAtLeast
  <2>2. q.device.cdp.soft # {} => r.device.cdp.soft # {}
    BY DEF AutomatedAtLeast
  <2> QED
    BY <2>1, <2>2, Zenon DEF AutomatedAtLeast
<1>5. suspect(q) => suspect(r) \/ soft(r)
  <2>1. TimingScore(q) = 60 => TimingScore(r) = 60 \/ TimingScore(r) = 75
    BY <1>3 DEF AutomatedAtLeast
  <2> QED
    BY <2>1, Zenon DEF AutomatedAtLeast
<1>6. WeakEvidence(q) \in 0 .. 100 /\ WeakEvidence(r) \in 0 .. 100 /\ WeakEvidence(r) >= WeakEvidence(q)
  BY WeakIsPercent DEF AutomatedAtLeast
<1> HIDE DEF hard, soft, suspect
<1> QED
  BY <1>1, <1>2, <1>4, <1>5, <1>6

\* The strongest axis decides, and an attestation makes no order.
LEMMA AttestedAlike ==
  ASSUME NEW q, NEW r, Attested(r) <=> Attested(q),
         NEW a \in 0 .. 100, NEW b \in 0 .. 100, b >= a
  PROVE  ApplyPat(a, q) \in 0 .. 100 /\ ApplyPat(b, r) \in 0 .. 100 /\ ApplyPat(b, r) >= ApplyPat(a, q)
<1>1. ASSUME NEW n \in 0 .. 100 PROVE Min({n, 25}) = IF n <= 25 THEN n ELSE 25
  <2>1. PICK m : m = IF n <= 25 THEN n ELSE 25
    OBVIOUS
  <2>2. m \in {n, 25} /\ {n, 25} \subseteq Nat /\ \A x \in {n, 25} : m <= x
    BY <2>1
  <2> QED
    BY <2>1, <2>2, MinOf
<1>2. ASSUME NEW n \in 0 .. 100, NEW x
      PROVE  ApplyPat(n, x) = IF Attested(x) /\ n < 75 THEN (IF n <= 25 THEN n ELSE 25) ELSE n
  BY <1>1 DEF ApplyPat
<1> QED
  BY <1>2

LEMMA VerdictRises ==
  ASSUME NEW A, NEW B, A \subseteq Nat, B \subseteq Nat, \A x \in A : \E y \in B : y >= x
  PROVE  /\ Verdict(A) = "block" => Verdict(B) = "block"
         /\ Verdict(B) = "clean" => Verdict(A) = "clean"
<1> DEFINE over(n, S) == \E x \in S : x >= n
<1>1. \A S : Verdict(S) = IF over(70, S) THEN "block" ELSE IF over(30, S) THEN "suspect" ELSE "clean"
  BY DEF Verdict, BlockThreshold, SuspectThreshold
<1>2. \A n \in Nat : over(n, A) => over(n, B)
  <2>1. ASSUME NEW n \in Nat, NEW x \in A, x >= n PROVE over(n, B)
    <3>1. PICK y \in B : y >= x
      OBVIOUS
    <3> QED
      BY <2>1, <3>1
  <2> QED
    BY <2>1
<1>3. over(70, A) => over(30, A)
  OBVIOUS
<1>4. (over(70, A) => over(70, B)) /\ (over(30, A) => over(30, B))
  BY <1>2
<1> HIDE DEF over
<1> QED
  BY <1>1, <1>3, <1>4

\* A record that shows all that another one shows of its device, on a network
\* that scores no less, is judged no better. The exception is the code's: as
\* soon as there is a soft mark of automation the weak signs are not counted
\* any more, and enough of them had scored higher.
THEOREM FindingsAddUp ==
  ASSUME NEW q, NEW r, TamperedAtLeast(r, q), AutomatedAtLeast(r, q), Attested(r) <=> Attested(q),
         {NetworkTampering(q.net), NetworkTampering(r.net)} \subseteq Nat,
         NetworkTampering(r.net) >= NetworkTampering(q.net)
  PROVE  \/ Automation(r) \in {60, 75} /\ WeakEvidence(q) > Automation(r)
         \/ /\ FullResponse(q).verdict = "block" => FullResponse(r).verdict = "block"
            /\ FullResponse(r).verdict = "clean" => FullResponse(q).verdict = "clean"
<1> DEFINE verdict(x) == Verdict({ApplyPat(Automation(x), x), DeviceTampering(x), NetworkTampering(x.net)})
<1>1. \A x : FullResponse(x).verdict = verdict(x)
  BY DEF FullResponse
<1>2. SUFFICES ASSUME Automation(r) >= Automation(q)
               PROVE  /\ verdict(q) = "block" => verdict(r) = "block"
                      /\ verdict(r) = "clean" => verdict(q) = "clean"
  <2> HIDE DEF verdict
  <2> QED
    BY <1>1, AutomationRises
<1>3. PICK a1, b1 : a1 = ApplyPat(Automation(q), q) /\ b1 = ApplyPat(Automation(r), r)
  OBVIOUS
<1>4. a1 \in 0 .. 100 /\ b1 \in 0 .. 100 /\ b1 >= a1
  <2>1. PICK a, b : /\ a = Automation(q) /\ b = Automation(r)
                    /\ a \in 0 .. 100 /\ b \in 0 .. 100 /\ b >= a
    BY <1>2, AutomationRises
  <2> QED
    BY <1>3, <2>1, AttestedAlike
<1>5. PICK a2, b2 : /\ a2 = DeviceTampering(q) /\ b2 = DeviceTampering(r)
                    /\ a2 \in Nat /\ b2 \in Nat /\ b2 >= a2
  BY TamperingRises
<1>6. PICK a3, b3 : /\ a3 = NetworkTampering(q.net) /\ b3 = NetworkTampering(r.net)
                    /\ a3 \in Nat /\ b3 \in Nat /\ b3 >= a3
  OBVIOUS
<1>7. verdict(q) = Verdict({a1, a2, a3}) /\ verdict(r) = Verdict({b1, b2, b3})
  BY <1>3, <1>5, <1>6
<1> HIDE DEF verdict
<1>8. /\ {a1, a2, a3} \subseteq Nat /\ {b1, b2, b3} \subseteq Nat
      /\ \A x \in {a1, a2, a3} : \E y \in {b1, b2, b3} : y >= x
  BY <1>4, <1>5, <1>6
<1>9. /\ Verdict({a1, a2, a3}) = "block" => Verdict({b1, b2, b3}) = "block"
      /\ Verdict({b1, b2, b3}) = "clean" => Verdict({a1, a2, a3}) = "clean"
  BY <1>8, VerdictRises
<1> QED
  BY <1>7, <1>9

-----------------------------------------------------------------------------
(* The history a client brings.                                            *)

\* BuildRecord with the number of earlier scans as an argument.
RecordOf(s, blob, n) ==
  LET seen == Hydrated(s)
      visit == [session |-> n + 1, t |-> n, ip |-> s.line.source]
      processed == ProcessDeviceHistory(blob, Identity(s).key, visit, n)
  IN [product |-> s.product, device |-> seen.device,
      blocks |-> DeviceBlocks(seen.device), net |-> NetworkAnalysis(LineOf(s)),
      relay |-> LineOf(s).api \in AppleEgress, pat |-> s.pat, id |-> Identity(s),
      history |-> IF s.product = "proxy" THEN None ELSE HistoryAnalysis(processed, n)]

LEMMA BuildsRecord ==
  ASSUME NEW s, NEW blob
  PROVE  BuildRecord(s, blob) = RecordOf(s, blob, Len(log))
BY DEF BuildRecord, RecordOf, Processed, Visit, now, LineOf

\* What is stored can be computed again, as long as it is there.
Rebuilt ==
  record # None =>
    \E s, blob, n :
      /\ s = scan /\ blob = presented /\ n = Len(log)
      /\ record = RecordOf(s, blob, n)

LEMMA RebuiltStep == Rebuilt /\ [Next]_vars => Rebuilt'
<1> SUFFICES ASSUME Rebuilt, [Next]_vars PROVE Rebuilt'
  OBVIOUS
<1>1. ASSUME NEW blob, Submit(blob) PROVE Rebuilt'
  <2>1. PICK s, n : s = SealedBySdk(scan) /\ n = Len(log)
    OBVIOUS
  <2>2. scan' = s /\ presented' = blob /\ record' = BuildRecord(s, blob) /\ log' = log
    BY <1>1, <2>1 DEF Submit
  <2>3. record' = RecordOf(s, blob, n) /\ n = Len(log')
    BY <2>1, <2>2, BuildsRecord
  <2> QED
    BY <2>2, <2>3 DEF Rebuilt
<1>2. CASE record = None /\ record' = None
  BY <1>2 DEF Rebuilt
<1>3. CASE UNCHANGED <<scan, presented, record, log>>
  BY <1>3 DEF Rebuilt
<1>4. CASE record' = None
  BY <1>4 DEF Rebuilt
<1>5. ASSUME NEW key, NEW honest, NEW product, Compose(key, honest, product) PROVE record' = None
  BY <1>5 DEF Compose
<1>6. ASSUME NEW t, Tamper(t) \/ Alter(t) PROVE record' = None
  BY <1>6 DEF Tamper, Alter, Change
<1>7. Refuse => record' = None
  BY DEF Refuse
<1>8. Read => UNCHANGED <<scan, presented, record, log>>
  BY DEF Read
<1>9. Deliver \/ LoseAnswer => record' = None
  BY DEF Deliver, LoseAnswer, Finish
<1>10. UNCHANGED vars => UNCHANGED <<scan, presented, record, log>>
  BY DEF vars
<1> QED
  BY <1>1, <1>3, <1>4, <1>5, <1>6, <1>7, <1>8, <1>9, <1>10 DEF Next

\* What a record tells besides the history that came with it.
SameButHistory(q, r) ==
  /\ q.product = r.product /\ q.device = r.device /\ q.blocks = r.blocks /\ q.net = r.net
  /\ q.relay = r.relay /\ q.pat = r.pat /\ q.id = r.id

LEMMA AutomatedAlike ==
  ASSUME NEW q, NEW r, SameButHistory(q, r)
  PROVE  ApplyPat(Automation(q), q) = ApplyPat(Automation(r), r)
<1>1. q.device = r.device /\ q.pat = r.pat
  BY DEF SameButHistory
<1>2. MobileBrowser(q) <=> MobileBrowser(r)
  BY <1>1 DEF MobileBrowser
<1>3. TimingScore(q) = TimingScore(r)
  BY <1>1, <1>2, Zenon DEF TimingScore
<1>4. WeakEvidence(q) = WeakEvidence(r)
  BY <1>1, <1>2, Zenon DEF WeakEvidence
<1> DEFINE ladder(d, timing, weak) ==
      OneOf(<<<<d.headless.rating > 0 \/ d.status.iframe = "stuck" \/ HardResidue(d.cdp), 100>>,
              <<Burst(d.cdp) \/ timing = 75 \/ d.cdp.soft # {}
                  \/ d.status.pristine \in {"not_lifted", "not_native"}, 75>>,
              <<ProxyTrap(d.cdp) \/ timing = 60, 60>>, <<TRUE, weak>>>>)
<1>5. \A x : Automation(x) = ladder(x.device, TimingScore(x), WeakEvidence(x))
  BY DEF Automation, IframeStuck, PristineCompromised
<1> HIDE DEF ladder
<1>6. Automation(q) = Automation(r)
  BY <1>1, <1>3, <1>4, <1>5
<1> QED
  BY <1>1, <1>6, Zenon DEF ApplyPat, Attested

LEMMA CondemnedByHistory ==
  ASSUME NEW q, NEW r, SameButHistory(q, r),
         q.history # None /\ q.history.tampered => r.history # None /\ r.history.tampered
  PROVE  DeviceTampering(r) >= DeviceTampering(q) /\ {DeviceTampering(r), DeviceTampering(q)} \subseteq Nat
<1>1. /\ q.device = r.device /\ q.blocks = r.blocks /\ q.net = r.net /\ q.relay = r.relay
      /\ q.pat = r.pat /\ q.id = r.id
  BY DEF SameButHistory
<1>2. Lies(q) = Lies(r)
  <2>1. BraveIos(q) <=> BraveIos(r)
    BY <1>1 DEF BraveIos
  <2> QED
    BY <1>1, <2>1, Zenon DEF Lies
<1>3. (SafariDarwin(q) <=> SafariDarwin(r)) /\ (AppleRelay(q) <=> AppleRelay(r))
  <2>1. SafariDarwin(q) <=> SafariDarwin(r)
    BY <1>1 DEF SafariDarwin
  <2> QED
    BY <1>1, <2>1, Zenon DEF AppleRelay
<1>4. \A code : KernelSignal(q, code) <=> KernelSignal(r, code)
  BY <1>1, <1>3, Zenon DEF KernelSignal
<1>5. Definitive(q, TRUE) => Definitive(r, TRUE)
  BY <1>1, <1>2, <1>3, <1>4, Zenon DEF Definitive
<1>6. Strong(q) => Strong(r)
  BY <1>1, <1>2, <1>4, Zenon DEF Strong
<1>7. (IframeStuck(q) <=> IframeStuck(r)) /\ (LocationMismatch(q) <=> LocationMismatch(r))
  BY <1>1, Zenon DEF IframeStuck, LocationMismatch
<1> QED
  BY <1>1, <1>2, <1>4, <1>5, <1>6, <1>7, LadderOfTampering

\* Where only the tampering of the device differs, and is no less.
LEMMA VerdictWithHistory ==
  ASSUME NEW q, NEW r, SameButHistory(q, r),
         q.history # None /\ q.history.tampered => r.history # None /\ r.history.tampered
  PROVE  /\ MerchantResponse(q).verdict = "block" => MerchantResponse(r).verdict = "block"
         /\ MerchantResponse(r).verdict = "clean" => MerchantResponse(q).verdict = "clean"
<1>1. q.product = r.product /\ q.net = r.net
  BY DEF SameButHistory
<1>2. PICK a : a = ApplyPat(Automation(r), r) /\ a = ApplyPat(Automation(q), q)
  BY AutomatedAlike
<1>3. PICK n : n = NetworkTampering(r.net) /\ n = NetworkTampering(q.net)
  BY <1>1
<1>4. PICK d, e : /\ d = DeviceTampering(q) /\ e = DeviceTampering(r)
                  /\ d \in Nat /\ e \in Nat /\ e >= d
  BY CondemnedByHistory
<1>5. FullResponse(q).verdict = Verdict({a, d, n}) /\ FullResponse(r).verdict = Verdict({a, e, n})
  BY <1>2, <1>3, <1>4 DEF FullResponse
<1>6. ProxyResponse(q).verdict = Verdict({n}) /\ ProxyResponse(r).verdict = Verdict({n})
  BY <1>3 DEF ProxyResponse
<1>7. \A v : Verdict({a, v, n}) =
               IF a >= 70 \/ v >= 70 \/ n >= 70 THEN "block"
               ELSE IF a >= 30 \/ v >= 30 \/ n >= 30 THEN "suspect" ELSE "clean"
  BY DEF Verdict, BlockThreshold, SuspectThreshold
<1>8. (d >= 70 => e >= 70) /\ (d >= 30 => e >= 30) /\ (d >= 70 => d >= 30)
  BY <1>4
<1>9. /\ Verdict({a, d, n}) = "block" => Verdict({a, e, n}) = "block"
      /\ Verdict({a, e, n}) = "clean" => Verdict({a, d, n}) = "clean"
  BY <1>7, <1>8
<1> QED
  BY <1>1, <1>5, <1>6, <1>9 DEF MerchantResponse

\* What a genuine blob holds is told to the merchant and not scored.
LEMMA GenuineHistoryIsUnscored ==
  ASSUME NEW s, NEW blob, NEW n, blob # Corrupt
  PROVE  LET history == RecordOf(s, blob, n).history
         IN ~(history # None /\ history.tampered)
<1> DEFINE visit == [session |-> n + 1, t |-> n, ip |-> s.line.source]
           processed == ProcessDeviceHistory(blob, Identity(s).key, visit, n)
<1>1. RecordOf(s, blob, n).history =
        IF s.product = "proxy" THEN None ELSE HistoryAnalysis(processed, n)
  BY DEF RecordOf
<1>2. processed.outcome \in {"absent", "ok"}
  BY DEF ProcessDeviceHistory
<1> HIDE DEF processed
<1>3. ~HistoryAnalysis(processed, n).tampered
  BY <1>2 DEF HistoryAnalysis, Unanalyzable
<1> QED
  BY <1>1, <1>3

LEMMA RecordsAlike ==
  ASSUME NEW s, NEW b, NEW c, NEW n
  PROVE  SameButHistory(RecordOf(s, b, n), RecordOf(s, c, n))
BY DEF RecordOf, SameButHistory

\* The history a client brings can only condemn it: with a blob, of whomever
\* and however old, a scan is judged as without one, and a blob that was
\* edited makes the verdict no better. A device gains nothing by the choice of
\* the blob it presents.
THEOREM HistoryNeverHelps ==
  Spec => [](response # None =>
               LET alone == MerchantResponse(BuildRecord(scan, None))
               IN /\ presented # Corrupt => response.verdict = alone.verdict
                  /\ alone.verdict = "block" => response.verdict = "block"
                  /\ response.verdict = "clean" => alone.verdict = "clean")
<1> DEFINE Claim ==
      response # None =>
        LET alone == MerchantResponse(BuildRecord(scan, None))
        IN /\ presented # Corrupt => response.verdict = alone.verdict
           /\ alone.verdict = "block" => response.verdict = "block"
           /\ response.verdict = "clean" => alone.verdict = "clean"
<1>1. Init => Rebuilt
  BY DEF Init, Rebuilt
<1>2. History /\ Rebuilt => Claim
  <2> SUFFICES ASSUME History, Rebuilt, response # None
               PROVE  LET alone == MerchantResponse(BuildRecord(scan, None))
                      IN /\ presented # Corrupt => response.verdict = alone.verdict
                         /\ alone.verdict = "block" => response.verdict = "block"
                         /\ response.verdict = "clean" => alone.verdict = "clean"
    OBVIOUS
  <2>1. record # None /\ response = MerchantResponse(record)
    BY DEF History, Answered
  <2>2. PICK s, blob, n : /\ s = scan /\ blob = presented /\ n = Len(log)
                          /\ record = RecordOf(s, blob, n)
    BY <2>1 DEF Rebuilt
  <2>3. PICK q, r : q = RecordOf(s, None, n) /\ r = RecordOf(s, blob, n)
    OBVIOUS
  <2>4. SameButHistory(q, r) /\ SameButHistory(r, q)
    BY <2>3, RecordsAlike
  <2>5. ~(q.history # None /\ q.history.tampered)
    BY <2>3, GenuineHistoryIsUnscored, NoneAssumption
  <2>6. blob # Corrupt => ~(r.history # None /\ r.history.tampered)
    BY <2>3, GenuineHistoryIsUnscored, NoneAssumption
  <2>7. /\ MerchantResponse(q).verdict = "block" => MerchantResponse(r).verdict = "block"
        /\ MerchantResponse(r).verdict = "clean" => MerchantResponse(q).verdict = "clean"
    BY <2>4, <2>5, VerdictWithHistory
  <2>8. blob # Corrupt =>
          /\ MerchantResponse(r).verdict = "block" => MerchantResponse(q).verdict = "block"
          /\ MerchantResponse(q).verdict = "clean" => MerchantResponse(r).verdict = "clean"
    BY <2>4, <2>6, VerdictWithHistory
  <2>9. {MerchantResponse(q).verdict, MerchantResponse(r).verdict} \subseteq {"block", "suspect", "clean"}
    BY Zenon DEF MerchantResponse, FullResponse, ProxyResponse, Verdict
  <2>10. BuildRecord(scan, None) = q /\ response = MerchantResponse(r)
    BY <2>1, <2>2, <2>3, BuildsRecord
  <2> QED
    BY <2>2, <2>7, <2>8, <2>9, <2>10
<1> HIDE DEF Claim
<1>3. Spec => []Claim
  BY <1>1, <1>2, RebuiltStep, HistoryInvariant, PTL DEF Spec
<1> QED
  BY <1>3 DEF Claim
=============================================================================
