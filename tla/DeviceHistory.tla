---------------------------- MODULE DeviceHistory ----------------------------
(***************************************************************************)
(* The history a device carries for the server (helpers/device-history.ts, *)
(* analysis/device-history): an encrypted blob that each full scan         *)
(* presents and gets back with its own visit appended. The server keeps no *)
(* copy: what it knows of a device is what the device chooses to present.  *)
(*                                                                         *)
(* A blob is [id, created, visits], a visit [session, t, ip]. Time is      *)
(* counted in scans. A presented blob is None, Corrupt or one the server   *)
(* encrypted.                                                              *)
(***************************************************************************)
EXTENDS ScanValues

CONSTANTS
  MaxVisits,     \* visits a blob keeps
  RecentWindow,  \* how long ago a recent visit may be
  Corrupt        \* a blob that does not decrypt or does not parse

FreshBlob(key, now) == [id |-> key, created |-> now, visits |-> <<>>]

\* The oldest visit goes when the blob is full.
AppendVisit(blob, visit) ==
  LET next == Append(blob.visits, visit)
      over == Max({0, Len(next) - MaxVisits})
  IN [blob EXCEPT !.visits = SubSeq(next, over + 1, Len(next))]

\* Variant: any blob the server encrypted is the device's.
ProcessUnbound(presented, key, visit, now) ==
  LET ours == presented \notin {None, Corrupt}
      before == IF ours THEN presented ELSE FreshBlob(key, now)
  IN IF key = None THEN [outcome |-> "absent", before |-> None, after |-> None]
     ELSE [outcome |-> IF ours THEN "ok" ELSE IF presented = Corrupt THEN "auth_fail" ELSE "absent",
           before |-> before, after |-> AppendVisit(before, visit)]

\* A scan's blob before and after its visit. Another device's blob is put
\* aside like none at all; without a key nothing is kept.
ProcessDeviceHistory(presented, key, visit, now) ==
  LET ours == presented \notin {None, Corrupt} /\ presented.id = key
      before == IF ours THEN presented ELSE FreshBlob(key, now)
  IN IF key = None THEN [outcome |-> "absent", before |-> None, after |-> None]
     ELSE [outcome |-> IF ours THEN "ok" ELSE IF presented = Corrupt THEN "auth_fail" ELSE "absent",
           before |-> before, after |-> AppendVisit(before, visit)]

Unanalyzable(reason) ==
  [tampered |-> reason = "tampered", freshDevice |-> reason = "freshDevice",
   scanCount |-> 0, age |-> 0, distinctIps |-> 0, recent |-> 0]

\* What a merchant may know of the visits before this one.
HistoryAnalysis(processed, now) ==
  LET visits == processed.before.visits
      seen == {visits[i] : i \in DOMAIN visits}
  IN CASE processed.outcome = "absent" -> Unanalyzable("freshDevice")
       [] processed.outcome = "auth_fail" -> Unanalyzable("tampered")
       [] processed.outcome = "ok" ->
            [tampered |-> FALSE, freshDevice |-> FALSE, scanCount |-> Len(visits),
             age |-> now - processed.before.created,
             distinctIps |-> Cardinality({v.ip : v \in seen}),
             recent |-> Cardinality({v \in seen : v.t >= now - RecentWindow})]
=============================================================================
