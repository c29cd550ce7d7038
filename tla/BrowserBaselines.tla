--------------------------- MODULE BrowserBaselines ---------------------------
(***************************************************************************)
(* The daily histograms of what each browser version looks like            *)
(* (handlers/browser-baseline-builder.ts), taken from the archived scans   *)
(* of the last week. A scan is left out if anything suggests it was not a  *)
(* real browser on an ordinary line, counts for its JavaScript fields only *)
(* if its TLS is known to be rewritten on the way, and an address counts   *)
(* once per browser version and day.                                       *)
(***************************************************************************)
EXTENDS Integers, Sequences, SequencesExt, FiniteSets

CONSTANTS
  Archives,     \* what the archive may hold: sequences of batches of rows
  NoValue       \* nothing parsed, no file

(* A row: browser, version, private (a private window), family, ip, day,    *)
(* device and network findings, the category of its ASN, and one value    *)
(* each for the JavaScript and the TLS fields. Browser or ip may be        *)
(* NoValue, when the row does not say.                                     *)

RowsOf(batches) == UNION {Range(batch) : batch \in Range(batches)}

ASSUME ArchivesAssumption == \A a \in Archives : a \in Seq(Seq(RowsOf(a)))

VARIABLES
  archive,     \* the batches of the last week, in order
  baselines,   \* browser-baselines.json.gz in S3, or NoValue
  aggregation  \* the run under way: [pc, rows]

baselineVars == <<archive, baselines, aggregation>>

CleanNetworks ==
  {"residential", "mobile", "business", "education", "government", "satellite", "cdn"}
MungedNetworks == {"corporate_proxy", "privacy_relay"}

BaselineInit ==
  /\ archive \in Archives
  /\ baselines = NoValue
  /\ aggregation = [pc |-> "idle", rows |-> <<>>]

-----------------------------------------------------------------------------
(* One row.                                                                *)

ClassifyByAsnCategory(row) ==
  CASE row.asnCategory \in MungedNetworks -> "js_only"
    [] row.asnCategory \in CleanNetworks -> "both"
    [] OTHER -> "drop"

\* The network detectors always complain of a line whose TLS is rewritten:
\* they are asked about the others only.
ClassifySessionForTraining(row) ==
  LET byAsn == ClassifyByAsnCategory(row)
  IN IF row.tampered \/ row.automated THEN "drop"
     ELSE IF byAsn = "both" /\ row.proxyDetected THEN "drop" ELSE byAsn

BrowserKey(row) == <<row.browser, row.version, row.private>>

\* Rows that do not say which browser, from where, or must not be learned
\* from.
Observed(row) ==
  row.browser # NoValue /\ row.ip # NoValue /\ ClassifySessionForTraining(row) # "drop"

TlsTrustworthy(row) == ClassifySessionForTraining(row) = "both"

-----------------------------------------------------------------------------
(* The histograms.                                                         *)

\* Variant: Every scan counts.
DedupKeyNone(rows, i) == <<i>>

\* A browser version counts once per address and day.
DedupKey(rows, i) == <<BrowserKey(rows[i]), rows[i].ip, rows[i].day>>

\* The first observation of each.
Kept(rows) ==
  LET seen == {i \in DOMAIN rows : Observed(rows[i])}
  IN {i \in seen : \A j \in seen : DedupKey(rows, j) = DedupKey(rows, i) => i <= j}

\* Sessions, and how many of them showed each value.
Histogram(rows, those) ==
  LET count(values, chosen) ==
        [v \in {values[i] : i \in chosen} |-> Cardinality({i \in chosen : values[i] = v})]
  IN [sessions |-> Cardinality(those),
      js  |-> count([i \in those |-> rows[i].js], those),
      tls |-> count([i \in those |-> rows[i].tls], {i \in those : TlsTrustworthy(rows[i])})]

Aggregate(rows) ==
  [browsers |-> [k \in {BrowserKey(rows[i]) : i \in Kept(rows)} |->
                   Histogram(rows, {i \in Kept(rows) : BrowserKey(rows[i]) = k})],
   families |-> [f \in {rows[i].family : i \in Kept(rows)} |->
                   Histogram(rows, {i \in Kept(rows) : rows[i].family = f})]]

-----------------------------------------------------------------------------
(* A run.                                                                  *)

\* A batch that cannot be read counts as an empty one.
LoadRawSessions(b, readable) == IF b \in readable THEN archive[b] ELSE <<>>

ReadArchive ==
  /\ aggregation.pc = "idle"
  /\ \E readable \in SUBSET DOMAIN archive :
       aggregation' = [pc |-> "read",
         rows |-> FlattenSeq([b \in DOMAIN archive |-> LoadRawSessions(b, readable)])]
  /\ UNCHANGED <<archive, baselines>>

UploadBaselines ==
  /\ aggregation.pc = "read"
  /\ aggregation' = [pc |-> "idle", rows |-> <<>>]
  /\ baselines' = Aggregate(aggregation.rows) \/ UNCHANGED baselines
  /\ UNCHANGED archive

BaselineNext == ReadArchive \/ UploadBaselines

-----------------------------------------------------------------------------
(* Properties.                                                             *)

Rows == FlattenSeq(archive)

\* Who may vouch for a value of a browser version: addresses, per day, with a
\* row that shows it.
Vouching(k, Shows(_)) ==
  {<<Rows[i].ip, Rows[i].day>> :
     i \in {j \in DOMAIN Rows : BrowserKey(Rows[j]) = k /\ Shows(Rows[j])}}

\* "Botnet must spread across many IPs to move histograms": no value counts
\* more often than there are addresses and days that showed it, on a device
\* and a line nothing was held against; TLS values only where nothing rewrites
\* them.
VotesAreEarned ==
  baselines # NoValue =>
    \A k \in DOMAIN baselines.browsers :
      LET h == baselines.browsers[k]
          earned(row) == ~row.tampered /\ ~row.automated
          jsShown(v) == Vouching(k, LAMBDA row : earned(row) /\ row.js = v)
          tlsShown(v) == Vouching(k, LAMBDA row :
            /\ earned(row) /\ row.tls = v
            /\ ~row.proxyDetected /\ row.asnCategory \in CleanNetworks)
      IN /\ \A v \in DOMAIN h.js : h.js[v] <= Cardinality(jsShown(v))
         /\ \A v \in DOMAIN h.tls : h.tls[v] <= Cardinality(tlsShown(v))
=============================================================================
