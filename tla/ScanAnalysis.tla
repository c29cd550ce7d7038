---------------------------- MODULE ScanAnalysis ----------------------------
(***************************************************************************)
(* A scan from the device that composes it to the merchant that reads it:  *)
(* the ingestion analyses the submission and stores the record, the answer *)
(* carries the device's new history blob, the merchant's read projects the *)
(* record (handlers/ingestion/integrity-record-builder.ts, integrity.ts,   *)
(* proxy-ingestion.ts; helpers/merchant-projection.ts).                    *)
(*                                                                         *)
(* Devices are honest until they are tampered with: a tampering gives one  *)
(* field of the device, of the line it is on or of what it sends another   *)
(* value, in a few of the first scans. The SDK seals what it finds; an     *)
(* alteration changes the submission after that.                           *)
(* Whoever holds a blob may present it, old ones and other devices'        *)
(* included, and an answer may be lost.                                    *)
(***************************************************************************)
EXTENDS MerchantProjection, DeviceHistory, DeviceSeals

CONSTANTS
  Keys,           \* key pairs of devices
  HonestScans,    \* what honest devices send: records [device, line, sent, pat]
  ReturningScans, \* those of them that devices send later on (a bound)
  Tamperings,     \* records [path, to]: a field and its value
  Alterations,    \* likewise, once the SDK has sealed the submission
  AppleEgress,    \* addresses of Apple's relay
  MaxScans, TamperedScans, MaxTamperings  \* bounds of a behaviour

ASSUME BoundsAssumption ==
  /\ {MaxScans, TamperedScans, MaxTamperings, RecentWindow} \subseteq Nat
  /\ MaxVisits \in Nat \ {0}

ASSUME NoneAssumption == None \notin Int \cup BOOLEAN \cup {Corrupt}

\* What a submission has, tampered with or not: the fields of its line, a
\* kind of token wherever there is one, a time in the signed blob.
LineFields ==
  {"source", "api", "tls", "tcp", "h2", "webrtc", "status", "webrtcBlock", "asn", "rtt",
   "rcvRtt", "mss", "ua"}

Probed(s) ==
  /\ s.line = [f \in LineFields |-> s.line[f]]
  /\ {"tcp", "h2"} \subseteq DOMAIN s.sent /\ {s.sent.tcp, s.sent.h2} \subseteq Places
  /\ "cf" \in DOMAIN s.device /\ "age" \in DOMAIN s.device.cf /\ s.device.cf.age \in Int

\* A tampering leaves a line its fields, a token its kind, a time a number;
\* the product is the path of the request, not a field of the submission.
ASSUME FieldsAssumption ==
  /\ \A honest \in HonestScans : Probed(honest)
  /\ \A t \in Tamperings \cup Alterations :
       /\ Len(t.path) \in 1 .. 3 /\ t.path[1] # "product"
       /\ t.path[1] \in {"line", "sent", "device"} => Len(t.path) > 1
       /\ t.path[1] = "line" => Len(t.path) = 2
       /\ t.path[1] = "sent" /\ t.path[2] \in {"tcp", "h2"} =>
            /\ Len(t.path) = 3
            /\ t.to \in Kinds \cup {None} \cup (IF t.path[3] = "top" THEN {} ELSE {"raw"})
       /\ t.path[1] = "device" /\ t.path[2] = "cf" =>
            Len(t.path) = 3 /\ (t.path[3] = "age" => t.to \in Int)

DeviceFields ==
  {"ua", "hints", "majors", "wire", "engine", "incognito", "nav", "scopes", "tz", "locale",
   "accept", "cf", "lies", "headless", "cdp", "status", "bodyBrands", "shielding", "uuid"}

\* A device as submitted has its fields, its hints and versions theirs.
Whole(d) ==
  /\ d = [f \in DeviceFields |-> d[f]] /\ DOMAIN d.hints = {"header", "probe"}
  /\ DOMAIN d.majors = {"ua", "header", "probe", "scripts"}

\* Its workers say what its window says. Brave gives the shared worker other
\* numbers on purpose; of lists no two are identical, also where none differ.
HonestWorkers(r) ==
  LET all == (Scopes(r.device) \ {None}) \cup {r.device.nav}
  IN \/ IsBrave(r.device) /\ SharedPartitionCandidate(r)
     \/ \A f \in r.blocks.worker.divergences \ {"onLine"}, a, b \in all : ~Differ(a[f], b[f])

\* What makes a device honest: it is the browser it says it is, wherever it
\* can be looked at, and bears no mark of automation. It may lie a little, or
\* as Brave does, have a quarter of the signs of a headless browser, start no
\* worker at all, and have an engine that no earlier session had.
HonestDevice(d) ==
  LET r == [device |-> d, blocks |-> DeviceBlocks(d)]
  IN /\ Whole(d) /\ HonestWorkers(r)
     /\ ~r.blocks.hintsMismatch /\ ~HintsWithheld(d) /\ ~r.blocks.localeTamper
     /\ DOMAIN d.lies.of \cap (WebrtcLies \cup {"Navigator.platform"}) = {} /\ Lies(r) \in 0 .. 4
     /\ d.headless.rating = 0 /\ d.headless.stealth = 0 /\ WeakHeadless(d.headless) \in 0 .. 25
     /\ ~IframeStuck(r) /\ ~PristineCompromised(r)
     /\ ~HardResidue(d.cdp) /\ d.cdp.soft = {} /\ ~ProxyTrap(d.cdp)
     /\ ~Burst(d.cdp) /\ TimingScore(r) = 0

\* And a line: its addresses are of one pool, or all that is known of them is
\* that they are a carrier's or a filter's and the ASN says so, or it has one
\* address of either family; its network is nobody's that sells servers or
\* anonymity, but it may be a privacy relay's; if its candidate shows another
\* address than its own, or none, its path makes no detour.
HonestLine(line) ==
  LET ips == {line.source, line.api, line.tls} \ {None}
      ofAsn == {ByDataset(line.asn), ByCatalog(line.asn)}
      classes == ofAsn \cup {ByCidr(ip) : ip \in ips \cup {WebrtcIp(line)}}
  IN /\ ips \subseteq Int /\ {line.rtt, line.rcvRtt} \subseteq Nat /\ line.source # None
     /\ \/ \A a, b \in ips : a = b \/ (IsV4(a) /\ IsV4(b) /\ a - b < 256)
        \/ \E class \in ofAsn \cap {"mobile", "security_filter"} : classes \subseteq {None, class}
        \/ \E a, b \in ips : IsV4(a) /\ ~IsV4(b) /\ ips = {a, b}
     /\ Known(AsnCatalog, line.asn) \notin {"datacenter", "vpn_proxy"}
     /\ Category(line) = "privacy_relay" => MssComponent(line) \in 0 .. 50
     /\ line.status \notin {"forgery", "parse_fail"}
     /\ WebrtcIp(line) = line.source \/ 100 * line.rcvRtt <= 150 * line.rtt

\* What the line explains of the device: a gateway ends TLS and TCP, and where
\* it does; Apple's relay ends TCP, wherever its exit is listed. Edge on iOS
\* has the engine of Safari.
HonestPath(d, line) ==
  LET blocks == DeviceBlocks(d)
      gated == Category(line) = "corporate_proxy"
  IN /\ "JA4_UA_BROWSER_MISMATCH" \in blocks.ja4Ua.signals => gated \/ "EdgiOS" \in d.ua
     /\ "TLS_UA_MISMATCH" \in blocks.ja4Ua.signals \/ blocks.timezone.geo => gated
     /\ \/ blocks.kernelOs = {} \/ gated \/ line.api \in AppleEgress
        \/ Category(line) = "privacy_relay" /\ blocks.kernelOs = {"KERNEL_OS_MISMATCH_DARWIN"}

\* All of it, with the evidence that is its own; the SDK signs over the
\* HTTP/2 token.
ASSUME HonestAssumption ==
  /\ Keys \cap {None, Unreadable} = {}
  /\ \A honest \in HonestScans :
       /\ HonestDevice(honest.device) /\ HonestLine(honest.line)
       /\ HonestPath(honest.device, honest.line)
       /\ honest.sent.tls = "own" /\ honest.device.cf.age \in -MaxAgeSeconds .. MaxAgeSeconds
       /\ honest.sent.h2.top # None
       /\ honest.pat.attempted => honest.pat.verified

VARIABLES
  scan,       \* the submission being composed, or None
  presented,  \* the blob it was submitted with
  record,     \* what the ingestion stored of it, or None
  response,   \* what the merchant read of it, or None
  held,       \* the blobs that devices have been given
  log         \* of every scan submitted so far, its key, product and address

vars == <<scan, presented, record, response, held, log>>

Products == {"full", "proxy"}
now == Len(log)

------------------------------------------------------------------------------
(* The record of a submission.                                             *)

Visit(s) == [session |-> now + 1, t |-> now, ip |-> s.line.source]

\* The reduced product proves no identity and carries no history.
Identity(s) == IF s.product = "proxy" THEN Absent ELSE VerifyDeviceIdentity(s)

Processed(s, blob) == ProcessDeviceHistory(blob, Identity(s).key, Visit(s), now)

\* The client's address is the first one forwarded; the relay is told by it.
BuildRecord(s, blob) ==
  LET seen == Hydrated(s)
      line == [seen.line EXCEPT !.ua = s.device.ua]
  IN [product |-> s.product, device |-> seen.device,
      blocks |-> DeviceBlocks(seen.device), net |-> NetworkAnalysis(line),
      relay |-> line.api \in AppleEgress, pat |-> s.pat, id |-> Identity(s),
      history |-> IF s.product = "proxy" THEN None
                  ELSE HistoryAnalysis(Processed(s, blob), now)]

------------------------------------------------------------------------------
Init ==
  /\ scan = None /\ presented = None /\ record = None /\ response = None
  /\ held = {} /\ log = <<>>

Compose(key, honest, product) ==
  /\ scan = None /\ record = None /\ now < MaxScans
  /\ now < TamperedScans \/ honest \in ReturningScans
  /\ scan' = [product |-> product, device |-> honest.device, line |-> honest.line,
              sent |-> honest.sent, pat |-> honest.pat, key |-> key, session |-> "own",
              hashes |-> "own", identity |-> None, mac |-> None, sealed |-> FALSE,
              touched |-> {}]
  /\ UNCHANGED <<presented, record, response, held, log>>

\* Nothing, where the field is part of something that is not there.
Put(s, t) ==
  CASE Len(t.path) = 1 -> [s EXCEPT ![t.path[1]] = t.to]
    [] Len(t.path) = 2 /\ s[t.path[1]] = None -> s
    [] Len(t.path) = 2 /\ s[t.path[1]] # None -> [s EXCEPT ![t.path[1]][t.path[2]] = t.to]
    [] Len(t.path) = 3 -> [s EXCEPT ![t.path[1]][t.path[2]][t.path[3]] = t.to]

\* A field is changed at most once.
Change(s, t) ==
  /\ record = None /\ now < TamperedScans
  /\ Cardinality(s.touched) < MaxTamperings /\ t.path \notin s.touched
  /\ Put(s, t) # s
  /\ scan' = [Put(s, t) EXCEPT !.touched = @ \cup {t.path}]
  /\ UNCHANGED <<presented, record, response, held, log>>

Tamper(t) == scan # None /\ ~scan.sealed /\ Change(scan, t)

Alter(t) == scan # None /\ Change(SealedBySdk(scan), t)

\* The reduced product asks for no MAC.
Accepted(s) == Admitted(s) /\ (s.product = "full" => VerifyDeviceMac(s))

\* An edited blob counts as tampering, too.
Submit(blob) ==
  LET s == SealedBySdk(scan)
  IN /\ scan # None /\ record = None /\ Accepted(s)
     /\ blob = Corrupt => Cardinality(s.touched) < MaxTamperings
     /\ scan' = s /\ presented' = blob
     /\ record' = BuildRecord(s, blob)
     /\ UNCHANGED <<response, held, log>>

\* A scan without the evidence its product needs, or without its MAC, is
\* answered 400.
Refuse ==
  /\ scan # None /\ record = None /\ ~Accepted(SealedBySdk(scan))
  /\ scan' = None
  /\ UNCHANGED <<presented, record, response, held, log>>

Read ==
  /\ record # None /\ response = None
  /\ response' = MerchantResponse(record)
  /\ UNCHANGED <<scan, presented, record, held, log>>

Finish ==
  /\ response # None
  /\ log' = Append(log, [key |-> record.id.key, product |-> scan.product, ip |-> scan.line.source])
  /\ scan' = None /\ presented' = None /\ record' = None /\ response' = None

\* The answer arrives with the blob, if there is one.
Deliver ==
  /\ Finish
  /\ held' = held \cup ({Processed(scan, presented).after} \ {None})

LoseAnswer == Finish /\ UNCHANGED held

Next ==
  \/ \E key \in Keys, honest \in HonestScans, product \in Products : Compose(key, honest, product)
  \/ \E t \in Tamperings : Tamper(t)
  \/ \E t \in Alterations : Alter(t)
  \/ \E blob \in held \cup {None, Corrupt} : Submit(blob)
  \/ Refuse \/ Read \/ Deliver \/ LoseAnswer

Spec == Init /\ [][Next]_vars

------------------------------------------------------------------------------
(* Properties                                                              *)

\* What no carve-out of the device axis excuses an honest device for: a
\* handshake that is not its browser's, be it a gateway's, which may alter all
\* else, an engine with a value its baseline has never seen, a worker that
\* differs from the window, be it by Brave's partition, and the kernel of a
\* relay whose exit is not listed, where no HTTP/2 evidence shows Safari.
Misread(r) ==
  \/ "JA4_UA_BROWSER_MISMATCH" \in r.blocks.ja4Ua.signals
  \/ "BROWSER_ENGINE_INCONSISTENT_HARD" \in r.blocks.engine
  \/ r.blocks.worker.divergences \ {"onLine"} # {}
  \/ KernelSignal(r, "KERNEL_OS_MISMATCH_DARWIN")

\* What makes it suspect: no worker answered, an engine that is unlikely.
Doubted(r) == r.blocks.worker.mainOnly \/ "BROWSER_ENGINE_INCONSISTENT_SOFT" \in r.blocks.engine

\* And its line, whichever the product: a relay, or addresses of both families.
LineDoubted(line, r) ==
  LET ips == {line.api, line.tls, r.net.ip.ips.tcp} \ {None}
  IN \/ r.net.ip.category = "privacy_relay"
     \/ /\ r.net.ip.networkClass \notin {"mobile", "security_filter"}
        /\ \E a, b \in ips : IsV4(a) /\ ~IsV4(b)

\* An untouched scan of an honest device comes out clean on all three axes,
\* but for the honest ones above, which are blocked or suspect: no two rules
\* together hold a carrier's address pool, Brave's own wrappers, what a gateway
\* makes of TLS, TCP and place, a listed relay's kernel or a rolled back
\* history against it, or excuse it from what one of them holds against it.
HonestScanIsExcused ==
  response # None /\ scan.touched = {} /\ presented # Corrupt =>
    LET full == response.product = "full"
    IN response.verdict =
         IF full /\ Misread(record) THEN "block"
         ELSE IF (full /\ Doubted(record)) \/ LineDoubted(scan.line, record) THEN "suspect"
         ELSE "clean"

\* A clean verdict rests on what probes saw, for this address and lately: a
\* proxy scan on all of them, a full one on one of them at least, and never
\* next to a blob that was edited or is out of date.
CleanRestsOnProbes ==
  response # None /\ response.verdict = "clean" =>
    LET cf == record.device.cf
        attested == cf.age # None
        own(place) == place.top = "own" \/ (place.top = None /\ place.inline = "own")
        tcp == own(scan.sent.tcp) /\ record.net.ip.ips.tcp = scan.line.source
        h2 == own(scan.sent.h2) /\ scan.line.h2 = scan.line.source
    IN /\ record.net.ip.ips.tcp \in {None, scan.line.source}
       /\ attested /\ response.product = "full" =>
            scan.sent.tls = "own" /\ cf.age \in -MaxAgeSeconds .. MaxAgeSeconds
       /\ IF response.product = "proxy" THEN attested /\ tcp /\ h2 ELSE attested \/ tcp \/ h2

\* What the analyses get to read of the probes and the device's key.
Shown(s) == <<TcpRedeemed(s), H2Redeemed(s), CfParsed(s), VerifyDeviceIdentity(s).sig>>

FullRecord(s) == BuildRecord([s EXCEPT !.product = "full"], None)

Peak(s) ==
  LET r == FullRecord(s)
  IN Max({ApplyPat(Automation(r), r), DeviceTampering(r), NetworkTampering(r.net)})

\* Weak signs are not counted next to soft evidence of automation, also
\* where enough of them score more.
WeakSignsHidden(before, after) ==
  LET score == Automation(FullRecord(after))
  IN score \in {60, 75} /\ WeakEvidence(FullRecord(before)) > score

\* A worker that is kept from answering differs from no window.
WorkerWithheld(before, after) ==
  /\ \E name \in {"web", "shared"} :
       ScopeOf(before.device, name) # None /\ ScopeOf(after.device, name) = None
  /\ ~(Divergences(before.device) \subseteq Divergences(after.device))

\* One more piece of evidence never lowers the score the verdict follows:
\* no weaker rule hides a stronger one, but for the weak signs, and what the
\* SDK has collected cannot be taken back from a full scan once it is
\* sealed. To withhold a probe's evidence, a signature or a worker that would
\* have differed is another thing: what it would have shown is not held
\* against the scan.
EvidenceNeverHelps ==
  [][scan # None /\ scan' # None /\ scan'.touched # scan.touched =>
       LET before == SealedBySdk(scan)
           after == SealedBySdk(scan')
       IN VerifyDeviceMac(after) =>
            \/ Shown(after) # Shown(before) \/ Peak(after) >= Peak(before)
            \/ WeakSignsHidden(before, after) \/ WorkerWithheld(before, after)]_vars

\* The reduced product tells nothing of the device but its user agent's
\* part of the network id: another device on the same line gets the same
\* score, verdict and tags, the network score of the full product.
ProxyVerdictIsNetworkOnly ==
  response # None /\ response.product = "proxy" =>
    /\ response.network_tampering = FullResponse(record).network_tampering
    /\ \A device \in {other.device : other \in ReturningScans} :
         LET proxy == ProxyResponse(BuildRecord([scan EXCEPT !.device = device], None))
         IN response.verdict = proxy.verdict /\ response.tags = proxy.tags

EarlierScans(key) == {i \in DOMAIN log : log[i].key = key /\ log[i].product = "full"}

\* A history tells of scans that carried the device's own key, none of them
\* twice, the present one excluded, whatever blob of whom is presented; a
\* blob does not outgrow its bound.
HistoryIsOfItsDevice ==
  /\ \A blob \in held :
       /\ Len(blob.visits) \in 1 .. MaxVisits
       /\ \A i \in DOMAIN blob.visits : blob.visits[i].session \in EarlierScans(blob.id)
       /\ \A i, j \in DOMAIN blob.visits : i < j => blob.visits[i].session < blob.visits[j].session
  /\ record # None /\ record.history # None =>
       LET earlier == EarlierScans(record.id.key)
       IN /\ record.history.scanCount <= Cardinality(earlier)
          /\ record.history.distinctIps <= Cardinality({log[i].ip : i \in earlier})
          /\ record.history.recent <= Cardinality({i \in earlier : now - (i - 1) <= RecentWindow})
=============================================================================
