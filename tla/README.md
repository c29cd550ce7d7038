# A TLA+ development of ms-argus-api

ms-argus-api collects browser scans ("integrity" submissions), scores them, and
sells the verdicts to merchants. It runs as AWS Lambda functions over DynamoDB,
Valkey, S3 and Firehose. This directory models the parts of it in which several
actors meet (concurrent invocations, retrying clients, stores that execute what
was already given up), checks them with TLC and proves the most important ones
with TLAPS.

Paths below are relative to `src/src/` unless they start with another directory.

## The system

| Component | State it keeps | Operations | Talks to |
|---|---|---|---|
| **session-get** (`application/session-get.ts`, `handlers/session-get*`, `helpers/credits.ts`) | none of its own | verify token, verify attestation, debit, read, bind, project | merchants table, integrity-results table, SSM |
| **token and attestation checks** (`helpers/token-verifier.ts`, `helpers/sdk-attestation.ts`) | a cached public key per container | verify, load key, refresh in the background | SSM |
| **ingestion** (`handlers/ingestion/*`) | integrity-results rows, archive records | decode, hydrate evidence, check MAC, build record, stamp velocity, project, archive, put | everything below |
| **request middleware** (`handlers/ingestion/middleware.ts`, `gzip.ts`, `helpers/ecdh-decrypt.ts`, `helpers/get-ecdh-keys.ts`) | ECDH keys (30 min) | decrypt, unzip, parse, check seal and token presence | Secrets Manager |
| **IP velocity** (`helpers/ip-velocity.ts`, `handlers/ingestion/ip-velocity.ts`, `helpers/hll.ts`, `helpers/valkey-client.ts`) | hits, blocked hits and a device sketch per address and hour | update, bump | DynamoDB or Valkey |
| **STUN candidates** (`helpers/sigint-v6-decode.ts`, `helpers/stun-nonce-tracker.ts`) | an LRU of redeemed candidates per container | decode, claim | the STUN server's clock |
| **PAT attestation** (`handlers/pat-attest/*`, `helpers/pat-signed-token.ts`, `helpers/redeem-pat-token.ts`) | used token hashes (30 days), issuer key cache | challenge, verify and claim, sign, redeem | Valkey, the issuer's directory |
| **probe evidence** (`helpers/redeem-sigint-tokens.ts`, `verify-cf-token.ts`, `handlers/ingestion/sigint-hydration.ts`) | none; tokens in a table of the platform | strip, redeem, verify, stamp | the TCP and HTTP/2 probes, the CloudFront function |
| **device history** (`helpers/device-history.ts`, `handlers/ingestion/device-history-workflow.ts`) | a sealed blob the client carries | open, bind, analyse, add, seal | the client |
| **device identity and MAC** (`helpers/device-identity.ts`, `helpers/device-mac.ts`) | none | verify a signature and record the outcome; verify what the SDK collected, or refuse | - |
| **caches and loaders** (`helpers/get-aws-secrets.ts`, `get-ecdh-keys.ts`, `cpi-merchant-resolver.ts`, `token-verifier.ts`, `services/network/*`) | one value or map per container, with an age | get, refresh, share a load in flight | Secrets Manager, SSM, DynamoDB, S3 |
| **analysis** (`analysis/*`, `services/profile/*`) | none | signals of a submission | probe evidence, classified networks, statistics |
| **projection and scoring** (`helpers/merchant-projection.ts`, `proxy-merchant-projection.ts`, `scoring/*`, `projections/*`) | none | axes, verdict, tags of a record | the analysis blocks |
| **network classification** (`services/network/categorize.ts`, `cidr-tree.ts`, ...) | compiled ranges | lookup of an address or an ASN | the datasets |
| **scheduled builders** (`handlers/ip-class-*.ts`, `browser-baseline-builder.ts`) | datasets in S3 | read, merge, write | S3, RDAP, PeeringDB |
| **warm-up**, **infrastructure** (`lib`), **scripts** | - | - | - |

A scan goes: device -> middleware -> probe evidence -> (proxy product: its own
check) -> MAC, identity, history -> analysis -> record -> velocity -> projection
-> archive and table; later the merchant's session-get pays for and reads it.

What is hard about it:

* *Concurrency* is between containers. A container serves one invocation at a
  time, so that code between two awaits is atomic, but a promise the handler
  stopped waiting for (the archive put, a velocity update that lost its race, a
  key refresh) goes on past the answer, and may be frozen and thawed later. The
  daily and weekly jobs read, change and write whole files, and nothing keeps
  two of them apart.
* *Delivery*: AWS clients give each attempt 1.5 s and retry, ioredis resends
  after a reconnect. A command may be executed twice, or after its caller gave
  up. Puts and the claim of a PAT are conditional; debits and counters are not.
* *Time*: an hour bucket may turn between a snapshot and its bump, a candidate
  has seconds of another machine's clock, tokens and caches expire.
* *Crashes*: Lambda stops an invocation at its timeout, and replaces containers
  with their in-memory state.
* *Clients* carry state for the server (tokens, the signed blob, the history)
  and may bring back any of it, at any time, from anywhere.
* *Rules*: two dozen detectors feed three ladders of scores with excuses for
  networks and browsers that are odd but honest. Each is tested alone; what a
  pair of them does to each other is not.

What makes each component correct:

* session-get: nobody gets verdicts that were not paid for, a request rejected
  before the debit costs nothing, verdicts go to the scan's merchant only, a
  stored scan is found, every request ends.
* ingestion: the first record of a scan stays, a 200 means there is one, one
  submission is counted as stored, a refused one leaves nothing, a stored one is
  on its way to the archive, every submission is answered whatever the stores
  do.
* IP velocity: blocks belong to their hour and to hits, the sketch is not made
  of other devices, rows expire.
* STUN candidates: one session per candidate while it is remembered, a retry is
  not refused, what is called forged is forged.
* PAT: one scan per token, evidence belongs to its scan, a genuine token is
  refused only for a replay, keys only advance.
* caches: nobody is served what was replaced a lifetime ago, nobody is rejected
  for an outage that is over.
* builders and classification: a rule is lost only to a writer that did not see
  it, a lookup finds what covers an address, an outage of a source does not wipe
  what it told, statistics count only what was earned.
* evidence, analysis, scoring: an honest scan comes out clean, but for the cases
  the code is known to misread (they are named one by one), a clean verdict
  rests on evidence of the probes, more evidence never helps, the reduced
  product tells nothing of the device, a history is its device's.

The hazards these properties are aimed at are listed, each at its line, in
`PROJECT.json`. Some of them are not faults to be caught but what the code
does (a sketch that loses devices, an overlay emptied by a failed refresh, runs of
the discoverer that overlap, a resent claim that is answered as a replay, a token
of a rotated key): their property names them as its exception and says that there
is no other; their notes say so.

## Modules

| Module | What it is |
|---|---|
| `CreditLedger` | abstract: what session-get promises about money |
| `SessionGet` | one invocation of session-get per element of `Requests`, with the two tables |
| `SessionGet_proofs` | its theorems |
| `ScanStore` | abstract: what ingestion promises about records |
| `Ingestion` | one ingestion invocation per element of `Submissions`; instantiates `IpVelocity` |
| `Ingestion_proofs` | its theorems; instantiates `IpVelocity_proofs` |
| `IpVelocity` | the rollup of one address, in DynamoDB and in Valkey |
| `IpVelocity_proofs` | its theorems |
| `CandidateClaims` | abstract: what a container promises about redeemed candidates, to ingestion and of its tracker |
| `StunRedemption` | decoding and the tracker of one container, with clocks |
| `StunRedemption_proofs` | its theorems |
| `PatAttestation` | the PAT endpoint, its ledger, its key caches, and the scans that accept its wrappers |
| `PatAttestation_proofs` | its theorems |
| `CidrRanges` | rules for blocks of addresses, compiled and searched |
| `OverlayDiscovery` | the overlay in S3, its nightly discoverer and its repair script |
| `AsnDataset` | the weekly build of the ASN dataset |
| `BrowserBaselines` | the daily statistics of browsers |
| `DatasetCaches` | what a container keeps of a source: six kinds of cache |
| `SealedTransport` | how a request's body is opened, with keys that are cached and rotated |
| `NetworkData` | composes the six modules above, `CidrRanges` to `SealedTransport` |
| `NetworkData_proofs` | theorems of these six |
| `ScanValues` | absent values, lookups, first-match lists |
| `ScanValues_proofs` | lemmas about them, and about the network analysis |
| `SigintHydration` | which evidence of a submission the analyses get to read |
| `NetworkVerdict` | addresses, network class, VPN and proxy analyses; the network axis |
| `DeviceAnalysis` | TLS, kernel, client hints, engine, workers, timezone, language |
| `DeviceVerdict` | the automation and device tampering axes |
| `MerchantProjection` | verdict, tags, flags, identification of both products |
| `DeviceHistory` | the blob a client carries |
| `DeviceSeals` | what a client's signature and MAC cover, and how they are checked |
| `ScanAnalysis` | composes the eight models above, `ScanValues` to `DeviceSeals`: from composing a scan to reading it |
| `ScanAnalysis_proofs` | its theorems |
| `MC*` | small instances for TLC |

Definitions whose comment starts with "Variant:" are wrong on purpose. Nothing
uses them; each is the form a plausible bug would give the definition after it,
and shows that a property can tell the two apart.

### SessionGet

`pc[r]` is where invocation `r` is, or what it answered: "authorize" (token and
attestation are checked), "debit" (about to send an attempt), "debiting"
(waiting for it), "fetch". `Receive`/`RejectPath` are the base handler's path
checks, `Authorize` is `authorize` followed by `verifyOptionalAttestation`
(there is no await between the signature check and the attestation),
`KeyLoadFails` is the SSM read that throws. `SendDebit`, `ExecuteDebit`,
`RetryDebit` and `FailDebit` are the UpdateItem of `decrementCredit`, seen from
the client and from the table: an attempt on `wire` may be executed at any later
time, or never, and its answer may be lost. `FetchAndAnswer` and `FetchFails`
are the consistent read, the binding of the attestation, the projection (which
may throw: a billed 500, "projection_failed"), and the 404 that a failed read is
answered with. `Kill` is Lambda's. The environment grants credits
and deactivates merchants (the platform owns that table), stores rows
(ingestion) and expires them (TTL).

Abstracted: a signature is who made it, a row is the public key on it, the
projection is the fact that a verdict was given.

### IpVelocity

One address, two stores. In DynamoDB a call reads the sketch (`ReadSketch`, not
consistent, or empty on any error), adds to it in memory, and sends an
UpdateItem that ADDs the hit and SETs the whole sketch (`ExecuteWrite`). In
Valkey a call sends one pipeline: `ExecutePipelined` executes its commands one
by one, other clients' in between, `RefusePipelined` is one that fails, and
`AnswerPipeline` the `exec()` that resolves anyway. `Bump` and its relatives are
`bumpVelocityBlocked`. A sketch is the set of devices added; the estimate of a
HyperLogLog and the first and last seen times are left out.

### Ingestion

From the router to the answer: evidence (`Hydrate`, with eventually consistent
token reads), MAC, the proxy product's stricter evidence and its uncaught
prewarm (`PrewarmFails`), the record with the claim of its STUN candidate
(`BuildRecord`, `RejectReplay`), the race between the velocity update and its
deadline (`Project`, `VelocityDeadline`), the bump of a block, then
`persistIntegrityRecord`: the archive put is started, the conditional Put is
sent, retried, executed or failed. An SDK that resends a scan is another
submission of the same shape. `IpVelocity` is instantiated with the submissions
as its calls; its own steps happen beside the handler's (`VelocityRuns`).
`rows[k]` is the submission whose record is stored, so that a replaced record is
visible.

Abstracted: the decoding of the body (`RejectRequest` has its outcomes), the
contents of the record, which verdict a record has (a block is a choice).

### StunRedemption

A submission is one step, as in the code: the first candidate in the list that
is authentic and fresh is claimed in the tracker. The tracker is a function from
the candidates it remembers to their session, the time of the claim and a stamp
of the last use (the number of the claim that used them), the least of which is
evicted; an entry is invisible when it is older than the TTL and disappears when
it is read, evicted or purged by a timer. The STUN server stamps candidates with
its own clock, which may be ahead or behind. Submissions list candidates that
were issued, a forged one or garbage, in any order; what a list is called
(`DecodeReason`) is a function of the clocks and the list, so its properties
quantify over every list a client could send in a state.

### PatAttestation

`pc[r]` follows one call through `handler.ts`: without a token it gets a
challenge naming the key its container has cached; with one it waits for the key
(`AwaitKey`), verifies, claims the hash with `SET NX EX` in Valkey, and signs a
wrapper. The claim is on a wire like the debit of session-get: it may be
executed and not answered, and ioredis sends it again. The directory cache of a
container has fetches in flight that answer late and out of order; the issuer
publishes keys with a not-before date and mints tokens under any of them.
`Accept` is ingestion redeeming a wrapper for a scan. A signature is which key
made it, a tick is some minutes.

### NetworkData and its parts

`OverlayDiscovery` has every overlay ever written (the last one is in S3) and,
per run, what it read and found; a discoverer that cannot read the overlay goes
on with an empty one, as the code does. `AsnDataset` is the build with its
carry-forward of PeeringDB types, `BrowserBaselines` the aggregation of archived
scans with its exclusions and its deduplication. `DatasetCaches` is one cache
with concurrent callers over a source whose versions are numbered: `Ttl` ticks
of life, loads that fail, loads shared in flight, background refreshes; `kind`
selects which file's rules apply (what expires, who shares, what a failure
leaves). `SealedTransport` is one of those caches in use: `Rotate` and `Publish`
are an operator's two writes of the ECDH keys (with the pair before, or in its
place), `AskForKeys` is a sealed request that the middleware gets the keys for,
`Decrypt` tries every pair with either day, `AnswerPlain` is every other
request, which is parsed, unzipped or refused without keys. A container has one
request at a time.

`CidrRanges` sorts and searches with sets of positions and a recursive function,
the order being the one a stable sort gives: it is then a subject of proofs.

These parts share no other state - a container sees of a builder only that the
file changed, which is `Change` of the caches - so `NetworkData` follows one of
them per behaviour instead of multiplying them.

### ScanAnalysis and its parts

The analyses are pure functions, so their modules are operators: one per
detector or ladder, over records whose fields are what the detector reads. A
user agent is the set of marks the patterns look for, a JA4 or an HTTP/2
fingerprint is a name in the tables the code has, an IPv4 address is its number
(/16 and /24 are divisions), severities and scores are percentages, logarithms
are bits. Patterns are tried in the code's order (`OneOf`). In `DeviceSeals` a
signature is who made it and over what, a MAC is what it was computed from.

`ScanAnalysis` puts them in sequence around two things that do have state, the
blobs the devices hold and the record. `Compose` makes the scan of an honest
device on a line, `Tamper` gives one field of it another value (a patch a tool
leaves, another TLS stack, a probe reached through another address, a token that
is expired, unlisted, sealed with another key or withheld) before the SDK signs
and computes the MAC (`SealedBySdk`), `Alter` changes the submission after that,
`Submit` presents a blob, hydrates, verifies, analyses and stores, `Refuse` is
the 400 for missing evidence or for a MAC that does not match, `Read` is the
merchant's response, `Deliver` and `LoseAnswer` whether the device gets its new
blob. A probe sees an address (`line.tcp`, `line.h2`) that need not be the
request's (`line.source`): its token is then not redeemed (`RedeemToken`), and
the analyses read a record without it. `FieldsAssumption` says what may be
tampered with: any field, to any value of it, but a line keeps its fields and a
token is one of the kinds the module knows.

## Runs

| Run | Instance | Shows |
|---|---|---|
| `session_get` | 2 invocations, 1 merchant, 0..2 credits, 2 attempts each, 7 shapes of request (one per check that may fail), fairness | the money and verdict properties, that `SessionGet` implements `CreditLedger`, and that every request ends |
| `session_get_double_debit` | as above | *violated*: a retried debit may burn two credits |
| `ip_velocity` | 2 calls, 2 devices, 2 hours, 2 attempts, both stores | the properties of the rollup |
| `ingestion` | 2 submissions, 2 containers, 5 shapes, 2 Put attempts, DynamoDB velocity | the properties of records and refusals, and that `Ingestion` implements `ScanStore` |
| `ingestion_answered` | 1 submission, both stores, 2 attempts, 2 hours, fairness | every submission is answered |
| `stun_redemption` | 2 sessions, 3 candidates, 2 entries, clocks off by a second | who may redeem, who is refused, what is called forged |
| `stun_forgery` | 1 candidate, clocks that agree | *violated*: a genuine stale candidate is called forged |
| `pat_attestation` | 2 calls, 2 containers, 2 keys, 1 serial, 2 scans, claims sent twice | one scan per token, whose evidence it is, who is refused, keys only advance |
| `network_data` | 4-bit addresses, 2 discoverers and a repair, 2 builds, archives of 3 rows, 2 callers of each cache over 2 lifetimes, 28 requests over a rotation and 2 midnights | rules lost only unseen, lookups that are sound, and complete where no blocks overlap, earned votes, an outage outlived, caches stale or rejecting only as meant, genuine scans opened and nothing else |
| `network_lookup` | the overlay part | *violated*: an address of a wide block is not found behind a smaller one |
| `dataset_recovery` | the cache part, the datasets | *violated*: callers are rejected for an outage that is over |
| `scan_analysis` | 15 honest scans (9 browsers, 9 kinds of line), 45 tamperings and 11 alterations of a sealed submission, up to 2 of them on the first scan (an edited blob is one), 3 scans of 2 devices, blobs of 2 visits | which honest scans are clean, suspect or blocked, clean rests on probes, evidence never helps and cannot be taken back once sealed, the reduced product is about the network, histories are their device's |

**Why these bounds.** The actors of each module are alike and meet in one store
at a time, so two of them show every pairwise race; a second attempt is the one
whose predecessor may still be executed, and two credits are enough for one to
be left when the other is burned. `MaxHour = 1` lets one hour turn, before or
after any step. `CreditCap`, `MaxHour`, `MaxTime`, `MaxClaims`, `MaxListed`,
`MaxSkew`, `MaxSends`, `MaxVersion`, `MaxScans`, `ReturningScans`,
`TamperedScans` and `MaxTamperings` are bounds of the exploration and of nothing
else; what they hide for session-get the theorems cover. In `stun_redemption`
three candidates fill a tracker of two and the third tick is past the TTL, so
that both ways of forgetting occur; the fifth claim is the first that can retry
after its candidate was evicted and redeemed by somebody else. `ingestion` takes
one velocity store (the one with fewer steps), because `ip_velocity` has both
and its properties do not depend on who calls. In `pat_attestation` one rotation
and one cache lifetime put a fetch before, across and after it. Four bits of
address hold a block, two of one network inside it and one beside it, which is every relation
two blocks can have. A day of two ticks (`TicksPerDay`) is a lifetime of the
keys, so that a rotation, an expiry and a midnight meet in every order, and a
request may be up to three ticks old. In `scan_analysis` two tamperings show
every pair of rules that meet; only the first scan is tampered with, since a
later one differs only in its history, and the third is the first at which a
blob of two visits overflows. Later scans are of `ReturningScans`, one for each
address and one that is attested: their history knows no more of them than the
address, and theirs are the other devices a reduced product's answer is compared
with. The honest lines are the ones the code has carve-outs for: a pool of
one /24, a candidate of the same /16, a carrier's NAT, a company's gateway whose
TCP probe leaves elsewhere, no candidate at all; and on the side of the device,
what a path or a browser makes of an honest scan: behind the gateway a Firefox
whose TLS, kernel and place do not fit (clean) and a Chrome with the gateway's
own JA4 (block), Safari behind Apple's relay, listed or not, with or without
HTTP/2 evidence (clean, suspect, block), a browser that starts no worker
(suspect), one whose baseline is unlikely (suspect), Brave's shared worker
(block), lists in its scopes (block), Edge on iOS from a line with addresses of
both families (block, and suspect for the reduced product). So every disjunct of
`Misread`, `Doubted` and `LineDoubted`, and every carve-out beside them, has a
scan that meets it.

Requests and submissions that nobody sends may leave a system without a step
(all killed, nothing on the wire): the system may stop, and deadlock is not
checked.

**Fairness.** `SessionGet!Fairness` is weak fairness of the handler alone: an
await ends in an answer, an error or the client's timeout, and Lambda resumes
the code. Nothing is assumed of the tables: `RetryDebit` and `FailDebit` are the
timeouts. `Ingestion!Fairness` is the same, plus the command timeout of the
bump, which is awaited without a race; the velocity update itself may hang for
ever. Lambda's own timeout would also end an invocation; it is not needed, so
`Kill` has no fairness. The other modules have no liveness property: a cache
that answers wrongly, or rejects when nothing failed, is a safety violation of
the state in which it does.

## What the violated runs mean

1. `session_get_double_debit`: `UPDATE credits - 1` is atomic but not
   idempotent. An attempt the table executed after the client's 1.5 s were over
   is repeated. `EveryReadIsPaidFor` still holds: the error is always on the
   merchant's side.
2. `stun_forgery`: a candidate with a valid MAC that is too old takes the branch
   of a failed MAC. The scan is scored as tampering; the branch its comment
   describes is unreachable.
3. `network_lookup`: the bisection of `cidr-tree.ts` looks at one predecessor
   after a miss; with a small block inside a wide one, an address of the wide
   block behind the small one is not found. The discoverer writes such overlays.
   `LookupIsExact` is the other half, and proved: without overlaps nothing that
   is covered is missed.
4. `dataset_recovery`: `asn-classifier.ts` and `browser-baselines.ts` clear the
   shared promise of a load only when it succeeds; after one failure the
   container rejects for ever, and fails every proxy scan.

Smaller divergences met while modelling, not runs.

*Money and records.* A credit is burned for a 404 as well
(`helpers/credits.ts:6` says "on each successful session-get"); the archive put
starts before the row is stored (`helpers/firehose-archive.ts:9-11` says
"already durably stored"), and both the archive and the velocity hit are
repeated by a retry that `src/README.md:62` calls idempotent.

*Velocity and candidates.* `EXPIRE` runs before the first block of the hour has
created the counter, and the `INCR` of the bump creates it without a TTL
(`helpers/ip-velocity.ts:319-324`); an error of one pipelined command is
replaced by a fallback, so that a record can be stamped with `hits: 0` where the
documentation promises null (`:245-256`, `:68`). The TTL of a redeemed candidate
counts from the claim, freshness from the whole second of the issue, so that an
entry may expire up to a second before its candidate
(`helpers/stun-nonce-tracker.ts:34-37`).

*Evidence.* `helpers/redeem-sigint-tokens.ts:175-178` says "Real SDK traffic
always redeems from the same IP that minted"; the pool carve-out of
`analysis/ip-consistency/index.ts:200` is there because carriers' traffic does
not. Such an honest scan loses that probe's evidence, and an honest *proxy* scan
from such a line is refused with 400, since the product needs all three probes.
The signature of the CloudFront blob does not cover timezone and country
(`helpers/verify-cf-token.ts:153`), which the timezone and language analyses
trust. The blob is not bound to the source address, and the history's visits use
the source address where the record uses the first forwarded one. An HTTP/2
token may be sent inline and is redeemed from there (`resolveProbeToken`), but
the signature is only checked over the one on its own
(`helpers/device-identity.ts:109-110`): such a device is unverified and scores
60. The header of `device-identity.ts` (`:10-13`) derives freshness from the
token's 90 s, but the verification does not ask whether the token was redeemed;
`helpers/payload-schema.ts:215` still describes a signature over
`xor(sigintH2Token, K)`.

*Transport.* `src/README.md:50` lists v1, v2 and v3 bodies, but only v3 is
accepted (`contracts/integrity-collect.ts:10`). `helpers/get-ecdh-keys.ts:9-10`
says that the previous key is kept on rotation; the repository's script writes
none (`scripts/generate-ecdh-key.ts:77`), and even where it is kept, a container
that loaded the keys just before refuses the *new* key until its half hour is
over. A client whose clock is ahead is refused around midnight, since only today
and yesterday are tried (`helpers/ecdh-decrypt.ts:164-167`). The comment of its
size limit (`:108-118`) speaks of /v1/integrity-collect, whose bodies are not
inflated any more.

*Overlay.* `services/network/auto-overlay.ts:12-14` says that the discoverer
merges with what was there, "so the file grows monotonically". A run merges with
what it has read: an overlay that could not be read counts as none
(`handlers/ip-class-discoverer.ts:224-226`), and of two overlapping runs the last
one writes. `RulesLostOnlyUnseen` excuses exactly these two.

*Analysis.* Edge on iOS is expected to have Chromium's TLS
(`analysis/ja4-ua/index.ts:49-57`,
`analysis/browser-engine/ua-parser.ts:29-31`), so an honest one scores 100.
`analysis/worker/index.ts:82-85` compares lists by reference, a fault that
`services/profile/anomaly/worker-scope-consistency.ts:80-92` documents as fixed
there: a browser that reports a list in each scope (`ListValues`) scores 100
though they are equal. `checkAsnCategory` reuses the code `IP_PROBE_SCATTER`, so
that a catalogued network is reported as probes that disagree. A line of IPv6
addresses only has integrity 0.1, and a dual-stack line counts as scatter: an
honest client whose probes leave over both families is suspect (60). The
segment size of a privacy relay raises the VPN score above its 50 though
`scoring/network-tampering.ts:132-144` calls it telemetry.

*Honest devices that the code misreads.* `src/helpers/SCORING.md:165` says of a
corporate shield that it "bypasses JA4/H2 mismatch rules (the JA4 belongs to the
shield, not the browser)". `scoring/device-tampering.ts:196,200` takes the
shield into account for the TLS family, the kernel and the time zone, but not for
the JA4 (`:189`), which is definitive alone (`:229`): behind a gateway that ends
TLS with a handshake of its own an honest browser scores 100. Brave gives a
shared worker other compute, memory and languages; `helpers/worker-scope-evidence.ts`
recognises it, and its test (`helpers/worker-scope-evidence.test.ts:70-108`) has it
of a normal Brave in an iframe, but the evidence is only shown to the merchant
beside a device tampering of 100 (`helpers/merchant-projection.test.ts:3812-3870`,
"without weakening the raw score"). An exit of a privacy relay that Apple's list
does not have counts as Apple's only if the HTTP/2 fingerprint shows Safari as
well (`isVerifiedAppleRelay`); where that evidence is missing the kernel of the
relay is held against an honest Apple device, 100, though `SCORING.md:166` lets a
relay bypass the rule "when confirmed". No worker at all scores 50. These, Edge
on iOS, lists and baselines are `Misread` and `Doubted` in `ScanAnalysis`;
`HonestScanIsExcused` says that they get exactly this action and nothing else
does. They are not violated runs of their own, since each would say in a trace
what the property, proved, says of all such scans.

*SCORING.md* is behind the code on other tiers of device tampering too. It has
the missing worker oracle at 60 (the code: 50), no shared worker at 50 (no such
rule), a divergence of a worker at 25 and a JA4 mismatch alone at 60 (both 100),
and five lies nowhere (60). The models follow the code.

*Scoring.* The weak signs of a headless browser are not counted once there is
any other automation evidence (`scoring/automation.ts:183-184`), although enough
of them score up to 100: a scan blocked for them becomes suspect (60) when its
CDP proxy trap is found as well, and clean when it is attested besides (60 is
lowered to 25). An attestation "caps soft automation evidence"
(`helpers/merchant-projection.ts:395`), but soft residue of CDP scores 75 and is
not capped. A corporate gateway does not zero the proxy waterfall, which
`scoring/shared.ts` says it does. An attestation lowers automation of 60 to 25.
One worker scope with a mobile user agent zeroes the weak and the timing
evidence of automation (the device axis is then 100 for the divergence). The
tags of the full product follow the category of the network, those of the
reduced one its class, and may differ. `identityMismatch` of the history is
never true, its `scanCount` excludes the present submission that its comment
includes, and its key is used though the signature is not verified.

*Withholding is not evidence.* A scan that drops scopes, candidates or a token
can score lower than one that has them; `EvidenceNeverHelps` is about adding a
contradiction, not about taking away the material for one, and its formula says
so (`Shown`: the evidence of the three probes, and whether there is a signature
at all). It has two other exceptions: the weak signs above (`WeakSignsHidden`),
found when the sum of findings was proved, and a withheld worker
(`WorkerWithheld`): a device that blocks a scope has no divergence in it. What the MAC covers cannot be withheld: an altered submission is
refused.

## Proofs

Every safety property of a passing run is a theorem, but for
`EvidenceNeverHelps`, of which two theorems say what is true in general: for any sets of requests, keys, networks or devices and any bounds that
satisfy the modules' assumptions, where a run has one small instance.

| Module | Theorem | Property |
|---|---|---|
| `SessionGet_proofs` | `TypeCorrect` | `TypeOK` (no balance is ever negative) |
| | `RejectionsAreFree` | `RejectionIsFree` |
| | `VerdictsOnlyToOwners` | `VerdictOnlyToOwner` |
| | `ReadsArePaidFor` | `EveryReadIsPaidFor` |
| | `StoredScansAreFound` | `StoredScanIsFound` |
| | `LedgerImplemented` | `LedgerPromise`: `Spec` implements `CreditLedger` |
| `IpVelocity_proofs` | `TypeCorrect` | `TypeOK` |
| | `BucketsExpire` | `RowsExpire` |
| | `DevicesAreKept` | `NoDeviceLost` |
| | `DevicesAreHits` | `DevicesWithinHits` |
| | `BlocksBelong` | `BlocksAreOfTheHour` |
| `Ingestion_proofs` | `TypeCorrect` | `TypeOK`, the rollup's included |
| | `UsesTheRollup` | `Spec` implements the rollup's, `V!Spec` |
| | `RollupStaysSound` | the rollup's four safety properties, of ingestion |
| | `StoredIsArchived` | `StoredIsArchiving` |
| | `OneIsStored` | `StoredOnce` |
| | `RefusedLeavesNothing` | `RejectionLeavesNoTrace` |
| | `CandidatesUsedOnce` | `SingleUse` |
| | `ClaimsKeepPromise` | `Spec` implements `CandidateClaims`, per container |
| | `ScansAreKept` | `StorePromise`: `Spec` implements `ScanStore` |
| `PatAttestation_proofs` | `TypeCorrect` | `TypeOK` |
| | `KeysAdvance` | `KeysOnlyAdvance` (an action property) |
| | `EvidenceIsGenuine` | `EvidenceIsOfThisScan` |
| | `TokensVouchOnce` | `OneScanPerToken` |
| | `RefusalsAreReplays` | `RefusedOnlyForReplay` |
| `StunRedemption_proofs` | `TypeCorrect` | `TypeOK` (the tracker keeps its bound) |
| | `OneIsEnough` | `OneValidIsEnough` |
| | `ReplaysFollowForgetting` | `ReplayOnlyAfterForgetting` |
| | `RefusalsAreReplays` | `RefusedOnlyForReplay` |
| | `TrackerKeepsPromise` | `Spec` implements `CandidateClaims` |
| `NetworkData_proofs` | `OutagesAreForgotten` | `OutageForgotten` |
| | `StaleValuesAreExcused` | `StaleOnlyAfterFailure` |
| | `SealsHold` | `SealHolds` |
| | `PdbSurvives` | `PdbOutlivesOutage` (an action property) |
| | `LookupsAreExact` | `LookupIsExact` |
| | `RulesAreKept` | `RulesLostOnlyUnseen` (an action property) |
| | `VotesMustBeEarned` | `VotesAreEarned` |
| `ScanAnalysis_proofs` | `HistoriesAreOwn` | `HistoryIsOfItsDevice` |
| | `ProxyVerdictsAreOfTheNetwork` | `ProxyVerdictIsNetworkOnly` |
| | `CleanVerdictsRestOnProbes` | `CleanRestsOnProbes` |
| | `HonestScansAreExcused` | `HonestScanIsExcused` |
| | `FindingsAddUp` | a record that shows more is judged no better, but for the weak signs |
| | `HistoryNeverHelps` | no blob makes a scan's verdict better than none |

**Assumptions** are the named ASSUMEs of the modules, which TLC evaluates in
every run. They say of the constants: what is counted is finite; attempts,
lifetimes and capacities are at least one; what an actor sends is a request of
the declared shape; absence (`None`, `Nothing`, `Absent`, `Unlisted`, `Forged`)
is none of the values it stands beside, nor a key of the code's tables
(`WireTablesAssumption`, `OverlayAssumption`). Three say more. `WidthAssumption`
lists what the proofs use of powers of two, which the provers know no laws of.
`FieldsAssumption` says that a tampering gives a field another value of it: a
line is what the network shows of a client, which has all of its fields whatever
the client does; a token is one of the kinds the stores and the keys tell apart,
or none; the time in a signed blob is a number. `HonestAssumption` says what an
honest scan is. Its device (`HonestDevice`) is the browser it says it is and has
no mark of automation; it may tell up to four lies, have a quarter of the weak
signs (real browsers do), start no workers, have an unlikely engine, and its
scopes may differ as Brave's do (`HonestWorkers`). Its line (`HonestLine`) has
addresses of one pool, or one of either family, or is a carrier's or filter's
that the ASN names; it may be a gateway's or a privacy relay's. What one explains
of the other is `HonestPath`: another TLS stack, JA4 or place only behind a
gateway (or, for the JA4, Edge on iOS), another kernel only behind a gateway or a
relay. None of them asks a detector that has a carve-out to be silent. TLC
evaluates it on the fifteen honest scans of the run, so that its conditions are
met by what they are meant for.

### session-get

* `Typed` is `TypeOK` with two facts it needs to be inductive. `AttemptsLeft`:
  an invocation about to send has an attempt left, or `SendDebit` would exceed
  `MaxAttempts`. `OnlyAuthenticatedBilled`: whoever is at or past the debit, or
  has an attempt on the wire, or was debited, passed the token and attestation
  checks. This is what keeps `Payer` defined for an attempt executed after its
  invocation was killed, and it implies `RejectionIsFree` and most of
  `VerdictOnlyToOwner`.
* `ServedIsBound`: an answered invocation served a row that its attestation is
  bound to; added to `Typed` it gives `VerdictOnlyToOwner`.
* `KeptIsStored`: while an invocation is at work and its `kept` flag is set, its
  row is in the table; `ReadRow` then cannot miss it.

`EveryReadIsPaidFor` is inductive together with `Typed`: an invocation joins
`PaidReads(m)` only in the step that burns a credit of `m` (`PaidForStep`), and
finite-set lemmas (`AddOne`, `PaidReadsFinite`) bound the growth by one. For the
refinement, every step maps to a grant, a burn, a verdict or a stutter
(`LedgerStep`); `FetchAndAnswer` hands out a verdict because before it the
invocation was a paid read that was not yet a verdict (`AnswerHandsOutVerdict`).

### Velocity and ingestion

`ByStore` says what each store leaves to the other, `TtlSetForStamped` that a
bump in DynamoDB finds a ttl: its own write set it. `SketchesWithin` extends
`DevicesWithinHits` to the copies that stale reads come from and to the sketches
that calls are about to write, which may be one ahead (their own device, whose
hit comes with them): without that the step that writes a sketch back is not
covered. `BlocksAreOfTheHour` is about the calls whose bump was delivered, so
that `BlocksCounted` bounds a counter by a set, and `HitsCounted` the calls
stamped in DynamoDB by the hits.

Ingestion's `Checked` is the analogue of `OnlyAuthenticatedBilled`: whoever is
past the checks was read, is proven, and has an attempt left. `TracesAreProven`
extends it to what a stopped invocation leaves behind (puts on the wire, archive
records, calls of the rollup), which gives `RejectionLeavesNoTrace`.
`ArchiveStarted` orders the archive before every put on the wire. `StoredIsRow`
says who is answered as stored *is* the row, and two cannot be. `ClaimHeld` says
whoever passed the STUN check holds the claim until it is forgotten. Every step
of ingestion is a step of `IpVelocity` with submissions for calls, or leaves the
rollup alone (`UsesTheRollup`), so that `IpVelocity_proofs`, instantiated, gives
the rollup's properties of ingestion too. A 200 maps to an acknowledgement of
`ScanStore`, the first execution of a put to the record; a duplicate is
acknowledged since its put was refused by a row that is there.

### PAT attestation

`Stages` says what an invocation holds at each point, `SentClaims` that only
what was sent is on the wire. `AnswersAreLater` is why keys advance: an answer
of the directory under way was asked for when the cached key was there already,
and was true when given. `Genuine` follows a token from the issuer to the
evidence. `ClaimsAreExecuted` (a token is in the ledger because somebody's claim
of it was executed) and `VouchesOnce` (wrappers of a token that is remembered
are of one scan) are inductive together; `CauseOfReplay` says of which step a
refusal comes.

### STUN candidates

`Memory` ties the tracker to the history of claims. Of a candidate it remembers
(`Remembered`): the last use it is stamped with is the last claim of it, its
session redeemed it at the time that is noted and was the last to do so, and
whoever else redeemed it did so before that. Of a redeemed candidate it does not
remember (`Forgotten`): the TTL is over, or `MaxEntries` others were presented
since. The second is preserved by an eviction because the evicted entry has the
least stamp (`EvictedIsLeast`), so that every other entry was used since.

One claim about this tracker turned out to be too strong. An earlier form of
`ReplayOnlyAfterForgetting`, checked with four claims, asked that no claim of
another session be *accepted* before the first is forgotten; the attempt to
prove it failed, and a fifth claim shows why: the session that took over an
evicted candidate retries it and is accepted, whatever was presented in between.
What holds is that it retries what it redeemed itself.

Ingestion has the tracker as a map of which anything may be forgotten at any
time. `CandidateClaims` is the contract between the two: a candidate has one
holder, passes to another session only by being forgotten, and whoever is
refused met its holder. `TrackerKeepsPromise` shows it of the tracker with its
clock, TTL and evictions (an entry that is stale but still there has no holder),
`ClaimsKeepPromise` of ingestion, with the candidates of all containers for
names. Neither is a property of a run.

### Datasets, caches, transport

*Caches.* `NoneKeptRejected`: no cache but the datasets keeps a rejected
promise. `Ages` is the invariant behind `StaleOnlyAfterFailure`: who waits came
in this tick (`Waiting`; `CacheTick` is longer than a load's timeout), versions
are replaced one after the other (`Sourced`), what was read and is waited for
was at the source in this tick (`ReadsAreRecent`), and what is cached was there
when it was cached, but for the empty overlay that stands for a failure
(`CachedWasCurrent`).

*Transport.* `KnownVersions` and `Answering` (whoever is answered after a look
at the keys still holds them) carry what the keys of `DatasetCaches` are to the
request that uses them; `LatelyIsSalted` and `SaltedIsLate` are the arithmetic
of days, that a scan of at most a day is of today or of yesterday.

*The ASN dataset.* `CarriesForward`: a build that looked at the last file has
taken PeeringDB's part from it, if it had none itself.

*Lookups.* What a recursive definition computes is reached by a least
counterexample: a set of numbers that has an element has a least one (`LeastOf`,
from the library's well-foundedness of `<` on the naturals). `SearchHasSolution`
builds the function that the bisection's equations define, `StepIsExact` and
`BisectIsExact` follow `Spans`: no range outside lo..hi holds the address. The
sorted list is a permutation in order (`PlaceFacts`, `InOrderFacts`), by
counting what goes before each element. In the absence of overlaps the
predecessor that is looked at after a miss adds nothing; the code looks at it
for the sake of overlaps, where it is not enough.

*The overlay.* `RunsKnow`: what a run keeps of the overlay it read is that
version, whatever was written since. Then `Merged`, which begins with what was
read, keeps its blocks and names.

*Statistics.* `Learned`: what was uploaded was aggregated of rows of the
archive. The rest is counting: rows kept for a browser have different addresses
or days (`OncePerAddress`), so that the count of a value is that of a set of
those that vouch for it. `FlattenFacts` is the induction over batches, in the
same way as the bisection.

### Analyses

`History` is the invariant for all that has state. `Composed`: whatever was
tampered with, a scan has the fields that a submission has. `BlobsTell`: a blob
a device holds tells of full-product scans in the log that carried its key, in
order, none twice - also after the log grew (`LongerLog`). `Recorded`: a record
is that of the submission and of the blob presented with it, and `Answered` an
answer that of a record. From these, `HistoriesAreOwn` is counting. For
`CleanVerdictsRestOnProbes` a token that is redeemed is shown to be the client's
own, used where it was given (`RedeemedIsOwn`), what is admitted to have one of
each kind its product needs, and an edited or stale blob to put device tampering
at 60 at least (`StaleCfTampers`), which no other axis takes back from the
verdict (`CleanIsBelow`). For `ProxyVerdictsAreOfTheNetwork` two scans with the
same line are shown to have the same addresses and network (`AddressesAlike`,
`NetworkAlike`), which are all that the reduced projection reads.

*Honest scans.* `Untouched`: a scan that nobody touched is an honest one under
some key, and so are its evidence, its signature and its MAC. Three steps then
lead to `HonestScansAreExcused`. Evidence that is withheld is not held against a
device (`Withheld`): a record whose probes were read late or from elsewhere has
the findings of the honest record, or fewer. The device axis of an honest device
is then decided by its path: `HonestDeviceIsExcused` says which findings are
left, `HonestDeviceIsJudged` that the ladder of tampering reaches 100 exactly if
the record is `Misread`, 50 or 60 if it is `Doubted`, and stays below the tier of
a suspicion otherwise, whatever the other findings. On the network axis the
findings are those that the carve-outs excuse (`Mild`), or a relay's or two
families' (`HonestLineIsJudged`); the maximum of the axes is the verdict
(`VerdictOfAxes`). A history that was rolled back only tags.

*What adds up.* `FindingsAddUp` is about any two records: `TamperedAtLeast` and
`AutomatedAtLeast` say that one shows each sign that the other shows, sign by
sign, and that the carve-outs treat both alike; then the ladders of tampering
(`LadderOfTampering`, `TamperingRises`) and of automation (`AutomationRises`),
the attestation and the verdict are monotonic. The attempt to prove it without
an exception showed the weak signs that softer evidence hides, a case no
tampering of the run had reached; there is one now.

*History.* `Rebuilt`: the stored record is, up to now, what the scan and the
blob presented with it give (`RecordOf`), so that it can be compared with the
record the same scan would have given without a blob. The two differ in their
history only (`SameButHistory`), which the full product asks for one thing,
whether it was edited, and the reduced one not at all. `HistoryNeverHelps`
follows: a device gains nothing by choosing which blob it presents, another
device's included, and loses nothing by presenting a genuine one, however old.

### Only model-checked

* Liveness (`EveryRequestEnds`, `EverySubmissionAnswered`): fairness is about
  ENABLED, which is beyond the prover.
* `EvidenceNeverHelps`: it holds of the tables, devices, lines and tamperings of
  the instance, not of any, since a tampering may take away the material of a
  rule (a user agent that no pattern knows is compared with nothing). What holds
  of any is `FindingsAddUp`, for which the findings are the hypothesis, and
  `HistoryNeverHelps`.

The properties of the violated runs are false. No module has a RECURSIVE
operator.

## Plan

Done: the models of the components above, the runs, the safety properties as
theorems, the monotony of the ladders, what becomes of an honest scan and when,
the contract between ingestion and the tracker of candidates. Left:

1. **Monotony of the detectors**: for which tamperings the findings of a scan
   only grow, detector by detector; with `FindingsAddUp` that would be
   `EvidenceNeverHelps` for any tables.
2. **One proof of ingestion with the real tracker**: `Ingestion` and
   `StunRedemption` meet in `CandidateClaims`; a module with both, in which the
   TTL and the eviction are ingestion's, would carry `SingleUse` with the exact
   conditions of `ReplayOnlyAfterForgetting`.

## Not modelled

Warm-up (read-only), `lib` (deployment), `scripts` (offline tools, but for the
repair of the overlay), the batch helpers (`helpers/batch-write.ts`,
`sqs-batch.ts`: no code calls them). Cryptography is modelled by what a valid
signature, MAC or seal says. The arithmetic of the HyperLogLog and of gzip,
base64, HMAC, SipHash and JSON is left out: no property is about it. Of the
response, the velocity projection, the browser's details, the request headers
and the hash of the workers' consensus are left out, and so are evidence texts
and confidences. The segment size component is truncated where the code rounds;
the patterns of `deviceMemory` and of WebRTC lies are a few of theirs; windows
of the history are counted in scans.
