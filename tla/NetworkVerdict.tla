--------------------------- MODULE NetworkVerdict ---------------------------
(***************************************************************************)
(* The network half of a scan: which addresses the three probes and the    *)
(* STUN candidate saw, what the analyses make of them (analysis/ip-        *)
(* consistency, network, proxy-waterfall) and how they are scored          *)
(* (scoring/network-tampering.ts, projections/network.ts).                 *)
(*                                                                         *)
(* A line is a record of the hydrated submission:                          *)
(*   api, tls, tcp   the address each probe saw, or None                   *)
(*   webrtc, status  what the candidates decoded to; the address if "ok"   *)
(*   webrtcBlock     the device sent a webrtc block                        *)
(*   asn             of the TLS address, or None                           *)
(*   rtt, rcvRtt     refreshed round trips of the TCP probe (0: unknown)   *)
(*   mss             segment size of the TCP probe (0: unknown)            *)
(*   ua              the browser the user agent names, or None             *)
(* Severities and scores are percentages. An IPv4 address is its number,   *)
(* an IPv6 address is negative.                                            *)
(***************************************************************************)
EXTENDS ScanValues

CONSTANTS
  HandOverlay, AutoOverlay,  \* address |-> category, where a rule covers it
  AsnClass,                  \* ASN |-> class of the weekly dataset
  AsnCatalog                 \* ASN |-> category of the hand-kept catalog

\* A rule covers addresses only.
ASSUME OverlayAssumption == None \notin DOMAIN HandOverlay \cup DOMAIN AutoOverlay

IsV4(ip) == ip >= 0
Same16(a, b) == IsV4(a) /\ IsV4(b) /\ a \div 65536 = b \div 65536
Same24(a, b) == IsV4(a) /\ IsV4(b) /\ a \div 256 = b \div 256

Capped(n) == Max({0, Min({100, n})})
\* To the nearest five (the codes of two values that tie do not occur).
Round5(n) == ((2 * n + 5) \div 10) * 5
Signal(code, severity) ==
  IF severity = 0 THEN <<>> ELSE <<[code |-> code, severity |-> severity]>>
Codes(signals) == {signals[i].code : i \in DOMAIN signals}

------------------------------------------------------------------------------
(* Do the addresses agree?                                                 *)

ProbeList(line) == Defined(<<line.api, line.tls, line.tcp>>)
ProbeIps(line) == {line.api, line.tls, line.tcp} \ {None}
WebrtcIp(line) == IF line.status = "ok" THEN line.webrtc ELSE None
Forged(line) == line.status = "forgery"

\* Variant: a pool of addresses is held against the carrier's customer.
ProbeScatterNoPool(line) ==
  LET n == Cardinality(ProbeIps(line)) IN IF n <= 1 THEN 0 ELSE IF n >= 3 THEN 80 ELSE 60

\* Different addresses at different probes, unless one address pool.
ProbeScatter(line) ==
  LET ips == ProbeIps(line)
      pool == (\A ip \in ips : IsV4(ip)) /\ Max(ips) - Min(ips) < 256
  IN IF Cardinality(ips) <= 1 \/ pool THEN 0
     ELSE IF Cardinality(ips) >= 3 THEN 80 ELSE 60

WebrtcVsProbes(line) ==
  LET ip == WebrtcIp(line)
  IN IF ProbeIps(line) = {} \/ ip \in ProbeIps(line) THEN <<>>
     ELSE IF \E p \in ProbeIps(line) : Same16(ip, p)
     THEN Signal("SAME_SUBNET_CGNAT", 10) ELSE Signal("WEBRTC_IP_MISMATCH", 70)

WebrtcSignals(line) ==
  Signal("WEBRTC_SIGINT_FORGERY", IF Forged(line) THEN 90 ELSE 0)
    \o IF WebrtcIp(line) # None THEN WebrtcVsProbes(line)
       ELSE Signal("WEBRTC_BLOCKED", IF line.webrtcBlock THEN 0 ELSE 20)

\* A catalogued network is reported with the code of a probe scatter.
CategorySeverity(category) ==
  CASE category = "datacenter" -> 70 [] category = "vpn_proxy" -> 60
    [] category = "corporate_proxy" -> 15 [] OTHER -> 0

IpSignals(line) ==
  Signal("IP_PROBE_SCATTER", ProbeScatter(line)) \o WebrtcSignals(line)
    \o Signal("IP_PROBE_SCATTER", CategorySeverity(Known(AsnCatalog, line.asn)))

\* How well the addresses agree, by how often each one was seen.
Integrity(line) ==
  LET webrtc == WebrtcIp(line)
      all == Append(ProbeList(line), webrtc)
      ips == ToSet(all)
      seen(ip) == Cardinality({i \in DOMAIN all : all[i] = ip})
      largest == Max({seen(ip) : ip \in ips})
      oneApart == IF seen(webrtc) = 1 THEN 100 ELSE 80
      distinct == Cardinality(ips)
  IN IF Forged(line) THEN 0
     ELSE IF webrtc = None \/ Len(all) < 2 THEN 50
     ELSE IF \E ip \in ips : ~Same16(all[1], ip) THEN 10
     ELSE IF distinct = 1 THEN 100
     ELSE CASE Len(all) = 4 /\ largest = 3 -> oneApart
            [] Len(all) = 4 /\ largest = 2 /\ distinct = 2 -> 70
            [] Len(all) = 4 /\ distinct = 3 -> 60
            [] Len(all) = 3 /\ largest = 2 -> oneApart
            [] Len(all) = 2 -> 70
            [] OTHER -> 50

SurfaceIp(line) ==
  IF Integrity(line) < 50 THEN None
  ELSE FirstOf(<<WebrtcIp(line), line.tls, line.tcp, line.api>>)

------------------------------------------------------------------------------
(* What kind of network is it?                                             *)

Category(line) ==
  IF Known(AsnCatalog, line.asn) # None THEN AsnCatalog[line.asn]
  ELSE IF line.asn # None THEN "residential" ELSE None

ByCidr(ip) == FirstOf(<<Known(HandOverlay, ip), Known(AutoOverlay, ip)>>)

ByDataset(asn) ==
  LET class == Known(AsnClass, asn) IN IF class = "unknown" THEN None ELSE class

ByCatalog(asn) ==
  LET category == Known(AsnCatalog, asn)
  IN IF category = "corporate_proxy" THEN "security_filter" ELSE category

\* A rule for the first address, then the ASN, then rules for the others.
NetworkClass(line) ==
  LET first == FirstOf(<<line.tcp, line.tls, line.api, WebrtcIp(line)>>)
  IN FirstOf(<<ByCidr(first), ByDataset(line.asn), ByCidr(line.tcp), ByCidr(line.tls),
               ByCidr(line.api), ByCidr(WebrtcIp(line)), ByCatalog(line.asn)>>)

\* The backup identifier: the kind and what it is derived from.
NetworkId(line, class, ip) ==
  IF line.ua = None \/ ip = None \/ ~IsV4(ip) THEN <<"none">>
  ELSE IF class \in {"residential", "satellite"}
  THEN <<"category_residential", class, ip \div 256, line.ua>>
  ELSE IF class # None \/ line.asn = None THEN <<"none">>
  ELSE <<"asn_fallback", line.asn, ip \div 256, line.ua>>

IpBlock(line) ==
  LET class == NetworkClass(line)
      shown == FirstOf(<<SurfaceIp(line), WebrtcIp(line), line.tls, line.tcp, line.api>>)
      signals == IpSignals(line)
  IN [ips |-> [tcp |-> line.tcp, webrtc |-> WebrtcIp(line)],
      asn |-> line.asn, category |-> Category(line), networkClass |-> class,
      networkId |-> NetworkId(line, class, shown), integrity |-> Integrity(line),
      ip |-> SurfaceIp(line), signals |-> signals,
      probesConsistent |-> "IP_PROBE_SCATTER" \notin Codes(signals)]

------------------------------------------------------------------------------
(* VPN and proxy.                                                          *)

MssComponent(line) == IF line.mss = 0 THEN 0 ELSE Capped(((1440 - line.mss) * 100) \div 140)

\* The segment size is telemetry; the category of the network is evidence.
NetworkBlock(line, category) ==
  LET score == CASE category \in {"datacenter", "vpn_proxy"} -> 100
                 [] category = "privacy_relay" -> 50 [] OTHER -> 0
  IN [vpn |-> Max({score, MssComponent(line)}),
      signals |-> Signal(IF score = 100 THEN "CATEGORY_VPN" ELSE "CATEGORY_PRIVACY_RELAY", score)]

RatioKnown(line) == line.rtt > 0 /\ line.rcvRtt > 0
\* The ratio of the round trips against a hundredth.
RatioAtMost(line, n) == RatioKnown(line) /\ line.rcvRtt * 100 <= n * line.rtt
RatioBelow(line, n) == RatioKnown(line) /\ line.rcvRtt * 100 < n * line.rtt

\* The rule that fires first: 0 forged, 1-5 the STUN address against the
\* TCP one, 6 and 7 no candidate and a slow path, 8 clean.
WaterfallRule(line) ==
  LET ip == WebrtcIp(line)
      both == ip # None /\ line.tcp # None
  IN OneOf(<<
       <<line.status \in {"forgery", "parse_fail"}, 0>>,
       <<both /\ ip = line.tcp, 1>>,
       <<both /\ RatioAtMost(line, 105), 2>>,
       <<both /\ Same24(ip, line.tcp) /\ (RatioKnown(line) => RatioBelow(line, 300)), 3>>,
       <<both /\ Same16(ip, line.tcp) /\ RatioBelow(line, 200), 4>>,
       <<both /\ RatioKnown(line) /\ ~RatioBelow(line, 200), 5>>,
       <<line.status = "no_candidates" /\ RatioKnown(line) /\ ~RatioAtMost(line, 250), 6>>,
       <<line.status = "no_candidates" /\ RatioKnown(line) /\ ~RatioAtMost(line, 150), 7>>,
       <<TRUE, 8>>>>)

ThreatScore(rule) == IF rule \in {0, 5, 6} THEN 100 ELSE IF rule = 7 THEN 50 ELSE 0

\* The analysis blocks of a line, in a record.
NetworkAnalysis(line) ==
  LET ip == IpBlock(line)
  IN [ip |-> ip, network |-> NetworkBlock(line, ip.category),
      threat |-> ThreatScore(WaterfallRule(line))]

------------------------------------------------------------------------------
(* The network axis of the verdict, from the blocks of a record.           *)

Shielded(blocks) == blocks.ip.category = "corporate_proxy"

VpnScore(blocks) ==
  IF Shielded(blocks) \/ blocks.network.signals = <<>> THEN 0 ELSE blocks.network.vpn

\* What the first scatter signal costs; carriers and filters are excused.
ScatterPenalty(blocks) ==
  LET cost(s) == IF s.code = "IP_PROBE_SCATTER" THEN s.severity ELSE None
      first == FirstOf([i \in DOMAIN blocks.ip.signals |-> cost(blocks.ip.signals[i])])
  IN IF blocks.ip.networkClass \in {"mobile", "security_filter"} \/ first = None THEN 0 ELSE first

NetworkTampering(blocks) ==
  Max({Round5(VpnScore(blocks)), blocks.threat, ScatterPenalty(blocks)})

Cellular(blocks) ==
  blocks.ip.category = "mobile" \/ "SAME_SUBNET_CGNAT" \in Codes(blocks.ip.signals)

NoWebrtc(blocks) == blocks.ip.integrity # 0 /\ blocks.ip.ips.webrtc = None

\* The tags both products derive alike.
PathTags(blocks) ==
  (IF Round5(VpnScore(blocks)) >= 50 THEN {"vpn"} ELSE {})
    \cup (IF blocks.threat >= 50 THEN {"proxy"} ELSE {})
    \cup (IF NoWebrtc(blocks) THEN {"no_webrtc"} ELSE {})
=============================================================================
