------------------------- MODULE MerchantProjection -------------------------
(***************************************************************************)
(* What a merchant is shown of a stored record: the three axes, the        *)
(* verdict and the labels of a full scan, and the network part alone of a  *)
(* proxy scan (helpers/merchant-projection.ts, proxy-merchant-             *)
(* projection.ts, projections/).                                           *)
(***************************************************************************)
EXTENDS DeviceVerdict

SuspectThreshold == 30
BlockThreshold == 70

\* The axis that peaks decides.
Verdict(axes) ==
  LET peaks(threshold) == \E axis \in axes : axis >= threshold
  IN IF peaks(BlockThreshold) THEN "block"
     ELSE IF peaks(SuspectThreshold) THEN "suspect" ELSE "clean"

\* The flags of the network, all read from its class.
NetworkFlags(r) ==
  LET flagged == {"datacenter", "mobile", "residential", "vpn_proxy", "hosting_proxy",
                  "privacy_relay", "security_filter"}
  IN flagged \cap {r.net.ip.networkClass}

NetworkProjection(r) ==
  [ip |-> FirstOf(<<r.net.ip.ip, r.device.cf.ip>>), country |-> r.device.cf.country,
   asn |-> r.net.ip.asn, category |-> r.net.ip.category, flags |-> NetworkFlags(r)]

LanguageMismatch(r) == r.blocks.language # "none"

AppleClaimed(r) ==
  "Safari" \in r.device.ua /\ Has(r.device.ua, {"iPhone", "Macintosh"})
    /\ ~Has(r.device.ua, {"Chrome", "Edg", "EdgiOS", "OPR"})

Tags(r, automation, tampering) ==
  LET category == r.net.ip.category
      tag(condition, name) == IF condition THEN {name} ELSE {}
  IN PathTags(r.net)
       \cup tag(category = "datacenter", "hyperscaler")
       \cup tag(Shielded(r.net), "corporate_shield")
       \cup tag(category = "privacy_relay", "privacy_relay")
       \cup tag(tampering >= 50, "browser_tampering")
       \cup tag(automation >= 50, "automation")
       \cup tag(r.device.incognito, "incognito")
       \cup tag(Cellular(r.net), "cellular")
       \cup tag(LocationMismatch(r), "location_mismatch")
       \cup tag(LanguageMismatch(r), "language_mismatch")
       \cup tag(Attested(r), "apple_attested")
       \cup tag(AppleClaimed(r) /\ ~Attested(r), "apple_attestation_missing")
       \cup tag(BraveIos(r), "brave_ios")

\* The cookie of a device is shown only when it is the token's.
ThirdPartyCookie(cf) ==
  LET checked == OneOf(<<<<cf.cookieTampered, "fail">>, <<cf.cookieMatches = TRUE, "pass">>,
                         <<cf.cookieMatches = FALSE, "fail">>>>)
  IN [id |-> IF checked = "pass" THEN cf.cookie ELSE None, verified |-> checked]

Identification(r) ==
  [device |-> r.id.key, verified |-> IF r.id.present THEN r.id.verified ELSE None,
   uuid |-> r.device.uuid,
   cookie |-> ThirdPartyCookie(r.device.cf), network |-> r.net.ip.networkId]

FullResponse(r) ==
  LET automation == ApplyPat(Automation(r), r)
      tampering == DeviceTampering(r)
      network == NetworkTampering(r.net)
  IN [product |-> "full", automation |-> automation, device_tampering |-> tampering,
      network_tampering |-> network, verdict |-> Verdict({automation, tampering, network}),
      identification |-> Identification(r), path |-> NetworkProjection(r),
      incognito |-> r.device.incognito, developerTools |-> r.device.headless.devTools,
      workers |-> WorkerEvidence(r), tags |-> Tags(r, automation, tampering),
      history |-> r.history]

\* The tags of the reduced product follow the flags, not the category.
ProxyTags(r) ==
  LET flags == NetworkFlags(r)
      tag(class, name) == IF class \in flags THEN {name} ELSE {}
  IN PathTags(r.net)
       \cup tag("datacenter", "hyperscaler") \cup tag("security_filter", "corporate_shield")
       \cup tag("privacy_relay", "privacy_relay") \cup tag("mobile", "cellular")

\* Variant: the reduced product keeps the verdict of the full one.
ProxyResponseOfAllAxes(r) ==
  [product |-> "proxy", network_tampering |-> NetworkTampering(r.net),
   verdict |-> FullResponse(r).verdict,
   identification |-> [uuid |-> r.device.uuid, network |-> r.net.ip.networkId],
   path |-> NetworkProjection(r), tags |-> ProxyTags(r)]

ProxyResponse(r) ==
  [product |-> "proxy", network_tampering |-> NetworkTampering(r.net),
   verdict |-> Verdict({NetworkTampering(r.net)}),
   identification |-> [uuid |-> r.device.uuid, network |-> r.net.ip.networkId],
   path |-> NetworkProjection(r), tags |-> ProxyTags(r)]

MerchantResponse(r) == IF r.product = "proxy" THEN ProxyResponse(r) ELSE FullResponse(r)
=============================================================================
