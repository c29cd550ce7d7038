---------------------------- MODULE DeviceVerdict ----------------------------
(***************************************************************************)
(* The device half of a verdict (scoring/): what the analysis blocks of a  *)
(* stored record and the device in it come to on the two device axes. A    *)
(* record has the fields                                                   *)
(*   device    the device as submitted: what DeviceAnalysis reads, and     *)
(*             lies [of: patched function |-> lies, total], headless       *)
(*             [rating, signs: sign |-> BOOLEAN, likeRating, stealth,      *)
(*             devTools], cdp [residue, soft: sets of marks left; frame    *)
(*             and worker: a timing or None; importChain], status [iframe, *)
(*             pristine], bodyBrands, shielding [privacy, engine] or None, *)
(*             uuid                                                        *)
(*   blocks    DeviceBlocks of it                                          *)
(*   net       NetworkAnalysis of its line                                 *)
(*   relay     the request came from an egress of Apple's relay            *)
(*   pat, id   [attempted, verified] and [key, present, sig, verified]     *)
(*   history   the analysis of the history it carried, or None             *)
(* and a timing of the console benchmark [heavy, timeline, native, trap,   *)
(* burst, lies], in microseconds (burst: milliseconds).                    *)
(***************************************************************************)
EXTENDS NetworkVerdict, DeviceAnalysis

------------------------------------------------------------------------------
(* Automation.                                                             *)

MobileMarks == {"iPhone", "Android", "Mobile"}

\* Claimed by the request or by any of the scopes.
MobileBrowser(r) ==
  \/ Has(r.device.ua, MobileMarks)
  \/ r.device.scopes # None
     /\ \E name \in DOMAIN r.device.scopes :
          LET scope == r.device.scopes[name]
          IN scope # None /\ scope.userAgent # None /\ Has(scope.userAgent, MobileMarks)

Heavy(timing) == IF timing = None THEN None ELSE timing.heavy

BenchTampered(timing) ==
  /\ timing # None
  /\ \/ ~timing.native
     \/ /\ timing.heavy # None /\ timing.timeline # None
        /\ timing.timeline - timing.heavy > 3 \/ timing.heavy - timing.timeline > 3

Burst(cdp) == cdp.worker # None /\ cdp.worker.burst # None /\ cdp.worker.burst >= 30

\* Timings are calibrated on desktops.
TimingScore(r) ==
  LET cdp == r.device.cdp
      heavies == {Heavy(cdp.frame), Heavy(cdp.worker)}
      known == None \notin heavies
      strong == \/ BenchTampered(cdp.frame) \/ BenchTampered(cdp.worker)
                \/ Burst(cdp) \/ cdp.importChain
                \/ known /\ Min(heavies) > 40
  IN IF MobileBrowser(r) THEN 0 ELSE IF strong THEN 75
     ELSE IF known /\ Max(heavies) > 20 /\ Min(heavies) < 12 THEN 60 ELSE 0

HardResidue(cdp) == cdp.residue # {} \/ (cdp.worker # None /\ cdp.worker.lies > 0)

ProxyTrap(cdp) == \E timing \in {cdp.frame, cdp.worker} : timing # None /\ timing.trap

IframeStuck(r) == r.device.status.iframe = "stuck"
PristineCompromised(r) == r.device.status.pristine \in {"not_lifted", "not_native"}

\* The share of the signs of a headless browser, in percent.
WeakHeadless(headless) ==
  LET signs == DOMAIN headless.signs \ {"noTaskbar"}
      shown == {s \in signs : headless.signs[s]}
  IN IF signs = {} THEN headless.likeRating
     ELSE (200 * Cardinality(shown) + Cardinality(signs)) \div (2 * Cardinality(signs))

\* Variant: the suspicion is returned before the proof.
AutomationTrapFirst(r) ==
  LET cdp == r.device.cdp
  IN OneOf(<<<<ProxyTrap(cdp), 60>>,
             <<r.device.headless.rating > 0 \/ IframeStuck(r) \/ HardResidue(cdp), 100>>,
             <<Burst(cdp) \/ TimingScore(r) = 75 \/ cdp.soft # {} \/ PristineCompromised(r), 75>>,
             <<TimingScore(r) = 60, 60>>, <<TRUE, 0>>>>)

WeakEvidence(r) ==
  LET stealth == IF r.device.headless.stealth > 0 THEN 20 ELSE 0
  IN IF MobileBrowser(r) THEN 0 ELSE Round5(Capped(WeakHeadless(r.device.headless) + stealth))

\* The strongest evidence; the weak signs count only where there is none.
Automation(r) ==
  LET cdp == r.device.cdp
  IN OneOf(<<<<r.device.headless.rating > 0 \/ IframeStuck(r) \/ HardResidue(cdp), 100>>,
             <<Burst(cdp) \/ TimingScore(r) = 75 \/ cdp.soft # {} \/ PristineCompromised(r), 75>>,
             <<ProxyTrap(cdp) \/ TimingScore(r) = 60, 60>>,
             <<TRUE, WeakEvidence(r)>>>>)

Attested(r) == r.pat.verified

\* An attested device is believed unless the evidence is hard.
ApplyPat(automation, r) ==
  IF Attested(r) /\ automation < 75 THEN Min({automation, 25}) ELSE automation

------------------------------------------------------------------------------
(* Device tampering.                                                       *)

AudioLies ==
  {"AnalyserNode.getFloatFrequencyData", "AnalyserNode.getByteFrequencyData",
   "AnalyserNode.getFloatTimeDomainData", "AnalyserNode.getByteTimeDomainData",
   "AudioBuffer.getChannelData"}
PluginLies == {"PluginArray.item", "PluginArray.namedItem", "Navigator.plugins"}
WebrtcLies == {"RTCPeerConnection.createDataChannel", "RTCPeerConnection.createOffer"}

BraveIos(r) ==
  LET patched == DOMAIN r.device.lies.of
  IN /\ r.blocks.ja4Ua.family = "safari" /\ r.blocks.ja4Ua.os = "iOS"
     /\ Cardinality(patched \cap AudioLies) >= 4 /\ patched \cap PluginLies # {}

\* The lies, but those that Brave on iOS tells of its own accord.
Lies(r) ==
  LET own == DOMAIN r.device.lies.of
               \cap (AudioLies \cup PluginLies \cup {"Navigator.hardwareConcurrency"})
  IN IF BraveIos(r) THEN Max({0, r.device.lies.total - SumOn(r.device.lies.of, own)})
     ELSE r.device.lies.total

SafariDarwin(r) ==
  LET wire == r.blocks.ja4Ua
  IN wire.ja4 = "safari" /\ wire.h2 = "safari" /\ wire.os \in {"iOS", "macOS"}

AppleRelay(r) == r.relay \/ (r.net.ip.category = "privacy_relay" /\ SafariDarwin(r))

\* Evidence of the path that a company's gateway or the relay explains.
KernelSignal(r, code) == code \in r.blocks.kernelOs /\ ~Shielded(r.net) /\ ~AppleRelay(r)

CfReplayed(cf) == ~cf.tampered /\ cf.age # None /\ (cf.age < -90 \/ cf.age > 300)
CfSlow(cf) == ~cf.tampered /\ cf.age # None /\ ~CfReplayed(cf) /\ cf.expired

\* A Chromium that sends no hints, nor has any for its scripts.
HintsWithheld(d) ==
  /\ d.hints.header.brands = None /\ BrandsOf(d.bodyBrands) = {}
  /\ "Chrome" \in d.ua /\ ~Has(d.ua, {"Edg", "EdgiOS"})

Definitive(r, workers) ==
  \/ Lies(r) >= 20
  \/ "JA4_UA_BROWSER_MISMATCH" \in r.blocks.ja4Ua.signals
  \/ workers /\ r.blocks.worker.divergences \ {"onLine"} # {}
  \/ DOMAIN r.device.lies.of \cap (WebrtcLies \cup {"Navigator.platform"}) # {}
  \/ r.blocks.hintsMismatch
  \/ "BROWSER_ENGINE_INCONSISTENT_HARD" \in r.blocks.engine
  \/ r.device.cf.tampered \/ CfReplayed(r.device.cf)
  \/ KernelSignal(r, "KERNEL_OS_MISMATCH_DARWIN") /\ ~SafariDarwin(r)

Strong(r) ==
  \/ Lies(r) >= 5
  \/ HintsWithheld(r.device)
  \/ r.blocks.localeTamper
  \/ "TLS_UA_MISMATCH" \in r.blocks.ja4Ua.signals /\ ~Shielded(r.net)
  \/ "BROWSER_ENGINE_INCONSISTENT_SOFT" \in r.blocks.engine
  \/ KernelSignal(r, "KERNEL_OS_MISMATCH_LINUX")
  \/ CfSlow(r.device.cf)
  \/ r.pat.attempted /\ ~r.pat.verified
  \/ r.id.sig /\ ~r.id.verified
  \/ r.history # None /\ r.history.tampered

LocationMismatch(r) == r.blocks.timezone.geo /\ ~Shielded(r.net)

\* The tier of the strongest evidence, worker divergences counted or not.
TamperingFrom(r, workers) ==
  OneOf(<<<<Definitive(r, workers), 100>>, <<Strong(r), 60>>,
          <<IframeStuck(r) \/ r.blocks.worker.mainOnly, 50>>,
          <<KernelSignal(r, "KERNEL_OS_MISMATCH_DARWIN") \/ LocationMismatch(r), 35>>,
          <<Lies(r) >= 1, 25>>, <<TRUE, 0>>>>)

DeviceTampering(r) == TamperingFrom(r, TRUE)

ConsensusFields == {"hardwareConcurrency", "deviceMemory", "languages"}

\* The scopes of the window, the dedicated and the shared worker.
Scopes(d) == {ScopeOf(d, name) : name \in {"main", "web", "shared"}}

\* What the window has of a field, scope s has too.
Agrees(d, f, s) ==
  LET main == ValueIn(ScopeOf(d, "main"), f) IN main # None /\ Identical(main, ValueIn(s, f))

\* Brave by its shields and by the brands of every scope.
IsBrave(d) ==
  /\ None \notin Scopes(d) /\ d.shielding = [privacy |-> "Brave", engine |-> "Blink"]
  /\ \A s \in Scopes(d) : s.brands # None /\ "brave" \in s.brands

\* The shared worker alone differs, and only where Brave makes it differ.
SharedPartitionCandidate(r) ==
  LET scope(name) == ScopeOf(r.device, name)
      shown == r.blocks.worker.divergences
  IN /\ None \notin Scopes(r.device) /\ shown # {} /\ shown \subseteq ConsensusFields
     /\ \A f \in shown : /\ Agrees(r.device, f, scope("web"))
                         /\ Differ(scope("shared")[f], scope("main")[f])

\* What a merchant may compare of the scopes, without their values.
WorkerEvidence(r) ==
  LET all == Scopes(r.device)
      agree(S) == None \notin all /\ \A f \in ConsensusFields, s \in S : Agrees(r.device, f, s)
  IN [consistent |-> ~r.blocks.worker.lied /\ agree(all),
      consensus |-> agree({ScopeOf(r.device, "web")}),
      sharedOnly |-> SharedPartitionCandidate(r), brave |-> IsBrave(r.device),
      withoutWorker |-> TamperingFrom(r, FALSE)]
=============================================================================
