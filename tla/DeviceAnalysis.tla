--------------------------- MODULE DeviceAnalysis ---------------------------
(***************************************************************************)
(* The device half of a scan: what its user agent, client hints, TLS and   *)
(* TCP fingerprints, worker scopes, timezone and locale say of each other  *)
(* (the detectors under analysis/). Each is a function of one record, the  *)
(* device as submitted with what the probes saw of it:                     *)
(*   ua         the marks in its user agent that the code looks for        *)
(*   hints      client hints of the request (header) and the probe: the    *)
(*              brands, the platform, mobile or not; None where not sent   *)
(*   majors     the Chromium versions seen: ua, header, probe, and the set *)
(*              of those its scripts report                                *)
(*   wire       ja4 and h2 fingerprints, cipher count, GREASE, ECN         *)
(*   engine     value of each engine invariant; incognito                  *)
(*   nav        the window's scope; scopes its workers, or None            *)
(*   tz         offset, computed offset, location, lied                    *)
(*   locale     of navigator and of Intl; accept the language header       *)
(*   cf         tz and country of the address, by the signed cookie        *)
(***************************************************************************)
EXTENDS ScanValues

CONSTANTS
  CipherFamily,    \* ja4 cipher hash |-> browser family
  SafariOs,        \* ja4 cipher hash |-> operating system, Safari's only
  H2Family,        \* pseudo-header order |-> browser family
  Baselines,       \* claimed browser or engine family |-> field statistics
  MinHardBreakN,   \* sessions a field needs before a new value breaks it
  LangCountries,   \* language |-> its countries, the first one by default
  Continent,       \* country |-> continent
  ListValues       \* attribute values that are lists (objects in JSON)

\* No fingerprint is no fingerprint of a browser.
ASSUME WireTablesAssumption == None \notin DOMAIN CipherFamily

Has(ua, marks) == ua \cap marks # {}

------------------------------------------------------------------------------
(* What the user agent claims. Each analysis has a list of patterns of its *)
(* own, tried in order.                                                    *)

UaFamily(ua) ==
  OneOf(<<<<Has(ua, {"EdgiOS", "Edg"}), "chromium">>, <<"FxiOS" \in ua, "safari">>,
          <<"CriOS" \in ua, "safari">>, <<"Firefox" \in ua, "firefox">>,
          <<"Chrome" \in ua, "chromium">>, <<"Safari" \in ua, "safari">>>>)

UaOs(ua) ==
  OneOf(<<<<"iPhone" \in ua, "iOS">>, <<Has(ua, {"Macintosh", "Mac OS X"}), "macOS">>,
          <<"Windows" \in ua, "Windows">>, <<"Android" \in ua, "Android">>,
          <<"CrOS" \in ua, "Chrome OS">>, <<"Linux" \in ua, "Linux">>>>)

HintsOs(ua) ==
  OneOf(<<<<"iPhone" \in ua, "iOS">>, <<"Android" \in ua, "Android">>,
          <<Has(ua, {"Macintosh", "Mac OS X"}), "macOS">>, <<"CrOS" \in ua, "Chrome OS">>,
          <<"Windows" \in ua, "Windows">>, <<Has(ua, {"X11", "Linux"}), "Linux">>>>)

HintsFamily(ua) ==
  IF Has(ua, {"Edg", "EdgiOS"}) THEN "edge" ELSE IF "Chrome" \in ua THEN "chromium" ELSE "other"

\* The browser whose statistics it is held against, and its engine.
ClaimedBrowser(ua, brands) ==
  OneOf(<<<<brands # None /\ "brave" \in brands, <<"Brave", "chromium">>>>,
          <<Has(ua, {"Edg", "EdgiOS"}), <<"Edge", "chromium">>>>,
          <<"FxiOS" \in ua, <<"Firefox iOS", "webkit">>>>,
          <<"Firefox" \in ua, <<"Firefox", "gecko">>>>,
          <<"CriOS" \in ua, <<"Chrome iOS", "webkit">>>>,
          <<"Chrome" \in ua, <<"Chrome", "chromium">>>>,
          <<"iPhone" \in ua, <<"Safari iOS", "webkit">>>>,
          <<{"Macintosh", "Safari"} \subseteq ua, <<"Safari macOS", "webkit">>>>>>)

------------------------------------------------------------------------------
(* TLS, HTTP/2 and the kernel against the user agent.                      *)

Ja4Family(d) == Known(CipherFamily, d.wire.ja4)
WireH2Family(d) == Known(H2Family, d.wire.h2)

BrandsOf(brands) == IF brands = None THEN {} ELSE brands

\* A TLS stack stripped of what the browser it claims to be would send.
StrippedTls(d) ==
  LET claims == UaFamily(d.ua)
      hardened == "brave" \in BrandsOf(d.hints.header.brands)
      counted == d.wire.ciphers # None
  IN \/ claims = "chromium" /\ ~hardened
        /\ (d.wire.grease = FALSE \/ (counted /\ d.wire.ciphers < 12))
     \/ claims = "firefox" /\ counted /\ d.wire.ciphers > 25
     \/ claims = "safari" /\ counted /\ d.wire.ciphers > 30
     \/ claims = None /\ d.wire.grease = TRUE

\* The codes of the mismatches found, with the families compared.
Ja4Ua(d) ==
  LET claims == UaFamily(d.ua)
      os == UaOs(d.ua)
      when(condition, code) == IF condition THEN {code} ELSE {}
  IN [ja4 |-> Ja4Family(d), h2 |-> WireH2Family(d), family |-> claims, os |-> os,
      signals |->
        when(Differ(Ja4Family(d), claims), "JA4_UA_BROWSER_MISMATCH")
          \cup when(Differ(WireH2Family(d), claims), "H2_UA_BROWSER_MISMATCH")
          \cup when(Differ(Ja4Family(d), WireH2Family(d)), "JA4_H2_FAMILY_MISMATCH")
          \cup when(Differ(Known(SafariOs, d.wire.ja4), os), "SAFARI_OS_MISMATCH")
          \cup when(StrippedTls(d), "TLS_UA_MISMATCH")]

\* Apple's kernels negotiate ECN, Linux does not: one mismatch at most.
KernelOs(d) ==
  LET os == UaOs(d.ua)
  IN IF d.wire.ecn = FALSE /\ os \in {"iOS", "macOS"} THEN {"KERNEL_OS_MISMATCH_DARWIN"}
     ELSE IF d.wire.ecn = TRUE /\ os \in {"Linux", "Android"}
     THEN {"KERNEL_OS_MISMATCH_LINUX"} ELSE {}

------------------------------------------------------------------------------
(* Client hints against the user agent, and against themselves.            *)

\* The hint of the request, else the probe's.
Hint(d, field) ==
  IF d.hints.header[field] # None THEN d.hints.header[field] ELSE d.hints.probe[field]

BrandFamily(brands) ==
  IF "microsoft edge" \in brands THEN "edge"
  ELSE IF brands \cap {"chromium", "google chrome"} # {} THEN "chromium" ELSE "other"

FamiliesDiffer(a, b) == a # "other" /\ b # "other" /\ a # b

DoubleCaptureDiffers(d) ==
  LET h == d.hints.header  p == d.hints.probe
  IN \/ Differ(h.platform, p.platform) \/ Differ(h.mobile, p.mobile)
     \/ h.brands # None /\ p.brands # None
        /\ FamiliesDiffer(BrandFamily(h.brands), BrandFamily(p.brands))

VersionsDiffer(d) ==
  /\ HintsFamily(d.ua) # "other"
  /\ \E v, w \in {d.majors.ua, d.majors.header, d.majors.probe} \cup d.majors.scripts : Differ(v, w)

\* Each of its signals is a strong one.
ClientHintsMismatch(d) ==
  \/ Hint(d, "platform") # "Unknown" /\ Differ(Hint(d, "platform"), HintsOs(d.ua))
  \/ Differ(Hint(d, "mobile"), Has(d.ua, {"iPhone", "Android", "Mobile"}))
  \/ Hint(d, "brands") # None
     /\ FamiliesDiffer(BrandFamily(Hint(d, "brands")), HintsFamily(d.ua))
  \/ DoubleCaptureDiffers(d)
  \/ VersionsDiffer(d)

------------------------------------------------------------------------------
(* The engine against the statistics of the browser it claims to be.       *)

\* The statistics used: of the version, of it without incognito, or of the
\* engine family; those that were learnt from a session at least.
BaselineFor(claimed, incognito) ==
  LET learnt(k) == k \in DOMAIN Baselines /\ Baselines[k].n > 0
      keys == <<<<claimed[1], incognito>>, <<claimed[1], FALSE>>, <<claimed[2]>>>>
      usable == SelectSeq(keys, learnt)
  IN IF claimed = None \/ usable = <<>> THEN None
     ELSE [stats |-> Baselines[Head(usable)], ofFamily |-> Head(usable) = <<claimed[2]>>]

Histogram(stats, field) == IF field \in DOMAIN stats.fields THEN stats.fields[field] ELSE <<>>
Seen(histogram, value) == IF value \in DOMAIN histogram THEN histogram[value] ELSE 0
Total(histogram) == SumOn(histogram, DOMAIN histogram)

\* How surprising a value is in bits, rounded down, with half a session
\* added to every value (the code sums logarithms; eight nats are 11.5 bits).
Surprise(histogram, value) ==
  LET count == Seen(histogram, value)
      values == Cardinality(DOMAIN histogram) + (IF count = 0 THEN 1 ELSE 0)
      whole == 2 * Total(histogram) + Max({values, 1})
      bits[b \in 0 .. 30] == IF (2 * count + 1) * 2 ^ (b + 1) > whole THEN b ELSE bits[b + 1]
  IN bits[0]

\* A value never seen is a break; a family needs five times the sessions
\* for that and never gives the weaker signal of an unlikely whole.
EngineSignals(engine, base) ==
  LET histogram(field) == Histogram(base.stats, field)
      breaks == {f \in DOMAIN engine :
                   Seen(histogram(f), engine[f]) = 0 /\ Total(histogram(f)) >= MinHardBreakN}
      surprise == SumOn([f \in DOMAIN engine |-> Surprise(histogram(f), engine[f])], DOMAIN engine)
  IN IF base = None THEN {}
     ELSE IF breaks # {} /\ (base.ofFamily => base.stats.n >= 5 * MinHardBreakN)
     THEN {"BROWSER_ENGINE_INCONSISTENT_HARD"}
     ELSE IF ~base.ofFamily /\ base.stats.n >= MinHardBreakN /\ surprise > 11
     THEN {"BROWSER_ENGINE_INCONSISTENT_SOFT"} ELSE {}

BrowserEngine(d) ==
  EngineSignals(d.engine, BaselineFor(ClaimedBrowser(d.ua, d.hints.header.brands), d.incognito))

------------------------------------------------------------------------------
(* The window against its workers.                                         *)

CompareFields ==
  {"userAgent", "platform", "hardwareConcurrency", "deviceMemory", "languages",
   "webglRenderer", "onLine"}
MismatchFields == CompareFields \ {"onLine"}
ScopeOf(d, name) == IF d.scopes = None THEN None ELSE d.scopes[name]
ValueIn(scope, field) == IF scope = None THEN None ELSE scope[field]

\* JavaScript's === on parsed JSON: two lists are two objects.
Identical(v, w) == v = w /\ v \notin ListValues

\* Fields whose values in window, dedicated and shared worker differ.
Divergences(d) ==
  LET main == IF ScopeOf(d, "main") # None THEN ScopeOf(d, "main") ELSE d.nav
      defined(f) == Defined(<<ValueIn(main, f), ValueIn(ScopeOf(d, "web"), f),
                              ValueIn(ScopeOf(d, "shared"), f)>>)
  IN IF d.scopes = None THEN {}
     ELSE {f \in CompareFields : \E i \in 2 .. Len(defined(f)) :
             ~Identical(defined(f)[i], Head(defined(f)))}

\* The pairwise comparison of the older scanner, which looks into lists.
WorkerMismatch(d) ==
  LET all == {d.nav, ScopeOf(d, "web"), ScopeOf(d, "shared"), ScopeOf(d, "service")} \ {None}
  IN \E a, b \in all, f \in MismatchFields : Differ(a[f], b[f])

OracleMissing(d) == ScopeOf(d, "web") = None /\ ScopeOf(d, "shared") = None

Worker(d) ==
  [divergences |-> Divergences(d), mainOnly |-> OracleMissing(d), mismatch |-> WorkerMismatch(d),
   lied |-> OracleMissing(d) \/ WorkerMismatch(d) \/ Divergences(d) # {}]

------------------------------------------------------------------------------
(* Timezone and locale.                                                    *)

TzGeoMismatch(d) == Differ(d.tz.location, d.cf.tz)

WorkerOffsetDiffers(d) ==
  \E name \in {"web", "shared"} : Differ(ValueIn(ScopeOf(d, name), "tzOffset"), d.tz.offset)

Timezone(d) ==
  [geo |-> TzGeoMismatch(d),
   lied |-> \/ TzGeoMismatch(d) \/ WorkerOffsetDiffers(d) \/ d.tz.lied
            \/ Differ(d.tz.offset, d.tz.computed)]

\* The locale of a worker against the window's: Intl's, else navigator's.
LocaleTamper(d) ==
  LET main == IF d.locale.intl # None THEN d.locale.intl ELSE d.locale.nav
  IN \E name \in {"web", "shared"} : Differ(ValueIn(ScopeOf(d, name), "locale"), main)

\* The country of the language header is not the address's, nor one where
\* the language is spoken.
LanguageElsewhere(d) ==
  LET lang == d.accept
      spoken == Known(LangCountries, lang.lang)
      claimed == IF lang.country # None THEN lang.country ELSE IF spoken = None THEN None ELSE Head(spoken)
  IN IF lang = None \/ d.cf.country = None \/ claimed \in {None, d.cf.country} THEN "none"
     ELSE IF spoken # None /\ d.cf.country \in ToSet(spoken) THEN "none"
     ELSE IF Differ(Known(Continent, claimed), Known(Continent, d.cf.country))
     THEN "cross_continent" ELSE "cross_country"

\* The analysis blocks of a device, in a record.
DeviceBlocks(d) ==
  [ja4Ua |-> Ja4Ua(d), kernelOs |-> KernelOs(d), hintsMismatch |-> ClientHintsMismatch(d),
   engine |-> BrowserEngine(d), worker |-> Worker(d), timezone |-> Timezone(d),
   localeTamper |-> LocaleTamper(d), language |-> LanguageElsewhere(d)]
=============================================================================
