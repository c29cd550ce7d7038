--------------------------- MODULE MCScanAnalysis ---------------------------
(* A small instance of ScanAnalysis for TLC.                               *)
EXTENDS ScanAnalysis, TLC

CONSTANT LanguageList  \* languages as a list, not as a string

(* Addresses: a home, another of its pool and of its /16, two of a carrier  *)
(* that are far apart, two of a company's gateway, the exit of a proxy, a   *)
(* listed and another exit of Apple's relay, the home's IPv6 address.      *)
Home == 16909060
Pool == 16909065
Near == 16910848
Carrier == 33554433
CarrierFar == 33624064
Gateway == 67108865
GatewayFar == 67239937
Exit == 50331649
RelayExit == 83886081
OtherRelayExit == 83951617
HomeV6 == -7
MCAppleEgress == {RelayExit}

MCHandOverlay == <<>>
MCAutoOverlay == Carrier :> "mobile"
MCAsnClass == "isp" :> "residential" @@ "carrier" :> "mobile" @@ "host" :> "datacenter"
MCAsnCatalog ==
  "carrier" :> "mobile" @@ "gateway" :> "corporate_proxy" @@ "host" :> "datacenter"
    @@ "relay" :> "privacy_relay"

MCCipherFamily ==
  "c_chrome" :> "chromium" @@ "c_firefox" :> "firefox" @@ "c_ios" :> "safari" @@ "c_mac" :> "safari"
MCSafariOs == "c_ios" :> "iOS" @@ "c_mac" :> "macOS"
MCH2Family == "masp" :> "chromium" @@ "mspa" :> "safari" @@ "mpas" :> "firefox"
MCLangCountries == "en" :> <<"US", "GB">> @@ "fr" :> <<"FR">>
MCContinent == "US" :> "NA" @@ "GB" :> "EU" @@ "FR" :> "EU"

\* Statistics that suffice for a break, that suffice as a family's only,
\* that suffice for nothing; a mode of a browser that few have on.
Learnt(n, value) == [n |-> n, fields |-> [js |-> (value :> n)]]
MCBaselines ==
  <<"Chrome", FALSE>> :> Learnt(4, "v8") @@ <<"chromium">> :> Learnt(20, "v8")
    @@ <<"Safari iOS", FALSE>> :> Learnt(2, "jsc") @@ <<"webkit">> :> Learnt(20, "jsc")
    @@ <<"gecko">> :> Learnt(8, "sm")
    @@ <<"Chrome iOS", FALSE>> :> [n |-> 8000, fields |-> [js |-> "jsc" :> 7999 @@ "jitless" :> 1]]

------------------------------------------------------------------------------
\* The addresses of the request, of the CloudFront, TCP and HTTP/2 probe and
\* of the STUN candidate.
Line(source, tls, tcp, h2, webrtc, asn) ==
  [source |-> source, api |-> source, tls |-> tls, tcp |-> tcp, h2 |-> h2, webrtc |-> webrtc,
   status |-> IF webrtc = None THEN "no_candidates" ELSE "ok", webrtcBlock |-> TRUE,
   asn |-> asn, rtt |-> 20, rcvRtt |-> 21, mss |-> 1400, ua |-> None]
HomeLine == Line(Home, Home, Home, Home, Home, "isp")
PoolLine == Line(Pool, Home, Pool, Home, Home, "isp")
NearLine == [Line(Home, Home, Home, Home, Near, "isp") EXCEPT !.rcvRtt = 30]
SilentLine == [Line(Home, Home, Home, Home, None, "isp") EXCEPT !.webrtcBlock = FALSE]
CarrierLine == Line(Carrier, CarrierFar, Carrier, Carrier, CarrierFar, "carrier")
GatewayLine == Line(Gateway, GatewayFar, Gateway, Gateway, None, "gateway")
\* The listed exit is on a network the catalog does not have.
RelayLine == Line(RelayExit, RelayExit, RelayExit, RelayExit, None, "cdn")
OtherRelayLine(h2) == Line(OtherRelayExit, OtherRelayExit, OtherRelayExit, h2, None, "relay")
TwoFamiliesLine == Line(Home, HomeV6, Home, Home, Home, "isp")

Scope(ua, platform, brands) ==
  [userAgent |-> ua, platform |-> platform, brands |-> brands, hardwareConcurrency |-> 8,
   deviceMemory |-> IF "Chrome" \in ua THEN 8 ELSE None,
   languages |-> "en", webglRenderer |-> "gpu", onLine |-> TRUE, tzOffset |-> 0,
   locale |-> "en-GB"]
Timing == [heavy |-> 8, timeline |-> 9, native |-> TRUE, trap |-> FALSE, burst |-> 2, lies |-> 0]
NoHints == [brands |-> None, platform |-> None, mobile |-> None]
NoMajors == [ua |-> None, header |-> None, probe |-> None, scripts |-> {}]

\* A browser without hints on a machine of one platform.
Device(ua, platform, wire, js) ==
  LET scope == Scope(ua, platform, None)
  IN [ua |-> ua, hints |-> [header |-> NoHints, probe |-> NoHints], majors |-> NoMajors,
      wire |-> wire, engine |-> [js |-> js], incognito |-> FALSE, nav |-> scope,
      scopes |-> [main |-> scope, web |-> scope, shared |-> scope, service |-> scope],
      tz |-> [offset |-> 0, computed |-> 0, location |-> "London", lied |-> FALSE],
      locale |-> [nav |-> "en-GB", intl |-> "en-GB"],
      accept |-> [lang |-> "en", country |-> "GB"],
      cf |-> [tz |-> "London", country |-> "GB", age |-> 10, cookie |-> "c"],
      lies |-> [of |-> <<>>, total |-> 0],
      headless |-> [rating |-> 0, likeRating |-> 0, stealth |-> 0, devTools |-> FALSE,
                    signs |-> [noTaskbar |-> TRUE, noChrome |-> FALSE, noShare |-> TRUE,
                               noIndex |-> FALSE, noContacts |-> FALSE, noPlugins |-> FALSE]],
      cdp |-> [residue |-> {}, soft |-> {}, frame |-> Timing, worker |-> Timing,
               importChain |-> FALSE],
      status |-> [iframe |-> "ok", pristine |-> "lifted"],
      bodyBrands |-> None, shielding |-> None, uuid |-> "u"]

Hinted(d, platform, mobile) ==
  LET hints == [brands |-> {"chromium", "google chrome"}, platform |-> platform, mobile |-> mobile]
  IN [d EXCEPT !.hints = [header |-> hints, probe |-> hints], !.bodyBrands = hints.brands,
               !.majors = [ua |-> 147, header |-> 147, probe |-> 147, scripts |-> {147}]]

Wire(ja4, h2, ciphers, grease, ecn) ==
  [ja4 |-> ja4, h2 |-> h2, ciphers |-> ciphers, grease |-> grease, ecn |-> ecn]
ChromeWindows ==
  Hinted(Device({"Chrome", "Safari", "Windows"}, "Win32",
                Wire("c_chrome", "masp", 16, TRUE, TRUE), "v8"), "Windows", FALSE)
ChromeAndroid ==
  Hinted(Device({"Chrome", "Safari", "Android", "Linux", "Mobile"}, "Linux",
                Wire("c_chrome", "masp", 16, TRUE, FALSE), "v8"), "Android", TRUE)
SafariPhone == Device({"Safari", "iPhone", "Mobile", "Mac OS X"}, "iPhone",
                      Wire("c_ios", "mspa", 20, TRUE, TRUE), "jsc")
BravePhone ==
  LET own == [k \in {"AnalyserNode.getFloatFrequencyData", "AnalyserNode.getByteFrequencyData",
                     "AnalyserNode.getFloatTimeDomainData", "AudioBuffer.getChannelData",
                     "PluginArray.item"} |-> 1]
  IN [SafariPhone EXCEPT !.lies = [of |-> own, total |-> 5]]
SafariMac == Device({"Safari", "Macintosh", "Mac OS X"}, "MacIntel",
                    Wire("c_mac", "mspa", 20, TRUE, TRUE), "jsc")
FirefoxLinux == Device({"Firefox", "Linux", "X11"}, "Linux",
                       Wire("c_firefox", "mpas", 17, FALSE, FALSE), "sm")

\* The company's gateway in the place of the browser: a handshake that is known
\* for none, or for another one, and the gateway's kernel, zone and country.
Gatewayed(d, ja4, ciphers) ==
  [d EXCEPT !.wire.ja4 = ja4, !.wire.ciphers = ciphers, !.wire.grease = FALSE,
            !.wire.ecn = TRUE, !.cf.tz = "Rome", !.cf.country = "FR"]

Relayed(d) == [d EXCEPT !.wire.ecn = FALSE]
NoWorkers(d) == [d EXCEPT !.scopes.web = None, !.scopes.shared = None]
WithLists(d) ==
  LET scope == [d.nav EXCEPT !.languages = LanguageList]
  IN [d EXCEPT !.nav = scope,
               !.scopes = [main |-> scope, web |-> scope, shared |-> scope, service |-> scope]]

\* Brave's shared worker belongs to another partition than the window.
BraveWindows ==
  LET scope == [ChromeWindows.nav EXCEPT !.brands = {"brave", "chromium"}]
      hints == [brands |-> {"brave", "chromium"}, platform |-> "Windows", mobile |-> FALSE]
      other == [scope EXCEPT !.hardwareConcurrency = 5, !.deviceMemory = 4, !.languages = "en-GB"]
  IN [ChromeWindows EXCEPT
        !.hints = [header |-> hints, probe |-> hints], !.bodyBrands = hints.brands, !.nav = scope,
        !.scopes = [main |-> scope, web |-> scope, shared |-> other, service |-> scope],
        !.shielding = [privacy |-> "Brave", engine |-> "Blink"]]
EdgePhone == Device({"EdgiOS", "Safari", "iPhone", "Mobile", "Mac OS X"}, "iPhone",
                    Wire("c_ios", "mspa", 20, TRUE, TRUE), "jsc")
LockedPhone == Device({"CriOS", "Safari", "iPhone", "Mobile", "Mac OS X"}, "iPhone",
                      Wire("c_ios", "mspa", 20, TRUE, TRUE), "jitless")

NoPat == [attempted |-> FALSE, verified |-> FALSE]
Pat == [attempted |-> TRUE, verified |-> TRUE]
\* The client names the HTTP/2 token on its own, the other one in its data.
Sent ==
  [tcp |-> [top |-> None, inline |-> "own"], h2 |-> [top |-> "own", inline |-> None],
   tls |-> "own", cookie |-> "own"]
Honest(device, line, pat) == [device |-> device, line |-> line, sent |-> Sent, pat |-> pat]
MCHonestScans ==
  {Honest(ChromeWindows, HomeLine, NoPat), Honest(ChromeAndroid, CarrierLine, NoPat),
   Honest(SafariPhone, NearLine, NoPat), Honest(BravePhone, PoolLine, NoPat),
   Honest(SafariMac, HomeLine, Pat),
   Honest(Gatewayed(FirefoxLinux, "c_gateway", 30), GatewayLine, NoPat),
   Honest(Gatewayed(ChromeWindows, "c_firefox", 17), GatewayLine, NoPat),
   Honest(Relayed(SafariPhone), RelayLine, NoPat),
   Honest(Relayed(SafariMac), OtherRelayLine(OtherRelayExit), NoPat),
   Honest(Relayed(SafariMac), OtherRelayLine(Home), NoPat),
   Honest(NoWorkers(FirefoxLinux), SilentLine, NoPat), Honest(BraveWindows, HomeLine, NoPat),
   Honest(WithLists(FirefoxLinux), HomeLine, NoPat), Honest(LockedPhone, HomeLine, NoPat),
   Honest(EdgePhone, TwoFamiliesLine, NoPat)}

\* One of each address, one that is attested, one with Brave's carve-out.
MCReturningScans ==
  {h \in MCHonestScans : h.line \in {CarrierLine, PoolLine} \/ h.pat.verified}

------------------------------------------------------------------------------
Set(path, to) == [path |-> path, to |-> to]
OfDevice(group, field, to) == Set(<<"device", group, field>>, to)
OfGroup(group, to) == Set(<<"device", group>>, to)
OtherScope == Scope({"Safari", "iPhone", "Mobile"}, "iPhone", None)
MCTamperings ==
  {OfDevice("lies", "of", "Navigator.platform" :> 1), OfDevice("lies", "total", 1),
   OfDevice("lies", "total", 6),
   OfDevice("headless", "rating", 1), OfDevice("headless", "stealth", 1),
   OfDevice("headless", "signs", [sign \in {"noChrome", "noShare", "noIndex"} |-> TRUE]),
   OfDevice("cdp", "residue", {"cdcGlobals"}), OfDevice("cdp", "soft", {"phantomMismatch"}),
   OfDevice("cdp", "frame", [Timing EXCEPT !.trap = TRUE]),
   OfDevice("cdp", "worker", [Timing EXCEPT !.burst = 40]),
   OfDevice("cdp", "worker", [Timing EXCEPT !.heavy = 25, !.timeline = 25]),
   OfDevice("status", "iframe", "stuck"), OfDevice("status", "pristine", "not_lifted"),
   OfDevice("wire", "grease", FALSE), OfDevice("wire", "ecn", FALSE),
   OfDevice("wire", "ja4", "c_firefox"), OfDevice("wire", "h2", "masp"),
   OfDevice("engine", "js", "other"),
   OfDevice("scopes", "web", OtherScope), OfDevice("scopes", "shared", None),
   OfDevice("hints", "probe", [NoHints EXCEPT !.platform = "Linux"]),
   OfDevice("tz", "location", "Paris"), OfDevice("locale", "intl", "fr-FR"),
   OfDevice("cf", "age", 400), OfDevice("cf", "age", 120),
   Set(<<"sent", "tcp", "inline">>, "expired"), Set(<<"sent", "tcp", "inline">>, "raw"),
   Set(<<"sent", "tcp", "top">>, "unsealed"), Set(<<"sent", "h2", "top">>, "unlisted"),
   Set(<<"sent", "h2", "top">>, None), Set(<<"sent", "h2", "inline">>, "own"),
   Set(<<"sent", "tls">>, "edited"), Set(<<"sent", "tls">>, "raw"), Set(<<"sent", "cookie">>, None),
   Set(<<"pat", "attempted">>, TRUE), Set(<<"pat", "verified">>, FALSE),
   Set(<<"key">>, Unreadable), Set(<<"key">>, None),
   Set(<<"line", "status">>, "forgery"), Set(<<"line", "webrtc">>, Exit),
   Set(<<"line", "rcvRtt">>, 60), Set(<<"line", "api">>, Exit),
   Set(<<"line", "tcp">>, Carrier), Set(<<"line", "source">>, Exit),
   Set(<<"line", "asn">>, "host")}

MCAlterations ==
  {OfGroup("lies", FirefoxLinux.lies), OfGroup("cdp", FirefoxLinux.cdp),
   OfGroup("status", FirefoxLinux.status), Set(<<"hashes">>, "other"),
   Set(<<"session">>, "other"), Set(<<"mac">>, None), Set(<<"identity">>, None),
   Set(<<"identity", "pubkey">>, None), Set(<<"identity", "sig">>, None),
   Set(<<"identity", "sig">>, [by |-> Unreadable, over |-> <<"own", "own">>]),
   Set(<<"sent", "h2", "top">>, "expired")}

KeySymmetry == Permutations(Keys)
=============================================================================
