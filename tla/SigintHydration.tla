-------------------------- MODULE SigintHydration --------------------------
(***************************************************************************)
(* From the submission of a scan to the evidence its analyses read: what   *)
(* the client says the probes saw is dropped, what they saw is fetched     *)
(* with the tokens they gave the client (handlers/ingestion/middleware.ts, *)
(* sigint-hydration.ts; helpers/redeem-sigint-tokens.ts, verify-cf-        *)
(* token.ts). A submission has, next to its device and line,               *)
(*   line.source  the address the request came from                        *)
(*   line.h2      the address the HTTP/2 probe saw                         *)
(*   sent.tcp, sent.h2   where a token is put: top, or inline in the probe *)
(*                data; a kind of token, "raw" (data without one) or None  *)
(*   sent.tls     the CloudFront function's signed blob: "own", "edited",  *)
(*                "raw" (does not parse) or None                           *)
(*   sent.cookie  its cookie: "own", "other" device's, "edited" or None    *)
(***************************************************************************)
EXTENDS ScanValues

\* Each probe is named at least; inline data is a name only with a token.
ProbeNamed(place) == place.top # None \/ place.inline \notin {None, "raw"}
CheckProbePresence(s) == ProbeNamed(s.sent.tcp) /\ ProbeNamed(s.sent.h2) /\ s.sent.tls # None

------------------------------------------------------------------------------
(* Tokens.                                                                 *)

\* What the TCP and the HTTP/2 probe store with the token they give out.
TcpPrint(s) ==
  [ip |-> s.line.tcp, rtt |-> s.line.rtt, rcvRtt |-> s.line.rcvRtt, mss |-> s.line.mss,
   ja4 |-> s.device.wire.ja4, ciphers |-> s.device.wire.ciphers, grease |-> s.device.wire.grease,
   ecn |-> s.device.wire.ecn, hints |-> s.device.hints.probe, major |-> s.device.majors.probe]
H2Print(s) ==
  [ip |-> s.line.h2, ja4 |-> s.device.wire.ja4, ciphers |-> s.device.wire.ciphers,
   grease |-> s.device.wire.grease, order |-> s.device.wire.h2]

\* Where a probe was not redeemed.
NoTcpPrint ==
  [ip |-> None, rtt |-> 0, rcvRtt |-> 0, mss |-> 0, ja4 |-> None, ciphers |-> None,
   grease |-> None, ecn |-> None, major |-> None,
   hints |-> [brands |-> None, platform |-> None, mobile |-> None]]
NoH2Print == [ip |-> None, ja4 |-> None, ciphers |-> None, grease |-> None, order |-> None]

\* A token is the client's own, or past its expiry, or not in the table, or
\* sealed with another key.
Kinds == {"own", "expired", "unlisted", "unsealed"}
Places == [top : Kinds \cup {None}, inline : Kinds \cup {"raw", None}]

Token(kind, print) ==
  [live |-> kind # "expired", listed |-> kind # "unlisted", sealed |-> kind # "unsealed",
   clientIp |-> print.ip]

InlineToken(probe) == IF probe = "raw" THEN None ELSE probe
ResolveProbeToken(place) == FirstOf(<<place.top, InlineToken(place.inline)>>)

\* Variant: a token is redeemed from any address.
RedeemAnywhere(kind, print, source) ==
  LET token == Token(kind, print)
  IN kind # None /\ token.live /\ token.listed /\ token.sealed

\* The token holds at the address of the request.
RedeemToken(kind, print, source) ==
  LET token == Token(kind, print)
  IN kind # None /\ token.live /\ token.listed /\ token.clientIp = source /\ token.sealed

TcpRedeemed(s) == RedeemToken(ResolveProbeToken(s.sent.tcp), TcpPrint(s), s.line.source)
H2Redeemed(s) == RedeemToken(ResolveProbeToken(s.sent.h2), H2Print(s), s.line.source)

\* What the probe saw, as far as the analyses are told.
Tcp(s) == IF TcpRedeemed(s) THEN TcpPrint(s) ELSE NoTcpPrint
H2(s) == IF H2Redeemed(s) THEN H2Print(s) ELSE NoH2Print

------------------------------------------------------------------------------
(* The signed blob and its cookie.                                         *)

MaxAgeSeconds == 90

\* The signature covers id, address, ASN and time, not zone and country.
VerifyCfToken(s) ==
  [tampered |-> s.sent.tls # "own",
   expired |-> s.device.cf.age > MaxAgeSeconds \/ s.device.cf.age < -MaxAgeSeconds]

CookieFlags(cookie) ==
  IF cookie \in {None, "edited"} THEN [tampered |-> TRUE, matches |-> None]
  ELSE [tampered |-> FALSE, matches |-> cookie = "own"]

NoCf ==
  [ip |-> None, asn |-> None, tz |-> None, country |-> None, cookie |-> None, age |-> None,
   tampered |-> FALSE, expired |-> FALSE, cookieTampered |-> FALSE, cookieMatches |-> None]

\* The record made of the blob, its verification stamped on it.
CfParsed(s) == s.sent.tls # "raw"

AwsCf(s) ==
  LET checked == VerifyCfToken(s)
      flags == CookieFlags(s.sent.cookie)
  IN IF ~CfParsed(s) THEN NoCf
     ELSE [ip |-> s.line.tls, asn |-> s.line.asn, tz |-> s.device.cf.tz,
           country |-> s.device.cf.country, cookie |-> s.device.cf.cookie, age |-> s.device.cf.age,
           tampered |-> checked.tampered, expired |-> checked.expired,
           cookieTampered |-> flags.tampered, cookieMatches |-> flags.matches]

Authentic(s) == CfParsed(s) /\ ~AwsCf(s).tampered /\ ~AwsCf(s).expired

------------------------------------------------------------------------------
\* A full scan needs one probe's evidence, the reduced product all three.
Hydratable(s) ==
  IF s.product = "proxy" THEN Authentic(s) /\ TcpRedeemed(s) /\ H2Redeemed(s)
  ELSE Authentic(s) \/ TcpRedeemed(s) \/ H2Redeemed(s)

Admitted(s) == CheckProbePresence(s) /\ Hydratable(s)

\* The submission with the evidence in the place of what the client sent.
Hydrated(s) ==
  LET tcp == Tcp(s)
      h2 == H2(s)
      cf == AwsCf(s)
  IN [s EXCEPT
        !.line = [@ EXCEPT !.tcp = tcp.ip, !.rtt = tcp.rtt, !.rcvRtt = tcp.rcvRtt,
                           !.mss = tcp.mss, !.tls = cf.ip, !.asn = cf.asn],
        !.device = [@ EXCEPT
          !.hints.probe = tcp.hints, !.majors.probe = tcp.major, !.cf = cf,
          !.wire = [ja4 |-> FirstOf(<<h2.ja4, tcp.ja4>>), h2 |-> h2.order, ecn |-> tcp.ecn,
                    ciphers |-> FirstOf(<<h2.ciphers, tcp.ciphers>>),
                    grease |-> FirstOf(<<h2.grease, tcp.grease>>)]]]
=============================================================================
