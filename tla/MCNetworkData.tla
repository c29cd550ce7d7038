---------------------------- MODULE MCNetworkData ----------------------------
(* A small instance of NetworkData for TLC.                                *)
EXTENDS NetworkData

MCSymmetry == Permutations(DiscoverRuns) \cup Permutations(Builds)

Network(name, customer, cidrs) == [name |-> name, customer |-> customer, cidrs |-> cidrs]

\* A carrier's block with two smaller ones inside that a tenant of another
\* category has, a neighbour, and a block nobody can categorize.
MCNetworks ==
  {Network("carrier-1", None, {<<0, 1>>}), Network("carrier-2", "tenant", {<<2, 3>>, <<6, 3>>}),
   Network("neighbour", None, {<<8, 3>>}), Network("unknown", None, {<<12, 2>>})}

MCCategoryOf ==
  [n \in {"carrier-1", "carrier-2", "neighbour", "unknown", "tenant"} |->
     CASE n \in {"carrier-1", "carrier-2"} -> "mobile"
       [] n = "tenant" -> "datacenter"
       [] n = "neighbour" -> "residential"
       [] OTHER -> None]

MCFamilyOf ==
  [n \in {"carrier-1", "carrier-2", "neighbour", "unknown"} |->
     IF n \in {"carrier-1", "carrier-2"} THEN "carrier" ELSE None]

\* An ASN with two names, one that is only known by an override, one with
\* nothing, and ASN 0.
MCOrgLength == [o \in {"", "cloud", "cloud inc", "isp"} |->
                  CASE o = "" -> 0 [] o = "isp" -> 3 [] o = "cloud" -> 5 [] OTHER -> 9]
MCOrgCategory == [o \in DOMAIN MCOrgLength |->
                    CASE o = "cloud inc" -> "datacenter" [] o = "isp" -> "residential"
                      [] OTHER -> None]
MCAsnTables ==
  {<<<<1, "cloud">>, <<1, "cloud inc">>, <<2, "isp">>, <<3, "">>, <<0, "isp">>>>,
   <<<<1, "cloud">>, <<2, "cloud inc">>>>}
MCPdbAnswers == {(1 :> "NSP" @@ 2 :> "Content"), (1 :> "Cable/DSL/ISP" @@ 3 :> "")}
MCOverrides == (3 :> "residential")

\* A plain row, and one that differs from it in one respect each.
Row == [browser |-> "Chrome", version |-> 147, private |-> FALSE,
        family |-> "chromium", ip |-> "ip1", day |-> 1, js |-> "v8", tls |-> "t1",
        tampered |-> FALSE, automated |-> FALSE, proxyDetected |-> FALSE,
        asnCategory |-> "residential"]
MCRows ==
  {Row, [Row EXCEPT !.ip = "ip2", !.js = "other"], [Row EXCEPT !.day = 2],
   [Row EXCEPT !.private = TRUE, !.js = "other"], [Row EXCEPT !.browser = None],
   [Row EXCEPT !.ip = None], [Row EXCEPT !.tampered = TRUE, !.js = "forged"],
   [Row EXCEPT !.automated = TRUE, !.ip = "ip2"],
   [Row EXCEPT !.proxyDetected = TRUE, !.tls = "t2"],
   [Row EXCEPT !.asnCategory = "corporate_proxy", !.proxyDetected = TRUE, !.tls = "t2"],
   [Row EXCEPT !.asnCategory = "datacenter"]}
MCArchives == {<<>>} \cup {<<<<r, s>>, <<t>>>> : r \in MCRows, s \in MCRows, t \in MCRows}

\* What the SDK sends with one of two pairs, a while ago or from a clock that
\* is ahead; a scan that differs in one respect, and other requests.
Scan(pair, age) ==
  [integrity |-> TRUE, octet |-> TRUE, origin |-> "own", version |-> 3, session |-> "own",
   body |-> [pair |-> pair, origin |-> "own", age |-> age, seed |-> "own"], faults |-> {}]
Collect(faults) ==
  [Scan(1, 0) EXCEPT !.integrity = FALSE, !.body.seed = None, !.faults = faults]
Compressed(faults) == [Collect(faults) EXCEPT !.origin = None, !.body = None]
Plain(faults) == [Compressed(faults) EXCEPT !.octet = FALSE]
MCRequests ==
  {Scan(1, age) : age \in -1 .. 3} \cup {Scan(2, age) : age \in 0 .. 1}
    \cup {[Scan(1, 1) EXCEPT !.octet = FALSE], [Scan(1, 1) EXCEPT !.origin = None],
          [Scan(1, 1) EXCEPT !.origin = "other"], [Scan(1, 1) EXCEPT !.session = "other"],
          [Scan(1, 1) EXCEPT !.session = None], [Scan(1, 1) EXCEPT !.version = 2],
          [Scan(1, 1) EXCEPT !.body = None], [Scan(1, 1) EXCEPT !.faults = {"no JSON"}]}
    \cup {Collect({}), Collect({"inflates"}), [Collect({}) EXCEPT !.body.seed = "own"]}
    \cup {Compressed(f) : f \in {{}, {"no gzip header"}, {"no base64"}, {"large"},
                                {"no gzip"}, {"inflates"}, {"no JSON"}}}
    \cup {Plain(f) : f \in {{}, {"large"}, {"no JSON"}}}
=============================================================================
