---------------------------- MODULE MCIngestion ----------------------------
(* Small instances of Ingestion for TLC.                                   *)
EXTENDS Ingestion, TLC

CONSTANTS c1, s1, s2, d1, n1

Scan(session, device, stun) ==
  [key |-> <<c1, session>>, proxy |-> FALSE, tokens |-> {"tcp"},
   mac |-> TRUE, device |-> device, stun |-> stun]

\* A scan with a device id and two sessions that present one STUN candidate
\* (the retry of each is another submission of the same shape), a proxy scan
\* of the first session, and a scan whose MAC is wrong.
MCShapes ==
  {Scan(s1, d1, None), Scan(s1, None, n1), Scan(s2, None, n1),
   [Scan(s1, None, None) EXCEPT !.proxy = TRUE, !.tokens = Probes],
   [Scan(s2, d1, None) EXCEPT !.mac = FALSE]}

\* One store, the one with fewer steps; IpVelocity is checked with both.
MCInit == Init /\ valkey = FALSE
MCSpec == MCInit /\ [][Next]_vars

MCCpis == {c1}
MCSessions == {s1, s2}
MCDevices == {d1}
MCCandidates == {n1}
MCSymmetry == Permutations(Submissions) \cup Permutations(Containers)
=============================================================================
