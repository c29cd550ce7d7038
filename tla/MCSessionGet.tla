---------------------------- MODULE MCSessionGet ----------------------------
(* Small instances of SessionGet for TLC.                                  *)
EXTENDS SessionGet

CONSTANTS m1, c1, c2, s1, k1, k2, pk1, pk2, r1, r2

Token(c, k, signed) ==
  [merchantId |-> m1, cpi |-> c, keyId |-> k, signed |-> signed]

\* An attestation for (c1, s1), made with key pk, signed with signer.
Attested(pk, signer) ==
  [timely |-> TRUE, cpi |-> c1, sessionId |-> s1, publicKey |-> pk,
   keyId |-> pk, signer |-> signer]

Shape(c, apiKey, token, attestation) ==
  [cpi |-> c, sessionId |-> s1, apiKey |-> apiKey, token |-> token,
   attestation |-> attestation]

\* An honest read, an attested one, and one request per check that may fail:
\* no token, another gateway key, a token for another cpi, an unsigned token,
\* and an attestation signed by another key.
MCShapes ==
  <<Shape(c1, k1, Token(c1, k1, TRUE), None),
   Shape(c1, k1, Token(c1, k1, TRUE), Attested(pk1, pk1)),
   Shape(c1, k1, None, None),
   Shape(c1, k2, Token(c1, k1, TRUE), None),
   Shape(c1, k1, Token(c2, k1, TRUE), None),
   Shape(c1, k1, Token(c1, k1, FALSE), None),
   Shape(c1, k1, Token(c1, k1, TRUE), Attested(pk1, pk2))>>
MCRequestShapes == {MCShapes[i] : i \in DOMAIN MCShapes}

\* Invocations are interchangeable: call the one of the earlier shape r1.
Position(q) == CHOOSE i \in DOMAIN MCShapes : MCShapes[i] = q
InOrder == input[r1] = None \/ input[r2] = None \/ Position(input[r1]) <= Position(input[r2])
MCNext == Next /\ InOrder'
MCSpec == Init /\ [][MCNext]_vars /\ Fairness

MCMerchants == {m1}
MCCpis == {c1, c2}
MCSessions == {s1}
MCScanKeys == {<<c1, s1>>}
MCKeyIds == {k1, k2}
MCPublicKeys == {pk1, pk2}
=============================================================================
