----------------------------- MODULE DeviceSeals -----------------------------
(***************************************************************************)
(* What a client vouches for: the signature of the device's key over its   *)
(* HTTP/2 token and the payload's hashes (helpers/device-identity.ts),     *)
(* whose outcome is recorded, and the MAC over what the SDK collected      *)
(* (helpers/device-mac.ts), without which a full scan is refused. A        *)
(* submission has, next to its device and what it sent,                    *)
(*   session    the session token of its header                            *)
(*   hashes     the stable and the fuzzy hash                              *)
(*   identity   [pubkey, sig] or None; a signature is [by, over] or None   *)
(*   mac        [material, slices], what the MAC was computed from, or     *)
(*              None: there is none, or no attestation of the worker       *)
(***************************************************************************)
EXTENDS SigintHydration

CONSTANT Unreadable   \* a public key that cannot be imported

------------------------------------------------------------------------------
(* The signature.                                                          *)

\* Only the token on its own counts, also where an inline one is redeemed.
SignedInput(s) == <<s.sent.h2.top, s.hashes>>

Outcome(present, pubkey, sigPresent, reason) ==
  [present |-> present, key |-> pubkey, sig |-> sigPresent, verified |-> reason = None]

Absent == Outcome(FALSE, None, FALSE, "absent")

\* Whether the token is redeemed is not asked here.
VerifyDeviceIdentity(s) ==
  LET id == s.identity
      signed == [by |-> id.pubkey, over |-> SignedInput(s)]
  IN CASE id = None -> Absent
       [] id # None /\ None \in {id.pubkey, id.sig} ->
            Outcome(TRUE, id.pubkey, id.sig # None, "malformed")
       [] OTHER ->
            Outcome(TRUE, id.pubkey, TRUE,
              OneOf(<<<<s.sent.h2.top = None, "probe_token_missing">>,
                      <<id.pubkey = Unreadable, "pubkey_invalid">>,
                      <<id.sig # signed, "sig_invalid">>>>))

------------------------------------------------------------------------------
(* The MAC.                                                                *)

\* The collected fields among the slices; wire, hints, address and language
\* of the request are not, and uuid and the version of the brands neither.
MacSlices ==
  {"engine", "incognito", "nav", "scopes", "tz", "locale", "lies", "headless", "cdp",
   "status", "bodyBrands", "shielding"}

Pubkey(s) == IF s.identity = None THEN None ELSE s.identity.pubkey

\* Empty parts are left out, inline tokens are not among them.
BuildKeyMaterial(s) ==
  LET parts == <<<<"tls", s.sent.tls>>, <<"tcp", s.sent.tcp.top>>,
                 <<"h2", s.sent.h2.top>>, <<"pubkey", Pubkey(s)>>>>
  IN <<<<"session", s.session>>>> \o SelectSeq(parts, LAMBDA p : p[2] # None)

ComputeMac(s) ==
  [material |-> BuildKeyMaterial(s), slices |-> [f \in MacSlices |-> s.device[f]]]

VerifyDeviceMac(s) == s.mac = ComputeMac(s)

------------------------------------------------------------------------------
\* What the SDK does last: it signs with the device's key, if it has one,
\* and computes the MAC of all it is about to send.
SealedBySdk(s) ==
  LET id == IF s.key = None THEN None
            ELSE [pubkey |-> s.key, sig |-> [by |-> s.key, over |-> SignedInput(s)]]
      signed == [s EXCEPT !.identity = id]
  IN IF s.sealed THEN s ELSE [signed EXCEPT !.mac = ComputeMac(signed), !.sealed = TRUE]
=============================================================================
