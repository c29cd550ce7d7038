--------------------------- MODULE CandidateClaims ---------------------------
(***************************************************************************)
(* What a container promises of STUN candidates: a candidate has one       *)
(* holder at a time, it passes from one session to another only by being   *)
(* forgotten, and only a session that meets another holder is refused.     *)
(***************************************************************************)
CONSTANTS Names, Claimants, Nobody

VARIABLES
  holder,   \* [Names -> Claimants \cup {Nobody}]
  refused   \* <<n, h>>: h was refused n, at some time

claimsVars == <<holder, refused>>

ClaimsInit ==
  /\ holder = [n \in Names |-> Nobody]
  /\ refused = {}

Without(lost) == [n \in Names |-> IF n \in lost THEN Nobody ELSE holder[n]]

\* h gets a candidate that nobody holds, for which others may be forgotten.
Grant(n, h, lost) ==
  /\ holder[n] = Nobody
  /\ holder' = [Without(lost) EXCEPT ![n] = h]
  /\ UNCHANGED refused

Refuse(n, h) ==
  /\ holder[n] \notin {Nobody, h}
  /\ refused' = refused \cup {<<n, h>>}
  /\ UNCHANGED holder

Forget(lost) ==
  /\ holder' = Without(lost)
  /\ UNCHANGED refused

ClaimsNext ==
  \/ \E n \in Names, h \in Claimants :
       Refuse(n, h) \/ \E lost \in SUBSET Names : Grant(n, h, lost)
  \/ \E lost \in SUBSET Names : Forget(lost)

ClaimsSpec == ClaimsInit /\ [][ClaimsNext]_claimsVars
=============================================================================
