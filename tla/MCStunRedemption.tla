-------------------------- MODULE MCStunRedemption --------------------------
(* Small instances of StunRedemption for TLC.                              *)
EXTENDS StunRedemption

\* Sessions and candidates are interchangeable (safety only).
MCSymmetry == Permutations(SessionIds) \cup Permutations(Candidates)
=============================================================================
