-------------------------- MODULE MCPatAttestation --------------------------
(* Small instances of PatAttestation for TLC.                              *)
EXTENDS PatAttestation, TLC

\* Safety only: whoever is interchangeable.
MCSymmetry ==
  Permutations(Calls) \cup Permutations(Containers) \cup Permutations(Keys)
    \cup Permutations(Bindings) \cup Permutations(Serials)
=============================================================================
