---------------------------- MODULE MCIpVelocity ----------------------------
(* Small instances of IpVelocity for TLC.                                  *)
EXTENDS IpVelocity, TLC

\* Calls and devices are interchangeable (safety only).
MCSymmetry == Permutations(Calls) \cup Permutations(Devices)
=============================================================================
