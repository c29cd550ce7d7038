------------------------------ MODULE NetworkData ------------------------------
(***************************************************************************)
(* The datasets behind a scan's network verdicts and the keys behind its   *)
(* checks: the jobs that write them (OverlayDiscovery, AsnDataset,         *)
(* BrowserBaselines), the copies the containers keep (DatasetCaches) and   *)
(* the requests that are opened with the keys among them (SealedTransport). *)
(* The jobs share nothing with each other, and a container sees of a job   *)
(* only that the source has a new version: a behaviour follows one part,   *)
(* the others do not move.                                                 *)
(***************************************************************************)
EXTENDS OverlayDiscovery, AsnDataset, BrowserBaselines, SealedTransport

VARIABLE part   \* the part that moves

vars == <<part, overlayVars, asnVars, baselineVars, cacheVars, transportVars>>

Parts == {"overlay", "asn", "baselines", "caches", "transport"}

Init ==
  /\ part \in Parts
  /\ OverlayInit /\ AsnInit /\ BaselineInit /\ CacheInit /\ TransportInit
  /\ part # "baselines" => archive = <<>>
  /\ part = "transport" => kind = "ecdh"
  /\ part \notin {"caches", "transport"} => kind = "dataset"

Next ==
  /\ UNCHANGED part
  /\ \/ part = "overlay" /\ OverlayNext
       /\ UNCHANGED <<asnVars, baselineVars, cacheVars, transportVars>>
     \/ part = "asn" /\ AsnNext
       /\ UNCHANGED <<overlayVars, baselineVars, cacheVars, transportVars>>
     \/ part = "baselines" /\ BaselineNext
       /\ UNCHANGED <<overlayVars, asnVars, cacheVars, transportVars>>
     \/ part = "caches" /\ CacheNext
       /\ UNCHANGED <<overlayVars, asnVars, baselineVars, transportVars>>
     \/ part = "transport" /\ TransportNext
       /\ UNCHANGED <<overlayVars, asnVars, baselineVars>>

Spec == Init /\ [][Next]_vars
=============================================================================
