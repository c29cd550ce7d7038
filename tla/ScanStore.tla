------------------------------ MODULE ScanStore ------------------------------
(***************************************************************************)
(* What ingestion promises about scans: the first record written for a     *)
(* scan is the record of that scan for good, and a submission is only      *)
(* acknowledged when its scan has one.                                     *)
(***************************************************************************)
CONSTANTS Keys, Values, NoValue

VARIABLES
  store,    \* [Keys -> Values \cup {NoValue}]
  acked     \* the keys some submission was acknowledged for

storeVars == <<store, acked>>

StoreInit ==
  /\ store = [k \in Keys |-> NoValue]
  /\ acked = {}

Write(k, v) ==
  /\ store[k] = NoValue
  /\ store' = [store EXCEPT ![k] = v]
  /\ UNCHANGED acked

Acknowledge(k) ==
  /\ store[k] # NoValue
  /\ acked' = acked \cup {k}
  /\ UNCHANGED store

\* A write whose answer arrives at once.
WriteAndAcknowledge(k, v) ==
  /\ store[k] = NoValue
  /\ store' = [store EXCEPT ![k] = v]
  /\ acked' = acked \cup {k}

StoreNext ==
  \E k \in Keys :
    \/ Acknowledge(k)
    \/ \E v \in Values : Write(k, v) \/ WriteAndAcknowledge(k, v)

StoreSpec == StoreInit /\ [][StoreNext]_storeVars
=============================================================================
