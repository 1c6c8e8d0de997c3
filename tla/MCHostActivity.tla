---------------------------- MODULE MCHostActivity ---------------------------
(***************************************************************************)
(* Instances of HostActivity for TLC.                                      *)
(***************************************************************************)
EXTENDS HostActivity

CONSTANTS h1, h2, c1, c2

\* Host h1 has one NIC, every other host two.
MCNICs == [h \in Hosts |-> IF h = h1 THEN 1 ELSE 2]
MCThreads == Hosts \cup Requests
==============================================================================
