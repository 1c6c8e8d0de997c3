-------------------------- MODULE MCTopologyLoader ---------------------------
(***************************************************************************)
(* An instance of TopologyLoader for TLC: two devices, a link in each      *)
(* direction, an external link and two hosts.                              *)
(***************************************************************************)
EXTENDS TopologyLoader, TLC

CONSTANTS d1, d2, p1, p2, p3, p4, p5, x1, l1, l2, l3, h1, h2, o1, o2

MCDeviceOf == (p1 :> d1) @@ (p2 :> d1) @@ (p3 :> d2) @@ (p4 :> d2) @@ (p5 :> d2)

MCDeviceList == <<d1, d2>>
MCLinkList == << [id |-> l1, src |-> p1, tgt |-> p3],
                 [id |-> l2, src |-> p3, tgt |-> p1],
                 [id |-> l3, src |-> p4, tgt |-> x1] >>
MCHostList == << [id |-> h1, ports |-> {p2}], [id |-> h2, ports |-> {p5}] >>
==============================================================================
