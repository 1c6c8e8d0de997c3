--------------------------- MODULE InventoryHistory --------------------------
(***************************************************************************)
(* Inventory with a history variable: the links whose status was last set  *)
(* by switching their port, on the device that has the port now.  A link   *)
(* is added with any status, and outlives its device; so does a request to *)
(* switch a port.  The variable observes the steps of Inventory and        *)
(* constrains none.                                                        *)
(***************************************************************************)
EXTENDS Inventory

VARIABLE switched

\* Requests that set the status of their port, and of its link, in this step.
Switching == {c \in Clients : SetPortStatus(c)}
SwitchedPorts == {request[c].port : c \in {b \in Switching : ~ request[b].gone}}

\* Ports that go with their device, or went before their link was switched.
LostPorts ==
    {p \in LocalPorts : DeviceOf[p] \notin DOMAIN devices'}
    \cup {request[c].port : c \in {b \in Switching : request[b].gone}}

HistoryInit == Init /\ switched = {}
HistoryNext ==
    /\ Next
    /\ switched' =
        {l \in DOMAIN links' :
            \/ links'[l].src \in SwitchedPorts
            \/ l \in switched /\ links'[l].src \notin LostPorts}
HistorySpec == HistoryInit /\ [][HistoryNext]_<<vars, switched>>

\* A link that was switched with its port is up if and only if the port is enabled,
\* whoever switches which port while devices, links and hosts come and go: the port
\* and its link are found by one ID, and set under one lock (device.go:243).
SwitchedLinkAgreesWithPort ==
    \A l \in switched :
        LET p == links[l].src IN ValidPort(p) /\ links[l].up = devices[DeviceOf[p]][p]
==============================================================================
