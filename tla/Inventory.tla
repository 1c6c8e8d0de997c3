------------------------------ MODULE Inventory ------------------------------
(***************************************************************************)
(* The core of the simulation (simulator/core.go): the devices, links and  *)
(* hosts that exist, and which port is used by which link or host.         *)
(*                                                                         *)
(* Adding and removing hold simulation.lock exclusively from beginning to  *)
(* end, and are single actions.  A request that is refused changes nothing *)
(* and has no action.  Two kinds of request work on the maps in two steps  *)
(* without that lock: switching a port on or off, which first looks up the *)
(* device and then changes the port under the lock of the device, and      *)
(* emitting an LLDP packet, which follows a link to a device that may have *)
(* gone by then.                                                           *)
(***************************************************************************)
EXTENDS Functions, FiniteSets

CONSTANTS
    Devices,        \* device IDs
    LocalPorts,     \* port IDs
    DeviceOf,       \* ExtractDeviceID: the device named in a port ID
    RemotePorts,    \* port IDs of other simulators, as targets of links
    Links,          \* link IDs
    Hosts,          \* host IDs
    Clients,        \* concurrent requests to switch a port or emit a packet
    Nil

ASSUME InventoryAssumption ==
    /\ DeviceOf \in [LocalPorts -> Devices]
    /\ LocalPorts \cap RemotePorts = {}

VARIABLES
    devices,            \* device -> its ports, each enabled or not
    links,              \* link -> [src, tgt, up]
    hosts,              \* host -> the ports of its NICs
    usedEgressPorts,    \* port -> the link or host that sends through it
    usedIngressPorts,   \* port -> the link or host that receives through it
    request,            \* progress of each two-step request, Nil when idle
    crash               \* what ended the process, "none" while it runs

usedPorts == <<usedEgressPorts, usedIngressPorts>>
vars == <<devices, links, hosts, usedPorts, request, crash>>

\* Entries of usedEgressPorts and usedIngressPorts.
LinkUser(l) == <<"link", l>>
HostUser(h) == <<"host", h>>

\* Go maps: m[k] = v, and delete of some keys.
Put(m, K, v) == [k \in DOMAIN m \cup K |-> IF k \in K THEN v ELSE m[k]]
Delete(m, K) == Restrict(m, DOMAIN m \ K)

PortsOf(d) == {p \in LocalPorts : DeviceOf[p] = d}
ValidPort(p) ==
    /\ p \in LocalPorts
    /\ DeviceOf[p] \in DOMAIN devices
    /\ p \in DOMAIN devices[DeviceOf[p]]

------------------------------------------------------------------------------
\* Devices.

Replaces(d, ports) ==
    /\ devices' = Put(devices, {d}, ports)
    /\ UNCHANGED <<links, hosts, usedPorts, request, crash>>
AddDeviceSimulator(d, ports) ==
    /\ d \notin DOMAIN devices
    /\ devices' = Put(devices, {d}, ports)
    /\ UNCHANGED <<links, hosts, usedPorts, request, crash>>

\* Links and hosts stay.  A request that has found the device keeps it.  The
\* agent of the device, which is stopped first, is not part of this module.
RemoveDeviceSimulator(d) ==
    /\ d \in DOMAIN devices
    /\ devices' = Delete(devices, {d})
    /\ request' = [c \in Clients |->
                     IF request[c] # Nil /\ request[c].op = "switch" /\ DeviceOf[request[c].port] = d
                     THEN [request[c] EXCEPT !.gone = TRUE] ELSE request[c]]
    /\ UNCHANGED <<links, hosts, usedPorts, crash>>

------------------------------------------------------------------------------
\* Links.

IsExternal(tgt) == tgt \in RemotePorts

Available(src, tgt) ==
    /\ src \notin DOMAIN usedEgressPorts
    /\ ~ IsExternal(tgt) => tgt \notin DOMAIN usedIngressPorts

LinkAccepted(l, src, tgt) ==
    /\ ValidPort(src)
    /\ ~ IsExternal(tgt) => ValidPort(tgt)
    /\ Available(src, tgt)
    /\ l \notin DOMAIN links

\* The link keeps the status that the request gives it, whatever its port's is.
AddLinkSimulator(l, src, tgt, up) ==
    /\ LinkAccepted(l, src, tgt)
    /\ links' = Put(links, {l}, [src |-> src, tgt |-> tgt, up |-> up])
    /\ usedEgressPorts' = Put(usedEgressPorts, {src}, LinkUser(l))
    /\ usedIngressPorts' =
         Put(usedIngressPorts, IF IsExternal(tgt) THEN {} ELSE {tgt}, LinkUser(l))
    /\ UNCHANGED <<devices, hosts, request, crash>>

RemoveLinkSimulator(l) ==
    /\ l \in DOMAIN links
    /\ links' = Delete(links, {l})
    /\ usedEgressPorts' = Delete(usedEgressPorts, {links[l].src})
    /\ usedIngressPorts' = Delete(usedIngressPorts, {links[l].tgt})
    /\ UNCHANGED <<devices, hosts, request, crash>>

------------------------------------------------------------------------------
\* Hosts.  All ports are validated and found free before any is used.

HostAccepted(h, ports) ==
    /\ \A p \in ports : ValidPort(p)
    /\ ports \cap (DOMAIN usedEgressPorts \cup DOMAIN usedIngressPorts) = {}
    /\ h \notin DOMAIN hosts

AddHostSimulator(h, ports) ==
    /\ HostAccepted(h, ports)
    /\ hosts' = Put(hosts, {h}, ports)
    /\ usedEgressPorts' = Put(usedEgressPorts, ports, HostUser(h))
    /\ usedIngressPorts' = Put(usedIngressPorts, ports, HostUser(h))
    /\ UNCHANGED <<devices, links, request, crash>>

KeepsIngress(h) ==
    /\ usedEgressPorts' = Delete(usedEgressPorts, hosts[h])
    /\ UNCHANGED usedIngressPorts
FreesPorts(h) ==
    /\ usedEgressPorts' = Delete(usedEgressPorts, hosts[h])
    /\ usedIngressPorts' = Delete(usedIngressPorts, hosts[h])

RemoveHostSimulator(h) ==
    /\ h \in DOMAIN hosts
    /\ hosts' = Delete(hosts, {h})
    /\ FreesPorts(h)
    /\ UNCHANGED <<devices, links, request, crash>>

------------------------------------------------------------------------------
\* EnablePort and DisablePort: the device is looked up, then setPortStatus.

Idle(c) == request[c] = Nil
Begin(c, r) == Idle(c) /\ request' = [request EXCEPT ![c] = r]
End(c) == request' = [request EXCEPT ![c] = Nil]
Running(c, op) == ~ Idle(c) /\ request[c].op = op

Crash(reason) ==
    /\ crash' = reason
    /\ UNCHANGED <<devices, links, hosts, usedPorts, request>>

FindDevice(c, p, up) ==
    /\ ValidPort(p)
    /\ Begin(c, [op |-> "switch", port |-> p, up |-> up, gone |-> FALSE])
    /\ UNCHANGED <<devices, links, hosts, usedPorts, crash>>

\* The link that GetLinkFromPort finds.
HasLink(p) == p \in DOMAIN usedEgressPorts /\ usedEgressPorts[p][1] = "link"
LinkFromPort(p) == usedEgressPorts[p][2]

\* The ports of a device that is gone are of no use any more, but the link
\* that was found by the ID of the port is.
NeverUpAgain(r) ==
    [l \in DOMAIN links |->
        IF HasLink(r.port) /\ LinkFromPort(r.port) = l
        THEN [links[l] EXCEPT !.up = @ /\ r.up] ELSE links[l]]
SwitchedLinks(r) ==
    [l \in DOMAIN links |->
        IF HasLink(r.port) /\ LinkFromPort(r.port) = l
        THEN [links[l] EXCEPT !.up = r.up] ELSE links[l]]

SetPortStatus(c) ==
    /\ Running(c, "switch")
    /\ LET r == request[c]
           d == DeviceOf[r.port]
       IN
       /\ devices' = IF r.gone THEN devices
                     ELSE [devices EXCEPT ![d] = [@ EXCEPT ![r.port] = r.up]]
       /\ links' = SwitchedLinks(r)
    /\ End(c)
    /\ UNCHANGED <<hosts, usedPorts, crash>>

------------------------------------------------------------------------------
\* An LLDP packet-out: the link is looked up, then the device at its end.
\* None of the lookups takes simulation.lock.

ProcessLLDPPacket(c, p) ==
    /\ ValidPort(p) /\ devices[DeviceOf[p]][p]
    /\ HasLink(p) /\ LinkFromPort(p) \in DOMAIN links
    /\ ~ IsExternal(links[LinkFromPort(p)].tgt)
    /\ Begin(c, [op |-> "emit", port |-> links[LinkFromPort(p)].tgt])
    /\ UNCHANGED <<devices, links, hosts, usedPorts, crash>>

\* The same packet from a peer simulator or a client: EmitLLDPPacket with any
\* port of a device that exists.
RequestLLDPPacket(c, p) ==
    /\ DeviceOf[p] \in DOMAIN devices
    /\ Begin(c, [op |-> "emit", port |-> p])
    /\ UNCHANGED <<devices, links, hosts, usedPorts, crash>>

EmitLLDPPacket(c) ==
    /\ Running(c, "emit")
    /\ ValidPort(request[c].port)
    /\ End(c)
    /\ UNCHANGED <<devices, links, hosts, usedPorts, crash>>

\* A device or a port that is not found is logged and used all the same.
EmitPanics(c) ==
    /\ Running(c, "emit")
    /\ ~ ValidPort(request[c].port)
    /\ Crash("nil dereference")

\* The lookups of a request meet a request that writes the same map: the Go
\* runtime may notice and end the process.
MapFault(c) == ~ Idle(c) /\ Crash("concurrent map access")

------------------------------------------------------------------------------
Init ==
    /\ devices = << >>
    /\ links = << >>
    /\ hosts = << >>
    /\ usedEgressPorts = << >>
    /\ usedIngressPorts = << >>
    /\ request = [c \in Clients |-> Nil]
    /\ crash = "none"

\* Devices come with all their ports or some, each enabled or not.
NewPorts(d) == UNION {[P -> BOOLEAN] : P \in SUBSET PortsOf(d)}

AddOrRemove ==
    \/ \E d \in Devices : \E ports \in NewPorts(d) : AddDeviceSimulator(d, ports)
    \/ \E d \in Devices : RemoveDeviceSimulator(d)
    \/ \E l \in Links, src \in LocalPorts, tgt \in LocalPorts \cup RemotePorts :
            \E up \in BOOLEAN : AddLinkSimulator(l, src, tgt, up)
    \/ \E l \in Links : RemoveLinkSimulator(l)
    \/ \E h \in Hosts : \E ports \in SUBSET LocalPorts : AddHostSimulator(h, ports)
    \/ \E h \in Hosts : RemoveHostSimulator(h)

Request(c) ==
    \/ \E p \in LocalPorts, up \in BOOLEAN : FindDevice(c, p, up)
    \/ SetPortStatus(c)
    \/ \E p \in LocalPorts : ProcessLLDPPacket(c, p) \/ RequestLLDPPacket(c, p)
    \/ EmitLLDPPacket(c)
    \/ EmitPanics(c)
    \/ MapFault(c)

Next == crash = "none" /\ (AddOrRemove \/ \E c \in Clients : Request(c))

Spec == Init /\ [][Next]_vars

------------------------------------------------------------------------------
\* Properties.

\* What the entries of the used-port maps stand for.
Users == {LinkUser(l) : l \in DOMAIN links} \cup {HostUser(h) : h \in DOMAIN hosts}
EgressPorts(u) == IF u[1] = "link" THEN {links[u[2]].src} ELSE hosts[u[2]]
IngressPorts(u) == IF u[1] = "link" THEN {links[u[2]].tgt} \ RemotePorts ELSE hosts[u[2]]

LinkTypes == [src : LocalPorts, tgt : LocalPorts \cup RemotePorts, up : BOOLEAN]
Requests ==
    [op : {"switch"}, port : LocalPorts, up : BOOLEAN, gone : BOOLEAN]
    \cup [op : {"emit"}, port : LocalPorts]

\* A request to switch a port whose device is not gone can reach the port.
SwitchesPort(c) ==
    Running(c, "switch") /\ ~ request[c].gone => ValidPort(request[c].port)

\* Type invariant: what the maps and the requests hold, and that a request
\* still has the port it has found (device.go:237).
TypeOK ==
    /\ DOMAIN devices \subseteq Devices
    /\ \A d \in DOMAIN devices :
        /\ DOMAIN devices[d] \subseteq PortsOf(d)
        /\ devices[d] \in [DOMAIN devices[d] -> BOOLEAN]
    /\ DOMAIN links \subseteq Links /\ \A l \in DOMAIN links : links[l] \in LinkTypes
    /\ DOMAIN hosts \subseteq Hosts /\ \A h \in DOMAIN hosts : hosts[h] \subseteq LocalPorts
    /\ DOMAIN usedEgressPorts \subseteq LocalPorts
    /\ DOMAIN usedIngressPorts \subseteq LocalPorts
    /\ request \in [Clients -> Requests \cup {Nil}]
    /\ \A c \in Clients : SwitchesPort(c)
    /\ crash \in {"none", "nil dereference", "concurrent map access"}

\* The used-port maps name exactly the links and hosts of the inventory, each
\* at its own ports, whatever was added, refused and removed before
\* (core.go:193, core.go:267, core.go:296, core.go:362).
UsedPortsMatch ==
    /\ \A u \in Users : \A p \in EgressPorts(u) :
            p \in DOMAIN usedEgressPorts /\ usedEgressPorts[p] = u
    /\ \A p \in DOMAIN usedEgressPorts :
            usedEgressPorts[p] \in Users /\ p \in EgressPorts(usedEgressPorts[p])
    /\ \A u \in Users : \A p \in IngressPorts(u) :
            p \in DOMAIN usedIngressPorts /\ usedIngressPorts[p] = u
    /\ \A p \in DOMAIN usedIngressPorts :
            usedIngressPorts[p] \in Users /\ p \in IngressPorts(usedIngressPorts[p])

\* No port is the source, or the target, of two links, or of a link and a host,
\* or of two hosts (core.go:188).
PortsAreNotShared ==
    \A u, v \in Users : u # v =>
        /\ EgressPorts(u) \cap EgressPorts(v) = {}
        /\ IngressPorts(u) \cap IngressPorts(v) = {}

\* Links and NICs are attached to ports of devices in the inventory: the ports
\* were validated when they were added (core.go:178), and nobody removes a
\* device before its links and hosts.
NothingDangles ==
    /\ \A l \in DOMAIN links :
        ValidPort(links[l].src) /\ (IsExternal(links[l].tgt) \/ ValidPort(links[l].tgt))
    /\ \A h \in DOMAIN hosts : \A p \in hosts[h] : ValidPort(p)
==============================================================================
