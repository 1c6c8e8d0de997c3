-------------------------- MODULE InventoryProofs ----------------------------
(***************************************************************************)
(* Theorems about Inventory, for any number of devices, ports, links,      *)
(* hosts and concurrent requests; and about TopologyLoader, which is made  *)
(* of the actions of Inventory, for any topology file and any number of    *)
(* operators: every call of a load or a clear is a step of Inventory, and  *)
(* a load or a clear that nobody disturbs does what it says.               *)
(***************************************************************************)
EXTENDS InventoryHistory, TopologyLoader, SequenceTheorems, TLAPS

------------------------------------------------------------------------------
\* Switching the status of links leaves their ends alone.
LEMMA SwitchedLinksKeepEnds ==
    ASSUME NEW r, \A l \in DOMAIN links : links[l] \in LinkTypes, r.up \in BOOLEAN
    PROVE  /\ DOMAIN SwitchedLinks(r) = DOMAIN links
           /\ \A l \in DOMAIN links :
                /\ SwitchedLinks(r)[l] \in LinkTypes
                /\ SwitchedLinks(r)[l].src = links[l].src
                /\ SwitchedLinks(r)[l].tgt = links[l].tgt
  BY DEF SwitchedLinks, LinkTypes

------------------------------------------------------------------------------
\* Type correctness, one lemma per kind of action.

\* Adding and removing a device; a removed device is marked gone in the port requests
\* that had already looked it up.
LEMMA DeviceTypes ==
    ASSUME TypeOK, NEW d \in Devices,
           RemoveDeviceSimulator(d) \/ \E ports \in NewPorts(d) : AddDeviceSimulator(d, ports)
    PROVE  TypeOK'
  <1>1. CASE RemoveDeviceSimulator(d)
    <2>1. /\ DOMAIN devices' = DOMAIN devices \ {d}
          /\ \A e \in DOMAIN devices' : devices'[e] = devices[e]
      BY <1>1 DEF Delete, Restrict, RemoveDeviceSimulator
    <2>2. ASSUME NEW c \in Clients
          PROVE  /\ request'[c] \in Requests \cup {Nil}
                 /\ SwitchesPort(c)'
      <3>1. request[c] \in Requests \cup {Nil}
        BY DEF TypeOK
      <3>2. CASE request[c] # Nil /\ request[c].op = "switch" /\ DeviceOf[request[c].port] = d
        <4>1. request'[c] = [request[c] EXCEPT !.gone = TRUE]
          BY <1>1, <3>2 DEF RemoveDeviceSimulator
        <4>2. request[c] \in [op : {"switch"}, port : LocalPorts, up : BOOLEAN, gone : BOOLEAN]
          BY <3>1, <3>2 DEF Requests
        <4> QED
          BY <4>1, <4>2 DEF Requests, SwitchesPort
      <3>3. CASE ~ (request[c] # Nil /\ request[c].op = "switch" /\ DeviceOf[request[c].port] = d)
        <4>1. request'[c] = request[c]
          BY <1>1, <3>3 DEF RemoveDeviceSimulator
        <4>2. SwitchesPort(c)
          BY DEF TypeOK
        <4> QED
          BY <2>1, <3>1, <3>3, <4>1, <4>2 DEF SwitchesPort, Running, Idle, ValidPort
      <3> QED
        BY <3>2, <3>3
    <2>3. request' \in [Clients -> Requests \cup {Nil}]
      BY <1>1, <2>2 DEF RemoveDeviceSimulator
    <2> QED
      BY <1>1, <2>1, <2>2, <2>3 DEF TypeOK, RemoveDeviceSimulator, usedPorts
  <1>2. CASE \E ports \in NewPorts(d) : AddDeviceSimulator(d, ports)
    <2>1. PICK ports \in NewPorts(d) : AddDeviceSimulator(d, ports)
      BY <1>2
    <2>2. DOMAIN ports \subseteq PortsOf(d) /\ ports \in [DOMAIN ports -> BOOLEAN]
      BY DEF NewPorts
    <2>3. /\ DOMAIN devices' = DOMAIN devices \cup {d}
          /\ devices'[d] = ports
          /\ \A e \in DOMAIN devices : devices'[e] = devices[e]
      BY <2>1 DEF Put, AddDeviceSimulator
    <2>4. \A c \in Clients : SwitchesPort(c)'
      BY <2>1, <2>3 DEF TypeOK, SwitchesPort, Running, Idle, ValidPort, AddDeviceSimulator
    <2> QED
      BY <2>1, <2>2, <2>3, <2>4 DEF TypeOK, AddDeviceSimulator, usedPorts
  <1> QED
    BY <1>1, <1>2

\* Adding and removing a link (AddLinkSimulator, RemoveLinkSimulator).
LEMMA LinkTypesKept ==
    ASSUME TypeOK, NEW l \in Links,
           \/ RemoveLinkSimulator(l)
           \/ \E src \in LocalPorts, tgt \in LocalPorts \cup RemotePorts :
                \E up \in BOOLEAN : AddLinkSimulator(l, src, tgt, up)
    PROVE  TypeOK'
  <1>1. UNCHANGED <<devices, hosts, request, crash>>
    BY DEF RemoveLinkSimulator, AddLinkSimulator
  <1>2. \A c \in Clients : SwitchesPort(c)'
    BY <1>1 DEF TypeOK, SwitchesPort, Running, Idle, ValidPort
  <1>3. CASE RemoveLinkSimulator(l)
    BY <1>1, <1>2, <1>3 DEF Delete, Restrict, TypeOK, RemoveLinkSimulator
  <1>4. CASE \E src \in LocalPorts, tgt \in LocalPorts \cup RemotePorts :
                \E up \in BOOLEAN : AddLinkSimulator(l, src, tgt, up)
    <2>1. PICK src \in LocalPorts, tgt \in LocalPorts \cup RemotePorts, up \in BOOLEAN :
            AddLinkSimulator(l, src, tgt, up)
      BY <1>4
    <2>2. /\ DOMAIN links' = DOMAIN links \cup {l}
          /\ \A k \in DOMAIN links' : links'[k] \in LinkTypes
      BY <2>1 DEF Put, TypeOK, AddLinkSimulator, LinkTypes
    <2>3. /\ DOMAIN usedEgressPorts' \subseteq LocalPorts
          /\ DOMAIN usedIngressPorts' \subseteq LocalPorts
      BY <2>1 DEF Put, TypeOK, AddLinkSimulator, IsExternal
    <2> QED
      BY <1>1, <1>2, <2>2, <2>3 DEF TypeOK
  <1> QED
    BY <1>3, <1>4

\* Adding and removing a host (AddHostSimulator, RemoveHostSimulator).
LEMMA HostTypes ==
    ASSUME TypeOK, NEW h \in Hosts,
           RemoveHostSimulator(h) \/ \E ports \in SUBSET LocalPorts : AddHostSimulator(h, ports)
    PROVE  TypeOK'
  <1>1. UNCHANGED <<devices, links, request, crash>>
    BY DEF RemoveHostSimulator, AddHostSimulator
  <1>2. \A c \in Clients : SwitchesPort(c)'
    BY <1>1 DEF TypeOK, SwitchesPort, Running, Idle, ValidPort
  <1>3. CASE RemoveHostSimulator(h)
    BY <1>1, <1>2, <1>3 DEF Delete, Restrict, TypeOK, RemoveHostSimulator, FreesPorts
  <1>4. CASE \E ports \in SUBSET LocalPorts : AddHostSimulator(h, ports)
    <2>1. PICK ports \in SUBSET LocalPorts : AddHostSimulator(h, ports)
      BY <1>4
    <2> QED
      BY <1>1, <1>2, <2>1 DEF Put, TypeOK, AddHostSimulator
  <1> QED
    BY <1>3, <1>4

\* setPortStatus changes the port of its device and the links that leave from it.
LEMMA SwitchTypes ==
    ASSUME TypeOK, NEW c \in Clients, SetPortStatus(c)
    PROVE  TypeOK'
  <1> DEFINE r == request[c]
             d == DeviceOf[r.port]
  <1>1. r \in [op : {"switch"}, port : LocalPorts, up : BOOLEAN, gone : BOOLEAN]
    BY DEF TypeOK, Requests, SetPortStatus, Running, Idle
  <1>2. /\ links' = SwitchedLinks(r)
        /\ request' = [request EXCEPT ![c] = Nil]
        /\ devices' = IF r.gone THEN devices
                      ELSE [devices EXCEPT ![d] = [devices[d] EXCEPT ![r.port] = r.up]]
        /\ UNCHANGED <<hosts, usedEgressPorts, usedIngressPorts, crash>>
    BY DEF SetPortStatus, End, usedPorts
  <1>3. DOMAIN links' \subseteq Links /\ \A l \in DOMAIN links' : links'[l] \in LinkTypes
    BY <1>1, <1>2, SwitchedLinksKeepEnds DEF TypeOK
  <1>4. /\ DOMAIN devices' = DOMAIN devices
        /\ \A e \in DOMAIN devices :
            /\ DOMAIN devices'[e] = DOMAIN devices[e]
            /\ devices'[e] \in [DOMAIN devices[e] -> BOOLEAN]
    <2>1. ~ r.gone => ValidPort(r.port)
      BY DEF TypeOK, SetPortStatus, SwitchesPort
    <2> QED
      BY <1>1, <1>2, <2>1 DEF TypeOK, ValidPort
  <1>5. request' \in [Clients -> Requests \cup {Nil}]
    BY <1>2 DEF TypeOK
  <1>6. \A k \in Clients : SwitchesPort(k)'
    BY <1>2, <1>4 DEF TypeOK, SwitchesPort, Running, Idle, ValidPort
  <1> QED
    BY <1>2, <1>3, <1>4, <1>5, <1>6 DEF TypeOK

\* Every step of a request to a device that was looked up before.
LEMMA RequestTypes ==
    ASSUME TypeOK, NEW c \in Clients, Request(c)
    PROVE  TypeOK'
  <1>1. CASE SetPortStatus(c)
    BY <1>1, SwitchTypes
  <1>2. CASE \E r \in Requests :
                /\ Begin(c, r)
                /\ r.op = "switch" => ValidPort(r.port)
                /\ UNCHANGED <<devices, links, hosts, usedPorts, crash>>
    <2>1. request' \in [Clients -> Requests \cup {Nil}]
      BY <1>2 DEF TypeOK, Begin
    <2>2. \A k \in Clients : SwitchesPort(k)'
      BY <1>2 DEF TypeOK, Begin, SwitchesPort, Running, Idle, ValidPort
    <2> QED
      BY <1>2, <2>1, <2>2 DEF TypeOK, usedPorts
  <1>3. CASE EmitLLDPPacket(c)
    <2>1. request' = [request EXCEPT ![c] = Nil]
      BY <1>3 DEF EmitLLDPPacket, End
    <2>2. UNCHANGED <<devices, links, hosts, usedEgressPorts, usedIngressPorts, crash>>
      BY <1>3 DEF EmitLLDPPacket, usedPorts
    <2>3. \A k \in Clients : SwitchesPort(k)'
      BY <2>1, <2>2 DEF TypeOK, SwitchesPort, Running, Idle, ValidPort
    <2> QED
      BY <2>1, <2>2, <2>3 DEF TypeOK
  <1>4. CASE EmitPanics(c) \/ MapFault(c)
    BY <1>4 DEF EmitPanics, MapFault, Crash, TypeOK, SwitchesPort, Running, Idle, ValidPort, usedPorts
  <1>5. CASE \E p \in LocalPorts, up \in BOOLEAN : FindDevice(c, p, up)
    <2>1. PICK p \in LocalPorts, up \in BOOLEAN : FindDevice(c, p, up)
      BY <1>5
    <2>2. [op |-> "switch", port |-> p, up |-> up, gone |-> FALSE] \in Requests
      BY DEF Requests
    <2> QED
      BY <1>2, <2>1, <2>2 DEF FindDevice
  <1>6. CASE \E p \in LocalPorts : ProcessLLDPPacket(c, p) \/ RequestLLDPPacket(c, p)
    <2>1. PICK p \in LocalPorts : ProcessLLDPPacket(c, p) \/ RequestLLDPPacket(c, p)
      BY <1>6
    <2>2. PICK q \in LocalPorts :
            /\ Begin(c, [op |-> "emit", port |-> q])
            /\ UNCHANGED <<devices, links, hosts, usedPorts, crash>>
      BY <2>1 DEF ProcessLLDPPacket, RequestLLDPPacket, TypeOK, LinkTypes, IsExternal
    <2>3. [op |-> "emit", port |-> q] \in Requests
      BY DEF Requests
    <2> QED
      BY <1>2, <2>2, <2>3
  <1> QED
    BY <1>1, <1>3, <1>4, <1>5, <1>6 DEF Request

\* Every step keeps the types of the maps.
LEMMA TypeStep ==
    ASSUME TypeOK, [Next]_vars
    PROVE  TypeOK'
  <1>1. CASE UNCHANGED vars
    BY <1>1 DEF vars, usedPorts, TypeOK, SwitchesPort, Running, Idle, ValidPort
  <1>2. CASE AddOrRemove
    BY <1>2, DeviceTypes, LinkTypesKept, HostTypes DEF AddOrRemove
  <1>3. CASE \E c \in Clients : Request(c)
    BY <1>3, RequestTypes
  <1> QED
    BY <1>1, <1>2, <1>3 DEF Next

\* An empty simulation is well typed.
LEMMA TypeInit ==
    Init => TypeOK
  BY DEF Init, TypeOK, SwitchesPort, Running, Idle

\* Every map keeps its keys and values within the inventory's types, and a
\* request to switch a port reaches a port unless its device is gone.
THEOREM TypeCorrect ==
    Spec => []TypeOK
  BY TypeInit, TypeStep, PTL DEF Spec
------------------------------------------------------------------------------
\* The used-port maps.

\* A new link or host takes ports that nobody uses.
LEMMA TakePorts ==
    ASSUME UsedPortsMatch, NEW u, NEW E, NEW I,
           u \notin Users, Users' = Users \cup {u},
           \A v \in Users : EgressPorts(v)' = EgressPorts(v) /\ IngressPorts(v)' = IngressPorts(v),
           EgressPorts(u)' = E, IngressPorts(u)' = I,
           E \cap DOMAIN usedEgressPorts = {}, I \cap DOMAIN usedIngressPorts = {},
           usedEgressPorts' = Put(usedEgressPorts, E, u),
           usedIngressPorts' = Put(usedIngressPorts, I, u)
    PROVE  UsedPortsMatch'
  <1>1. /\ DOMAIN usedEgressPorts' = DOMAIN usedEgressPorts \cup E
        /\ \A p \in E : usedEgressPorts'[p] = u
        /\ \A p \in DOMAIN usedEgressPorts : usedEgressPorts'[p] = usedEgressPorts[p]
    BY DEF Put
  <1>2. /\ DOMAIN usedIngressPorts' = DOMAIN usedIngressPorts \cup I
        /\ \A p \in I : usedIngressPorts'[p] = u
        /\ \A p \in DOMAIN usedIngressPorts : usedIngressPorts'[p] = usedIngressPorts[p]
    BY DEF Put
  <1>3. \A v \in Users' : \A p \in EgressPorts(v)' :
            p \in DOMAIN usedEgressPorts' /\ usedEgressPorts'[p] = v
    BY <1>1 DEF UsedPortsMatch
  <1>4. \A p \in DOMAIN usedEgressPorts' :
            usedEgressPorts'[p] \in Users' /\ p \in EgressPorts(usedEgressPorts[p])'
    <2>1. TAKE p \in DOMAIN usedEgressPorts'
    <2>2. CASE p \in E
      BY <1>1, <2>2
    <2>3. CASE p \in DOMAIN usedEgressPorts
      BY <1>1, <2>3 DEF UsedPortsMatch
    <2> QED
      BY <1>1, <2>2, <2>3
  <1>5. \A v \in Users' : \A p \in IngressPorts(v)' :
            p \in DOMAIN usedIngressPorts' /\ usedIngressPorts'[p] = v
    BY <1>2 DEF UsedPortsMatch
  <1>6. \A p \in DOMAIN usedIngressPorts' :
            usedIngressPorts'[p] \in Users' /\ p \in IngressPorts(usedIngressPorts[p])'
    <2>1. TAKE p \in DOMAIN usedIngressPorts'
    <2>2. CASE p \in I
      BY <1>2, <2>2
    <2>3. CASE p \in DOMAIN usedIngressPorts
      BY <1>2, <2>3 DEF UsedPortsMatch
    <2> QED
      BY <1>2, <2>2, <2>3
  <1> QED
    BY <1>3, <1>4, <1>5, <1>6 DEF UsedPortsMatch

\* A removed link or host gives back its own ports, which nobody else uses.
LEMMA FreePorts ==
    ASSUME UsedPortsMatch, NEW u \in Users, Users' = Users \ {u},
           \A v \in Users' : EgressPorts(v)' = EgressPorts(v) /\ IngressPorts(v)' = IngressPorts(v),
           usedEgressPorts' = Delete(usedEgressPorts, EgressPorts(u)),
           usedIngressPorts' = Delete(usedIngressPorts, IngressPorts(u))
    PROVE  UsedPortsMatch'
  <1>1. /\ DOMAIN usedEgressPorts' = DOMAIN usedEgressPorts \ EgressPorts(u)
        /\ \A p \in DOMAIN usedEgressPorts' : usedEgressPorts'[p] = usedEgressPorts[p]
    BY DEF Delete, Restrict
  <1>2. /\ DOMAIN usedIngressPorts' = DOMAIN usedIngressPorts \ IngressPorts(u)
        /\ \A p \in DOMAIN usedIngressPorts' : usedIngressPorts'[p] = usedIngressPorts[p]
    BY DEF Delete, Restrict
  <1>3. /\ \A v \in Users' : \A p \in EgressPorts(v)' :
             p \in DOMAIN usedEgressPorts' /\ usedEgressPorts'[p] = v
        /\ \A v \in Users' : \A p \in IngressPorts(v)' :
             p \in DOMAIN usedIngressPorts' /\ usedIngressPorts'[p] = v
    BY <1>1, <1>2 DEF UsedPortsMatch
  <1>4. /\ \A p \in DOMAIN usedEgressPorts' :
             usedEgressPorts'[p] \in Users' /\ p \in EgressPorts(usedEgressPorts[p])'
        /\ \A p \in DOMAIN usedIngressPorts' :
             usedIngressPorts'[p] \in Users' /\ p \in IngressPorts(usedIngressPorts[p])'
    BY <1>1, <1>2 DEF UsedPortsMatch
  <1> QED
    BY <1>3, <1>4 DEF UsedPortsMatch

\* Nothing changes for the maps when the links keep their ends.
LEMMA KeepPorts ==
    ASSUME UsedPortsMatch, DOMAIN links' = DOMAIN links,
           \A l \in DOMAIN links : links'[l].src = links[l].src /\ links'[l].tgt = links[l].tgt,
           UNCHANGED <<hosts, usedEgressPorts, usedIngressPorts>>
    PROVE  UsedPortsMatch'
  <1>1. Users' = Users
    BY DEF Users
  <1>2. \A v \in Users : EgressPorts(v)' = EgressPorts(v) /\ IngressPorts(v)' = IngressPorts(v)
    BY DEF Users, LinkUser, HostUser, EgressPorts, IngressPorts
  <1> QED
    BY <1>1, <1>2 DEF UsedPortsMatch

\* An accepted link takes its own ends, which were free.
LEMMA LinksTakePorts ==
    ASSUME TypeOK, UsedPortsMatch, NEW l \in Links, NEW src \in LocalPorts,
           NEW tgt \in LocalPorts \cup RemotePorts, NEW up \in BOOLEAN,
           AddLinkSimulator(l, src, tgt, up)
    PROVE  UsedPortsMatch'
  <1> DEFINE I == IF IsExternal(tgt) THEN {} ELSE {tgt}
  <1>1. /\ DOMAIN links' = DOMAIN links \cup {l} /\ l \notin DOMAIN links
        /\ links'[l] = [src |-> src, tgt |-> tgt, up |-> up]
        /\ \A k \in DOMAIN links : links'[k] = links[k]
        /\ hosts' = hosts
    BY DEF AddLinkSimulator, LinkAccepted, Put
  <1>2. LinkUser(l) \notin Users /\ Users' = Users \cup {LinkUser(l)}
    BY <1>1 DEF Users, LinkUser, HostUser
  <1>3. \A v \in Users : EgressPorts(v)' = EgressPorts(v) /\ IngressPorts(v)' = IngressPorts(v)
    BY <1>1 DEF Users, LinkUser, HostUser, EgressPorts, IngressPorts
  <1>4. EgressPorts(LinkUser(l))' = {src}
    BY <1>1 DEF LinkUser, EgressPorts
  <1>5. IngressPorts(LinkUser(l))' = I
    BY <1>1 DEF LinkUser, IngressPorts, IsExternal
  <1>6. {src} \cap DOMAIN usedEgressPorts = {} /\ I \cap DOMAIN usedIngressPorts = {}
    BY DEF AddLinkSimulator, LinkAccepted, Available
  <1>7. /\ usedEgressPorts' = Put(usedEgressPorts, {src}, LinkUser(l))
        /\ usedIngressPorts' = Put(usedIngressPorts, I, LinkUser(l))
    BY DEF AddLinkSimulator
  <1> QED
    BY <1>2, <1>3, <1>4, <1>5, <1>6, <1>7, TakePorts

\* A removed link gives back exactly its own ends.
LEMMA LinksFreePorts ==
    ASSUME TypeOK, UsedPortsMatch, NEW l \in Links, RemoveLinkSimulator(l)
    PROVE  UsedPortsMatch'
  <1>1. /\ l \in DOMAIN links /\ DOMAIN links' = DOMAIN links \ {l}
        /\ \A k \in DOMAIN links' : links'[k] = links[k]
        /\ hosts' = hosts
    BY DEF RemoveLinkSimulator, Delete, Restrict
  <1>2. LinkUser(l) \in Users /\ Users' = Users \ {LinkUser(l)}
    BY <1>1 DEF Users, LinkUser, HostUser
  <1>3. \A v \in Users' : EgressPorts(v)' = EgressPorts(v) /\ IngressPorts(v)' = IngressPorts(v)
    BY <1>1 DEF Users, LinkUser, HostUser, EgressPorts, IngressPorts
  <1>4. usedEgressPorts' = Delete(usedEgressPorts, EgressPorts(LinkUser(l)))
    BY DEF RemoveLinkSimulator, EgressPorts, LinkUser
  <1>5. usedIngressPorts' = Delete(usedIngressPorts, IngressPorts(LinkUser(l)))
    <2>1. IngressPorts(LinkUser(l)) = {links[l].tgt} \ RemotePorts
      BY DEF IngressPorts, LinkUser
    <2>2. DOMAIN usedIngressPorts \cap RemotePorts = {}
      BY InventoryAssumption DEF TypeOK
    <2>3. DOMAIN usedIngressPorts \ {links[l].tgt}
            = DOMAIN usedIngressPorts \ IngressPorts(LinkUser(l))
      BY <2>1, <2>2
    <2> QED
      BY <2>3 DEF RemoveLinkSimulator, Delete
  <1> QED
    BY <1>2, <1>3, <1>4, <1>5, FreePorts

\* An accepted host takes the ports of its NICs in both directions.
LEMMA HostsTakePorts ==
    ASSUME TypeOK, UsedPortsMatch, NEW h \in Hosts, NEW ports \in SUBSET LocalPorts,
           AddHostSimulator(h, ports)
    PROVE  UsedPortsMatch'
  <1>1. /\ DOMAIN hosts' = DOMAIN hosts \cup {h} /\ h \notin DOMAIN hosts
        /\ hosts'[h] = ports
        /\ \A k \in DOMAIN hosts : hosts'[k] = hosts[k]
        /\ links' = links
    BY DEF AddHostSimulator, HostAccepted, Put
  <1>2. HostUser(h) \notin Users /\ Users' = Users \cup {HostUser(h)}
    BY <1>1 DEF Users, LinkUser, HostUser
  <1>3. \A v \in Users : EgressPorts(v)' = EgressPorts(v) /\ IngressPorts(v)' = IngressPorts(v)
    BY <1>1 DEF Users, LinkUser, HostUser, EgressPorts, IngressPorts
  <1>4. EgressPorts(HostUser(h))' = ports /\ IngressPorts(HostUser(h))' = ports
    BY <1>1 DEF HostUser, EgressPorts, IngressPorts
  <1>5. ports \cap DOMAIN usedEgressPorts = {} /\ ports \cap DOMAIN usedIngressPorts = {}
    BY DEF AddHostSimulator, HostAccepted
  <1>6. /\ usedEgressPorts' = Put(usedEgressPorts, ports, HostUser(h))
        /\ usedIngressPorts' = Put(usedIngressPorts, ports, HostUser(h))
    BY DEF AddHostSimulator
  <1> QED
    BY <1>2, <1>3, <1>4, <1>5, <1>6, TakePorts

\* A removed host gives back exactly the ports of its NICs.
LEMMA HostsFreePorts ==
    ASSUME UsedPortsMatch, NEW h \in Hosts, RemoveHostSimulator(h)
    PROVE  UsedPortsMatch'
  <1>1. /\ h \in DOMAIN hosts /\ DOMAIN hosts' = DOMAIN hosts \ {h}
        /\ \A k \in DOMAIN hosts' : hosts'[k] = hosts[k]
        /\ links' = links
    BY DEF RemoveHostSimulator, Delete, Restrict
  <1>2. HostUser(h) \in Users /\ Users' = Users \ {HostUser(h)}
    BY <1>1 DEF Users, LinkUser, HostUser
  <1>3. \A v \in Users' : EgressPorts(v)' = EgressPorts(v) /\ IngressPorts(v)' = IngressPorts(v)
    BY <1>1 DEF Users, LinkUser, HostUser, EgressPorts, IngressPorts
  <1>4. /\ usedEgressPorts' = Delete(usedEgressPorts, EgressPorts(HostUser(h)))
        /\ usedIngressPorts' = Delete(usedIngressPorts, IngressPorts(HostUser(h)))
    BY DEF RemoveHostSimulator, FreesPorts, EgressPorts, IngressPorts, HostUser
  <1> QED
    BY <1>2, <1>3, <1>4, FreePorts

\* Every step keeps the used-port maps equal to the ports of the links and hosts.
LEMMA PortsStep ==
    ASSUME TypeOK, UsedPortsMatch, [Next]_vars
    PROVE  UsedPortsMatch'
  <1>1. CASE AddOrRemove
    <2>1. ASSUME NEW d \in Devices,
                 RemoveDeviceSimulator(d) \/ \E ports \in NewPorts(d) : AddDeviceSimulator(d, ports)
          PROVE  UsedPortsMatch'
      BY <2>1, KeepPorts DEF RemoveDeviceSimulator, AddDeviceSimulator, usedPorts
    <2> QED
      BY <1>1, <2>1, LinksTakePorts, LinksFreePorts, HostsTakePorts, HostsFreePorts
      DEF AddOrRemove
  <1>2. ASSUME NEW c \in Clients, SetPortStatus(c)
        PROVE  UsedPortsMatch'
    <2>1. request[c].up \in BOOLEAN
      BY <1>2 DEF TypeOK, Requests, SetPortStatus, Running, Idle
    <2>2. links' = SwitchedLinks(request[c])
      BY <1>2 DEF SetPortStatus
    <2>3. UNCHANGED <<hosts, usedEgressPorts, usedIngressPorts>>
      BY <1>2 DEF SetPortStatus, usedPorts
    <2> QED
      BY <2>1, <2>2, <2>3, SwitchedLinksKeepEnds, KeepPorts DEF TypeOK
  <1>3. CASE UNCHANGED <<links, hosts, usedEgressPorts, usedIngressPorts>>
    BY <1>3, KeepPorts
  <1>4. ASSUME NEW c \in Clients, Request(c), ~ SetPortStatus(c)
        PROVE  UNCHANGED <<links, hosts, usedEgressPorts, usedIngressPorts>>
    BY <1>4 DEF Request, FindDevice, ProcessLLDPPacket, RequestLLDPPacket, EmitLLDPPacket,
                EmitPanics, MapFault, Crash, usedPorts
  <1>5. UNCHANGED vars => UNCHANGED <<links, hosts, usedEgressPorts, usedIngressPorts>>
    BY DEF vars, usedPorts
  <1> QED
    BY <1>1, <1>2, <1>3, <1>4, <1>5 DEF Next

\* Whatever is added, refused and removed, the used-port maps name exactly the
\* links and hosts of the inventory at their own ports.
THEOREM UsedPortsAlwaysMatch ==
    Spec => []UsedPortsMatch
  <1>1. Init => UsedPortsMatch
    BY DEF Init, UsedPortsMatch, Users
  <1>2. TypeOK /\ UsedPortsMatch /\ [Next]_vars => UsedPortsMatch'
    BY PortsStep
  <1> QED
    BY <1>1, <1>2, TypeCorrect, PTL DEF Spec

\* No two links or hosts ever send, or ever receive, through one port.
THEOREM PortsNeverShared ==
    Spec => []PortsAreNotShared
  <1>1. UsedPortsMatch => PortsAreNotShared
    BY DEF UsedPortsMatch, PortsAreNotShared
  <1> QED
    BY <1>1, UsedPortsAlwaysMatch, PTL

------------------------------------------------------------------------------
\* The status of ports and of the links that were switched with them.

StatusInv ==
    /\ TypeOK
    /\ UsedPortsMatch
    /\ switched \subseteq DOMAIN links
    /\ SwitchedLinkAgreesWithPort

\* The link found for a port is the one that leaves from it (GetLinkFromPort).
LEMMA FoundLinkLeavesThere ==
    ASSUME UsedPortsMatch, NEW l \in DOMAIN links, NEW p
    PROVE  HasLink(p) /\ LinkFromPort(p) = l <=> links[l].src = p
  <1>1. LinkUser(l) \in Users /\ EgressPorts(LinkUser(l)) = {links[l].src}
    BY DEF Users, LinkUser, EgressPorts
  <1>2. ASSUME HasLink(p), LinkFromPort(p) = l
        PROVE  links[l].src = p
    <2>1. p \in DOMAIN usedEgressPorts /\ usedEgressPorts[p] \in Users
      BY <1>2 DEF HasLink, UsedPortsMatch
    <2>2. usedEgressPorts[p] = LinkUser(l)
      BY <1>2, <2>1 DEF HasLink, LinkFromPort, Users, LinkUser, HostUser
    <2> QED
      BY <1>1, <2>1, <2>2 DEF UsedPortsMatch
  <1>3. ASSUME links[l].src = p
        PROVE  HasLink(p) /\ LinkFromPort(p) = l
    <2>1. p \in DOMAIN usedEgressPorts /\ usedEgressPorts[p] = LinkUser(l)
      BY <1>1, <1>3 DEF UsedPortsMatch
    <2> QED
      BY <2>1 DEF HasLink, LinkFromPort, LinkUser
  <1> QED
    BY <1>2, <1>3

\* Only one request is done in a step that ends one.
LEMMA OneSwitches ==
    ASSUME TypeOK, NEW c \in Clients, SetPortStatus(c)
    PROVE  Switching = {c}
  <1>1. ASSUME NEW k \in Switching, k # c
        PROVE  FALSE
    <2>1. request' = [request EXCEPT ![k] = Nil] /\ request' = [request EXCEPT ![c] = Nil]
      BY <1>1 DEF Switching, SetPortStatus, End
    <2>2. request[c] # Nil
      BY DEF SetPortStatus, Running, Idle
    <2> QED
      BY <1>1, <2>1, <2>2 DEF TypeOK, Switching
  <1> QED
    BY <1>1 DEF Switching

\* Switching a port switches the link that leaves from it and no other
\* (setPortStatus).
LEMMA SwitchKeepsStatus ==
    ASSUME StatusInv, HistoryNext, NEW c \in Clients, SetPortStatus(c)
    PROVE  SwitchedLinkAgreesWithPort'
  <1> DEFINE r == request[c]
             d == DeviceOf[r.port]
  <1>1. r \in [op : {"switch"}, port : LocalPorts, up : BOOLEAN, gone : BOOLEAN]
    BY DEF StatusInv, TypeOK, Requests, SetPortStatus, Running, Idle
  <1>2. Switching = {c}
    BY OneSwitches DEF StatusInv
  <1>3. links' = SwitchedLinks(r)
    BY DEF SetPortStatus
  <1>4. /\ DOMAIN links' = DOMAIN links
        /\ \A l \in DOMAIN links : links[l] \in LinkTypes /\ links'[l].src = links[l].src
    BY ZenonT(40), <1>1, <1>3, SwitchedLinksKeepEnds DEF StatusInv, TypeOK
  <1>5. ASSUME NEW l \in DOMAIN links, links[l].src # r.port
        PROVE  links'[l] = links[l]
    BY <1>3, <1>5, FoundLinkLeavesThere DEF StatusInv, SwitchedLinks
  <1>6. CASE r.gone
    <2>1. SwitchedPorts = {} /\ r.port \in LostPorts
      BY <1>2, <1>6 DEF SwitchedPorts, LostPorts
    <2>2. UNCHANGED devices
      BY <1>6 DEF SetPortStatus
    <2>3. \A l \in switched' : l \in switched /\ links[l].src # r.port
      BY <1>4, <2>1 DEF HistoryNext
    <2> QED
      BY <1>5, <2>2, <2>3 DEF StatusInv, SwitchedLinkAgreesWithPort, ValidPort
  <1>7. CASE ~ r.gone
    <2>1. SwitchedPorts = {r.port}
      BY <1>2, <1>7 DEF SwitchedPorts
    <2>2. ValidPort(r.port)
      BY <1>7 DEF SetPortStatus, StatusInv, TypeOK, SwitchesPort
    <2>3. devices' = [devices EXCEPT ![d] = [devices[d] EXCEPT ![r.port] = r.up]]
      BY <1>7 DEF SetPortStatus
    <2>4. \A p : ValidPort(p)' <=> ValidPort(p)
      BY <2>2, <2>3 DEF ValidPort, StatusInv, TypeOK
    <2>5. ASSUME NEW l \in switched'
          PROVE  /\ ValidPort(links'[l].src)
                 /\ links'[l].up = devices'[DeviceOf[links'[l].src]][links'[l].src]
      <3>1. l \in DOMAIN links /\ links'[l].src = links[l].src
        BY <1>4, <2>5 DEF HistoryNext
      <3>2. CASE links[l].src = r.port
        <4>1. links'[l] = [links[l] EXCEPT !.up = r.up]
          BY <1>3, <3>1, <3>2, FoundLinkLeavesThere DEF StatusInv, SwitchedLinks
        <4>2. links'[l].up = r.up
          BY <1>4, <3>1, <4>1 DEF LinkTypes
        <4>3. devices'[d][r.port] = r.up
          BY <2>2, <2>3 DEF ValidPort
        <4> QED
          BY <2>2, <3>1, <3>2, <4>2, <4>3
      <3>3. CASE links[l].src # r.port
        <4>1. links'[l] = links[l]
          BY <1>5, <3>1, <3>3
        <4>2. l \in switched
          BY <2>1, <2>5, <3>1, <3>3 DEF HistoryNext
        <4>3. /\ ValidPort(links[l].src)
              /\ links[l].up = devices[DeviceOf[links[l].src]][links[l].src]
          BY <4>2 DEF StatusInv, SwitchedLinkAgreesWithPort
        <4>4. devices'[DeviceOf[links[l].src]][links[l].src]
                = devices[DeviceOf[links[l].src]][links[l].src]
          BY <2>2, <2>3, <3>3, <4>3 DEF ValidPort
        <4> QED
          BY <4>1, <4>3, <4>4
      <3> QED
        BY <3>2, <3>3
    <2> QED
      BY <2>4, <2>5 DEF SwitchedLinkAgreesWithPort
  <1> QED
    BY <1>6, <1>7

\* A link that stays, with a device that stays, is as it was.
LEMMA StayingLinksAgree ==
    ASSUME StatusInv, HistoryNext, Switching = {},
           \A l \in DOMAIN links' : l \in DOMAIN links => links'[l] = links[l],
           \A e \in DOMAIN devices' : e \in DOMAIN devices => devices'[e] = devices[e]
    PROVE  SwitchedLinkAgreesWithPort'
  <1>1. ASSUME NEW l \in switched'
        PROVE  /\ ValidPort(links[l].src)'
               /\ links'[l].up = devices'[DeviceOf[links'[l].src]][links'[l].src]
    <2>1. l \in switched /\ l \in DOMAIN links' /\ links'[l].src \notin LostPorts
      BY <1>1 DEF HistoryNext, SwitchedPorts
    <2>2. links'[l] = links[l]
      BY <2>1 DEF StatusInv
    <2>3. /\ ValidPort(links[l].src)
          /\ links[l].up = devices[DeviceOf[links[l].src]][links[l].src]
      BY <2>1 DEF StatusInv, SwitchedLinkAgreesWithPort
    <2>4. DeviceOf[links[l].src] \in DOMAIN devices'
      BY <2>1, <2>2, <2>3 DEF LostPorts, ValidPort
    <2> QED
      BY <2>2, <2>3, <2>4 DEF ValidPort
  <1> QED
    BY <1>1 DEF SwitchedLinkAgreesWithPort

\* Adding or removing one thing leaves the others as they are.
LEMMA OthersStay ==
    ASSUME AddOrRemove
    PROVE  /\ \A l \in DOMAIN links' : l \in DOMAIN links => links'[l] = links[l]
           /\ \A e \in DOMAIN devices' : e \in DOMAIN devices => devices'[e] = devices[e]
  <1>1. CASE \E d \in Devices : \E ports \in NewPorts(d) : AddDeviceSimulator(d, ports)
    BY <1>1 DEF AddDeviceSimulator, Put
  <1>2. CASE \E d \in Devices : RemoveDeviceSimulator(d)
    BY <1>2 DEF RemoveDeviceSimulator, Delete, Restrict
  <1>3. CASE \E l \in Links, src \in LocalPorts, tgt \in LocalPorts \cup RemotePorts :
                \E up \in BOOLEAN : AddLinkSimulator(l, src, tgt, up)
    BY <1>3 DEF AddLinkSimulator, LinkAccepted, Put
  <1>4. CASE \E l \in Links : RemoveLinkSimulator(l)
    BY <1>4 DEF RemoveLinkSimulator, Delete, Restrict
  <1>5. CASE \/ \E h \in Hosts : \E ports \in SUBSET LocalPorts : AddHostSimulator(h, ports)
             \/ \E h \in Hosts : RemoveHostSimulator(h)
    BY <1>5 DEF AddHostSimulator, RemoveHostSimulator
  <1> QED
    BY <1>1, <1>2, <1>3, <1>4, <1>5 DEF AddOrRemove

\* Every step keeps the status of switched links and of their ports together.
LEMMA StatusStep ==
    ASSUME StatusInv, [HistoryNext]_<<vars, switched>>
    PROVE  StatusInv'
  <1>1. TypeOK' /\ UsedPortsMatch'
    BY TypeStep, PortsStep DEF StatusInv, HistoryNext
  <1>2. CASE UNCHANGED <<vars, switched>>
    BY <1>1, <1>2 DEF StatusInv, vars, SwitchedLinkAgreesWithPort, ValidPort
  <1>3. CASE HistoryNext
    <2>1. switched' \subseteq DOMAIN links'
      BY <1>3 DEF HistoryNext
    <2>2. CASE \E c \in Clients : SetPortStatus(c)
      BY <1>1, <1>3, <2>1, <2>2, SwitchKeepsStatus DEF StatusInv
    <2>3. CASE ~ \E c \in Clients : SetPortStatus(c)
      <3>1. Switching = {}
        BY <2>3 DEF Switching
      <3>2. CASE AddOrRemove
        BY <1>1, <1>3, <2>1, <3>1, <3>2, OthersStay, StayingLinksAgree DEF StatusInv
      <3>3. ASSUME NEW c \in Clients, Request(c)
            PROVE  UNCHANGED <<devices, links>>
        BY <2>3, <3>3
        DEF Request, FindDevice, ProcessLLDPPacket, RequestLLDPPacket, EmitLLDPPacket, EmitPanics,
            MapFault, Crash
      <3>4. CASE \E c \in Clients : Request(c)
        BY <1>1, <1>3, <2>1, <3>1, <3>3, <3>4, StayingLinksAgree DEF StatusInv
      <3> QED
        BY <1>3, <3>2, <3>4 DEF HistoryNext, Next
    <2> QED
      BY <2>2, <2>3
  <1> QED
    BY <1>2, <1>3

\* A link that was switched with its port is up if and only if the port is enabled,
\* whoever switches which port while devices, links and hosts come and go, and
\* whatever status links are added with (setPortStatus).
THEOREM SwitchedLinksAlwaysAgree ==
    HistorySpec => []SwitchedLinkAgreesWithPort
  <1>1. HistoryInit => StatusInv
    <2> SUFFICES ASSUME HistoryInit PROVE StatusInv
      OBVIOUS
    <2>1. TypeOK /\ UsedPortsMatch
      BY TypeInit DEF HistoryInit, Init, UsedPortsMatch, Users
    <2> QED
      BY <2>1 DEF HistoryInit, StatusInv, SwitchedLinkAgreesWithPort
  <1>2. StatusInv => SwitchedLinkAgreesWithPort
    BY DEF StatusInv
  <1> QED
    BY <1>1, <1>2, StatusStep, PTL DEF HistorySpec

------------------------------------------------------------------------------
\* The topology loader.

Phases == {"hosts", "links", "devices"}
Calls == Range(Topology)

\* What the loaders keep.
LoaderTypeOK ==
    /\ todo \in [Loaders -> Seq(Calls)]
    /\ clearing \in [Loaders -> Phases \cup {"no"}]
    /\ listed \in [Loaders -> SUBSET (Devices \cup Links \cup Hosts)]
    /\ result \in [Loaders -> {"none", "loaded", "cleared", "failed"}]

LoaderInv ==
    /\ TypeOK
    /\ UsedPortsMatch
    /\ crash = "none"
    /\ LoaderTypeOK

\* Whoever loads is alone (LoadTopology).
OneLoads ==
    \A o \in Loaders : todo[o] # << >> =>
        /\ clearing[o] = "no"
        /\ \A x \in Loaders \ {o} : todo[x] = << >> /\ clearing[x] = "no"

\* The result of the last operation is forgotten when the next one begins.
NoResultYet ==
    \A o \in Loaders : todo[o] # << >> \/ clearing[o] # "no" => result[o] = "none"

\* What a clear has not listed is not there (removeAllHosts and the others).
ClearProceeds ==
    \A o \in Loaders :
        /\ clearing[o] # "no" => Listing(clearing[o]) \subseteq listed[o]
        /\ clearing[o] \in {"links", "devices"} => DOMAIN hosts = {}
        /\ clearing[o] = "devices" => DOMAIN links = {}

\* What a call of a load creates.
Created(call) ==
    /\ call.kind = "device" => call.arg \in DOMAIN devices
    /\ call.kind = "link" => call.arg.id \in DOMAIN links
    /\ call.kind = "host" => call.arg.id \in DOMAIN hosts

\* What a load has yet to call is all that is missing (createDevices and the
\* others).
LoadProceeds ==
    \A o \in Loaders : todo[o] # << >> =>
        \A call \in Calls : call \in Range(todo[o]) \/ Created(call)

\* Nothing is there that the topology does not name.
OnlyTheTopology ==
    /\ DOMAIN devices \subseteq {DeviceList[i] : i \in DOMAIN DeviceList}
    /\ DOMAIN links \subseteq {LinkList[i].id : i \in DOMAIN LinkList}
    /\ DOMAIN hosts \subseteq {HostList[i].id : i \in DOMAIN HostList}

AloneInv ==
    /\ LoaderInv
    /\ NothingDangles
    /\ OneLoads
    /\ NoResultYet
    /\ ClearProceeds
    /\ LoadProceeds
    /\ OnlyTheTopology

------------------------------------------------------------------------------
\* Lists of calls.

\* What a concatenation holds.
LEMMA ConcatRange ==
    ASSUME NEW S, NEW s \in Seq(S), NEW t \in Seq(S)
    PROVE  Range(s \o t) = Range(s) \cup Range(t)
  <1>1. /\ s \o t \in Seq(S) /\ Len(s \o t) = Len(s) + Len(t)
        /\ \A i \in 1..Len(s) + Len(t) :
             (s \o t)[i] = IF i <= Len(s) THEN s[i] ELSE t[i - Len(s)]
    OBVIOUS
  <1>2. Len(s) \in Nat /\ Len(t) \in Nat
    OBVIOUS
  <1>3. /\ Range(s) = {s[i] : i \in 1..Len(s)} /\ Range(t) = {t[i] : i \in 1..Len(t)}
        /\ Range(s \o t) = {(s \o t)[i] : i \in 1..Len(s) + Len(t)}
    BY <1>1 DEF Range
  <1>4. ASSUME NEW i \in 1..Len(s) + Len(t)
        PROVE  (s \o t)[i] \in Range(s) \cup Range(t)
    <2>1. CASE i <= Len(s)
      BY <1>1, <1>2, <1>3, <2>1
    <2>2. CASE ~ (i <= Len(s))
      <3>1. i - Len(s) \in 1..Len(t)
        BY <1>2, <2>2
      <3> QED
        BY <1>1, <1>3, <2>2, <3>1
    <2> QED
      BY <2>1, <2>2
  <1>5. ASSUME NEW i \in 1..Len(s)
        PROVE  s[i] \in Range(s \o t)
    <2>1. i \in 1..Len(s) + Len(t) /\ (s \o t)[i] = s[i]
      BY <1>1, <1>2
    <2> QED
      BY <1>3, <2>1
  <1>6. ASSUME NEW i \in 1..Len(t)
        PROVE  t[i] \in Range(s \o t)
    <2>1. i + Len(s) \in 1..Len(s) + Len(t) /\ (s \o t)[i + Len(s)] = t[i]
      BY <1>1, <1>2
    <2> QED
      BY <1>3, <2>1
  <1> QED
    BY <1>3, <1>4, <1>5, <1>6

\* The first call is all that taking it off a list takes away.
LEMMA TailRange ==
    ASSUME NEW S, NEW s \in Seq(S), s # << >>
    PROVE  /\ Head(s) \in S /\ Tail(s) \in Seq(S)
           /\ Range(s) = {Head(s)} \cup Range(Tail(s))
           /\ Len(s) = 1 => Range(Tail(s)) = {}
           /\ Len(s) # 1 => Tail(s) # << >>
  <1>1. /\ Head(s) \in S /\ Tail(s) \in Seq(S) /\ Head(s) = s[1]
        /\ Len(Tail(s)) = Len(s) - 1 /\ Len(s) \in Nat \ {0}
        /\ \A i \in 1..Len(s) - 1 : Tail(s)[i] = s[i + 1]
        /\ DOMAIN s = 1..Len(s) /\ DOMAIN Tail(s) = 1..Len(Tail(s))
    OBVIOUS
  <1>2. Range(s) = {s[i] : i \in 1..Len(s)} /\ Range(Tail(s)) = {Tail(s)[i] : i \in 1..Len(s) - 1}
    BY <1>1 DEF Range
  <1>3. \A i \in 1..Len(s) : i = 1 \/ i - 1 \in 1..Len(s) - 1
    BY <1>1
  <1>4. \A i \in 1..Len(s) - 1 : i + 1 \in 1..Len(s)
    BY <1>1
  <1>5. Range(s) \subseteq {Head(s)} \cup Range(Tail(s))
    <2>1. ASSUME NEW i \in 1..Len(s), i # 1
          PROVE  s[i] \in Range(Tail(s))
      <3>1. i - 1 \in 1..Len(s) - 1 /\ (i - 1) + 1 = i
        BY <1>3, <2>1
      <3> QED
        BY <1>1, <1>2, <3>1
    <2> QED
      BY <1>1, <1>2, <2>1
  <1>6. {Head(s)} \cup Range(Tail(s)) \subseteq Range(s)
    BY <1>1, <1>2, <1>4
  <1>7. Len(s) = 1 => Range(Tail(s)) = {}
    BY <1>1, <1>2
  <1>8. Len(s) # 1 => Tail(s) # << >>
    <2>1. Len(s) # 1 => Len(Tail(s)) # 0
      BY <1>1
    <2> QED
      BY <2>1
  <1> QED
    BY <1>1, <1>5, <1>6, <1>7, <1>8

\* The calls of a load are those of the devices, links and hosts of the file.
LEMMA CallsAre ==
    /\ Topology \in Seq(Calls)
    /\ Calls = {AddDevice(DeviceList[i]) : i \in DOMAIN DeviceList}
               \cup {AddLink(LinkList[i]) : i \in DOMAIN LinkList}
               \cup {AddHost(HostList[i]) : i \in DOMAIN HostList}
  <1> DEFINE D == [i \in DOMAIN DeviceList |-> AddDevice(DeviceList[i])]
             L == [i \in DOMAIN LinkList |-> AddLink(LinkList[i])]
             H == [i \in DOMAIN HostList |-> AddHost(HostList[i])]
             S == Range(D) \cup Range(L) \cup Range(H)
  <1>1. D \in Seq(S) /\ L \in Seq(S) /\ H \in Seq(S)
    <2>1. /\ D \in [1..Len(DeviceList) -> S] /\ Len(DeviceList) \in Nat
          /\ L \in [1..Len(LinkList) -> S] /\ Len(LinkList) \in Nat
          /\ H \in [1..Len(HostList) -> S] /\ Len(HostList) \in Nat
      BY LoaderAssumption DEF Range
    <2> HIDE DEF D, L, H, S
    <2> QED
      BY SMTT(30), <2>1, SeqDef
  <1>2. /\ Range(D) = {AddDevice(DeviceList[i]) : i \in DOMAIN DeviceList}
        /\ Range(L) = {AddLink(LinkList[i]) : i \in DOMAIN LinkList}
        /\ Range(H) = {AddHost(HostList[i]) : i \in DOMAIN HostList}
    BY DEF Range
  <1>3. Topology = (D \o L) \o H
    BY DEF Topology
  <1> HIDE DEF D, L, H
  <1>4. S = (Range(D) \cup Range(L)) \cup Range(H)
    OBVIOUS
  <1> HIDE DEF S
  <1>5. D \o L \in Seq(S) /\ Range(D \o L) = Range(D) \cup Range(L)
    BY <1>1, ConcatRange
  <1>6. Topology \in Seq(S) /\ Range(Topology) = Range(D \o L) \cup Range(H)
    <2> DEFINE DL == D \o L
    <2>1. DL \in Seq(S)
      BY <1>5
    <2> HIDE DEF DL
    <2>2. DL \o H \in Seq(S) /\ Range(DL \o H) = Range(DL) \cup Range(H)
      BY <1>1, <2>1, ConcatRange
    <2> QED
      BY <1>3, <2>2 DEF DL
  <1> QED
    BY <1>2, <1>4, <1>5, <1>6 DEF Calls

------------------------------------------------------------------------------
\* What one call does to the inventory.

\* Adding a device, a link or a host of the topology.
LEMMA AddEffect ==
    ASSUME NEW call \in Calls, Add(call)
    PROVE  /\ AddOrRemove
           /\ UNCHANGED <<request, crash>>
           /\ Created(call)'
           /\ \A other : Created(other) => Created(other)'
           /\ OnlyTheTopology => OnlyTheTopology'
           /\ NothingDangles => NothingDangles'
  <1>1. CASE \E i \in DOMAIN DeviceList : call = AddDevice(DeviceList[i])
    <2>1. PICK i \in DOMAIN DeviceList : call = AddDevice(DeviceList[i])
      BY <1>1
    <2> DEFINE d == DeviceList[i]
               ports == [p \in PortsOf(d) |-> TRUE]
    <2>2. call.kind = "device" /\ call.arg = d
      BY <2>1 DEF AddDevice
    <2>3. AddDeviceSimulator(d, ports)
      BY <2>2 DEF Add
    <2>4. d \in Devices /\ ports \in NewPorts(d)
      BY LoaderAssumption DEF NewPorts
    <2>5. /\ DOMAIN devices' = DOMAIN devices \cup {d}
          /\ \A e \in DOMAIN devices : devices'[e] = devices[e]
          /\ UNCHANGED <<links, hosts, request, crash>>
      BY <2>3 DEF AddDeviceSimulator, Put
    <2>6. \A p : ValidPort(p) => ValidPort(p)'
      BY <2>5 DEF ValidPort
    <2>7. AddOrRemove
      BY <2>3, <2>4 DEF AddOrRemove
    <2>8. NothingDangles => NothingDangles'
      BY <2>5, <2>6 DEF NothingDangles
    <2> QED
      BY <2>2, <2>5, <2>7, <2>8 DEF Created, OnlyTheTopology
  <1>2. CASE \E i \in DOMAIN LinkList : call = AddLink(LinkList[i])
    <2>1. PICK i \in DOMAIN LinkList : call = AddLink(LinkList[i])
      BY <1>2
    <2> DEFINE l == LinkList[i]
    <2>2. call.kind = "link" /\ call.arg = l
      BY <2>1 DEF AddLink
    <2>3. AddLinkSimulator(l.id, l.src, l.tgt, TRUE)
      BY <2>2 DEF Add
    <2>4. l.id \in Links /\ l.src \in LocalPorts /\ l.tgt \in LocalPorts \cup RemotePorts
      <3> DEFINE R == [id : Links, src : LocalPorts, tgt : LocalPorts \cup RemotePorts]
      <3>1. LinkList \in Seq(R)
        BY LoaderAssumption
      <3> HIDE DEF R
      <3>2. l \in R
        BY <3>1
      <3> QED
        BY <3>2 DEF R
    <2>5. /\ DOMAIN links' = DOMAIN links \cup {l.id}
          /\ \A k \in DOMAIN links : k # l.id => links'[k] = links[k]
          /\ links'[l.id] = [src |-> l.src, tgt |-> l.tgt, up |-> TRUE]
          /\ UNCHANGED <<devices, hosts, request, crash>>
      BY <2>3 DEF AddLinkSimulator, Put
    <2>6. \A p : ValidPort(p)' <=> ValidPort(p)
      BY <2>5 DEF ValidPort
    <2>7. AddOrRemove
      BY <2>3, <2>4 DEF AddOrRemove
    <2>8. ValidPort(l.src) /\ (IsExternal(l.tgt) \/ ValidPort(l.tgt))
      BY <2>3 DEF AddLinkSimulator, LinkAccepted
    <2>9. NothingDangles => NothingDangles'
      BY <2>5, <2>6, <2>8 DEF NothingDangles
    <2> QED
      BY <2>2, <2>5, <2>7, <2>9 DEF Created, OnlyTheTopology
  <1>3. CASE \E i \in DOMAIN HostList : call = AddHost(HostList[i])
    <2>1. PICK i \in DOMAIN HostList : call = AddHost(HostList[i])
      BY <1>3
    <2> DEFINE h == HostList[i]
    <2>2. call.kind = "host" /\ call.arg = h
      BY <2>1 DEF AddHost
    <2>3. AddHostSimulator(h.id, h.ports)
      BY <2>2 DEF Add
    <2>4. h.id \in Hosts /\ h.ports \in SUBSET LocalPorts
      <3> DEFINE R == [id : Hosts, ports : SUBSET LocalPorts]
      <3>1. HostList \in Seq(R)
        BY LoaderAssumption
      <3> HIDE DEF R
      <3>2. h \in R
        BY <3>1
      <3> QED
        BY <3>2 DEF R
    <2>5. /\ DOMAIN hosts' = DOMAIN hosts \cup {h.id}
          /\ \A k \in DOMAIN hosts : k # h.id => hosts'[k] = hosts[k]
          /\ hosts'[h.id] = h.ports
          /\ UNCHANGED <<devices, links, request, crash>>
      BY <2>3 DEF AddHostSimulator, Put
    <2>6. \A p : ValidPort(p)' <=> ValidPort(p)
      BY <2>5 DEF ValidPort
    <2>7. AddOrRemove
      BY <2>3, <2>4 DEF AddOrRemove
    <2>8. \A p \in h.ports : ValidPort(p)
      BY <2>3 DEF AddHostSimulator, HostAccepted
    <2>9. NothingDangles => NothingDangles'
      BY <2>5, <2>6, <2>8 DEF NothingDangles
    <2> QED
      BY <2>2, <2>5, <2>7, <2>9 DEF Created, OnlyTheTopology
  <1> QED
    BY <1>1, <1>2, <1>3, CallsAre

\* Removing a host, a link or a device, the devices last.
LEMMA RemoveEffect ==
    ASSUME TypeOK, NEW phase \in Phases, NEW x, Remove(phase, x)
    PROVE  /\ AddOrRemove
           /\ UNCHANGED crash
           /\ x \notin Listing(phase)'
           /\ \A other \in Phases : Listing(other)' \subseteq Listing(other)
           /\ OnlyTheTopology => OnlyTheTopology'
           /\ (phase = "devices" => DOMAIN hosts = {} /\ DOMAIN links = {})
                => (NothingDangles => NothingDangles')
  <1>1. CASE phase = "hosts"
    <2>1. RemoveHostSimulator(x)
      BY <1>1 DEF Remove
    <2>2. /\ x \in DOMAIN hosts
          /\ DOMAIN hosts' = DOMAIN hosts \ {x}
          /\ \A k \in DOMAIN hosts' : hosts'[k] = hosts[k]
          /\ UNCHANGED <<devices, links, crash>>
      BY <2>1 DEF RemoveHostSimulator, Delete, Restrict
    <2>3. AddOrRemove
      BY <2>1, <2>2 DEF AddOrRemove, TypeOK
    <2>4. NothingDangles => NothingDangles'
      BY <2>2 DEF NothingDangles, ValidPort
    <2> QED
      BY <1>1, <2>2, <2>3, <2>4 DEF Phases, Listing, OnlyTheTopology
  <1>2. CASE phase = "links"
    <2>1. RemoveLinkSimulator(x)
      BY <1>2 DEF Remove
    <2>2. /\ x \in DOMAIN links
          /\ DOMAIN links' = DOMAIN links \ {x}
          /\ \A k \in DOMAIN links' : links'[k] = links[k]
          /\ UNCHANGED <<devices, hosts, crash>>
      BY <2>1 DEF RemoveLinkSimulator, Delete, Restrict
    <2>3. AddOrRemove
      BY <2>1, <2>2 DEF AddOrRemove, TypeOK
    <2>4. NothingDangles => NothingDangles'
      BY <2>2 DEF NothingDangles, ValidPort
    <2> QED
      BY <1>2, <2>2, <2>3, <2>4 DEF Phases, Listing, OnlyTheTopology
  <1>3. CASE phase = "devices"
    <2>1. RemoveDeviceSimulator(x)
      BY <1>3 DEF Remove
    <2>2. /\ x \in DOMAIN devices
          /\ DOMAIN devices' = DOMAIN devices \ {x}
          /\ UNCHANGED <<links, hosts, crash>>
      BY <2>1 DEF RemoveDeviceSimulator, Delete, Restrict
    <2>3. AddOrRemove
      BY <2>1, <2>2 DEF AddOrRemove, TypeOK
    <2>4. DOMAIN hosts = {} /\ DOMAIN links = {} => NothingDangles'
      BY <2>2 DEF NothingDangles
    <2> QED
      BY <1>3, <2>2, <2>3, <2>4 DEF Phases, Listing, OnlyTheTopology
  <1> QED
    BY <1>1, <1>2, <1>3 DEF Phases

------------------------------------------------------------------------------
\* What one step of a load or a clear does.

\* The loaders step one at a time and keep their types.
LEMMA LoaderTypes ==
    ASSUME TypeOK, LoaderTypeOK, NEW o \in Loaders, Operate(o)
    PROVE  /\ LoaderTypeOK'
           /\ \A x \in Loaders \ {o} :
                /\ todo'[x] = todo[x] /\ clearing'[x] = clearing[x]
                /\ listed'[x] = listed[x] /\ result'[x] = result[x]
  <1>1. ASSUME NEW r \in {"loaded", "cleared", "failed"}, Return(o, r)
        PROVE  /\ LoaderTypeOK'
               /\ \A x \in Loaders \ {o} :
                    /\ todo'[x] = todo[x] /\ clearing'[x] = clearing[x]
                    /\ listed'[x] = listed[x] /\ result'[x] = result[x]
    BY <1>1 DEF Return, LoaderTypeOK
  <1>2. CASE LoadTopology(o)
    BY <1>2, CallsAre DEF LoadTopology, LoaderTypeOK
  <1>3. CASE Create(o)
    <2>1. CASE Len(todo[o]) # 1
      <3>1. Tail(todo[o]) \in Seq(Calls)
        BY <1>3, TailRange DEF Create, LoaderTypeOK
      <3>2. /\ todo' = [todo EXCEPT ![o] = Tail(todo[o])]
            /\ UNCHANGED <<clearing, listed, result>>
        BY <1>3, <2>1 DEF Create
      <3> QED
        BY <3>1, <3>2 DEF LoaderTypeOK
    <2>2. CASE Len(todo[o]) = 1
      BY <1>1, <1>3, <2>2 DEF Create
    <2> QED
      BY <2>1, <2>2
  <1>4. CASE CreateRefused(o) \/ CreateBreaks(o) \/ Cleared(o) \/ ReadBreaks(o)
    BY <1>1, <1>4 DEF CreateRefused, CreateBreaks, Cleared, ReadBreaks
  <1>5. ASSUME NEW phase \in Phases, ListPhase(o, phase),
               result' = [result EXCEPT ![o] = "none"] \/ UNCHANGED result
        PROVE  /\ LoaderTypeOK'
               /\ \A x \in Loaders \ {o} :
                    /\ todo'[x] = todo[x] /\ clearing'[x] = clearing[x]
                    /\ listed'[x] = listed[x] /\ result'[x] = result[x]
    <2>1. Listing(phase) \subseteq Devices \cup Links \cup Hosts
      BY DEF Phases, Listing, TypeOK
    <2>2. /\ clearing' = [clearing EXCEPT ![o] = phase]
          /\ listed' = [listed EXCEPT ![o] = Listing(phase)]
          /\ UNCHANGED todo
      BY <1>5 DEF ListPhase
    <2> QED
      BY <1>5, <2>1, <2>2 DEF LoaderTypeOK
  <1>6. CASE ClearTopology(o)
    BY <1>5, <1>6 DEF ClearTopology, Phases
  <1>7. CASE ListNext(o)
    <2>1. NextPhase(clearing[o]) \in Phases
      BY <1>7 DEF ListNext, NextPhase, Phases
    <2> QED
      BY <1>5, <1>7, <2>1 DEF ListNext
  <1>8. ASSUME NEW x \in listed[o], RemoveOne(o, x) \/ RemoveRefused(o, x) \/ RemoveBreaks(o, x)
        PROVE  /\ LoaderTypeOK'
               /\ \A y \in Loaders \ {o} :
                    /\ todo'[y] = todo[y] /\ clearing'[y] = clearing[y]
                    /\ listed'[y] = listed[y] /\ result'[y] = result[y]
    <2>1. CASE RemoveOne(o, x)
      BY <2>1 DEF RemoveOne, Delist, LoaderTypeOK
    <2>2. CASE RemoveRefused(o, x) \/ RemoveBreaks(o, x)
      BY <1>1, <2>2 DEF RemoveRefused, RemoveBreaks
    <2> QED
      BY <1>8, <2>1, <2>2
  <1> QED
    BY <1>2, <1>3, <1>4, <1>6, <1>7, <1>8 DEF Operate

\* A step of a load or a clear is a call to the inventory, or leaves it alone.
LEMMA OperateSteps ==
    ASSUME LoaderInv, NEW o \in Loaders, Operate(o)
    PROVE  [Next]_vars /\ UNCHANGED crash
  <1>1. UNCHANGED inventory => UNCHANGED vars /\ UNCHANGED crash
    BY DEF inventory, vars
  <1>2. ASSUME NEW phase \in Phases, NEW x, Remove(phase, x)
        PROVE  Next /\ UNCHANGED crash
    BY <1>2, RemoveEffect DEF LoaderInv, Next
  <1>3. ASSUME todo[o] # << >>, Add(Head(todo[o]))
        PROVE  Next /\ UNCHANGED crash
    <2>1. Head(todo[o]) \in Calls
      BY <1>3, TailRange DEF LoaderInv, LoaderTypeOK
    <2> QED
      BY <1>3, <2>1, AddEffect DEF LoaderInv, Next
  <1>4. CASE Create(o) \/ CreateBreaks(o)
    BY <1>1, <1>3, <1>4 DEF Create, CreateBreaks
  <1>5. ASSUME NEW x \in listed[o], RemoveOne(o, x) \/ RemoveBreaks(o, x)
        PROVE  [Next]_vars /\ UNCHANGED crash
    <2>1. clearing[o] \in Phases
      BY <1>5 DEF RemoveOne, RemoveBreaks, GoesOn, LoaderInv, LoaderTypeOK
    <2> QED
      BY <1>1, <1>2, <1>5, <2>1 DEF RemoveOne, RemoveBreaks
  <1>6. ASSUME \/ LoadTopology(o) \/ CreateRefused(o) \/ ClearTopology(o)
               \/ ListNext(o) \/ Cleared(o) \/ ReadBreaks(o)
               \/ \E x \in listed[o] : RemoveRefused(o, x)
        PROVE  UNCHANGED inventory
    BY <1>6 DEF LoadTopology, CreateRefused, ClearTopology, ListNext, ListPhase, Cleared,
                ReadBreaks, RemoveRefused
  <1> QED
    BY <1>1, <1>4, <1>5, <1>6 DEF Operate

\* The loaders keep the types and the used-port maps of the inventory.
LEMMA LoaderInvStep ==
    ASSUME LoaderInv, [LoaderNext]_<<inventory, loaderVars>>
    PROVE  LoaderInv' /\ [Next]_vars
  <1>1. CASE UNCHANGED <<inventory, loaderVars>>
    <2>1. UNCHANGED <<vars, crash, todo, clearing, listed, result>>
      BY <1>1 DEF inventory, vars, loaderVars
    <2>2. TypeOK' /\ UsedPortsMatch'
      BY <2>1, TypeStep, PortsStep DEF LoaderInv
    <2> QED
      BY <2>1, <2>2 DEF LoaderInv, LoaderTypeOK
  <1>2. ASSUME NEW o \in Loaders, Operate(o)
        PROVE  LoaderInv' /\ [Next]_vars
    <2>1. [Next]_vars /\ UNCHANGED crash
      BY <1>2, OperateSteps
    <2>2. TypeOK' /\ UsedPortsMatch'
      BY <2>1, TypeStep, PortsStep DEF LoaderInv
    <2>3. LoaderTypeOK'
      BY <1>2, LoaderTypes DEF LoaderInv
    <2> QED
      BY <2>1, <2>2, <2>3 DEF LoaderInv
  <1> QED
    BY <1>1, <1>2 DEF LoaderNext

\* Initially the inventory is empty and nobody loads or clears.
LEMMA LoaderInvInit ==
    LoaderInit => LoaderInv
  <1> SUFFICES ASSUME LoaderInit PROVE LoaderInv
    OBVIOUS
  <1>1. TypeOK
    BY TypeInit DEF LoaderInit
  <1>2. UsedPortsMatch /\ crash = "none"
    BY DEF LoaderInit, Init, UsedPortsMatch, Users
  <1>3. << >> \in Seq(Calls)
    OBVIOUS
  <1>4. LoaderTypeOK
    BY <1>3 DEF LoaderInit, LoaderTypeOK
  <1> QED
    BY <1>1, <1>2, <1>4 DEF LoaderInv

\* Every call of every load and clear, with any number of operators at work at
\* once and broken connections in between, is a step of the core that
\* Inventory describes: what is proved of Inventory holds of the loader.
THEOREM LoaderImplementsInventory ==
    LoaderSpec => Spec
  <1>1. LoaderInit => Init
    BY DEF LoaderInit
  <1> QED
    BY <1>1, LoaderInvInit, LoaderInvStep, PTL DEF LoaderSpec, Spec

------------------------------------------------------------------------------
\* Who loads is alone.  One lemma per part of a step of a load or a clear.

\* Nobody else works on the topology during a load (LoadsAlone), and nobody is
\* in a load and in a clear at once.
LEMMA OneLoadsStep ==
    ASSUME LoaderTypeOK, OneLoads, NEW o \in Loaders, Operate(o), LoadsAlone, TypeOK
    PROVE  OneLoads'
  <1>1. ASSUME NEW x \in Loaders, todo'[x] # << >>
        PROVE  clearing'[x] = "no"
    <2>1. CASE x # o
      BY <1>1, <2>1, LoaderTypes DEF OneLoads
    <2>2. CASE x = o
      <3>1. CASE LoadTopology(o)
        BY <2>2, <3>1 DEF LoadTopology, Free
      <3>2. CASE Create(o) \/ CreateRefused(o) \/ CreateBreaks(o)
        BY <2>2, <3>2 DEF Create, CreateRefused, CreateBreaks, Return, OneLoads, LoaderTypeOK
      <3>3. CASE ClearTopology(o)
        BY <1>1, <2>2, <3>3 DEF ClearTopology, Free, ListPhase
      <3>4. CASE ListNext(o) \/ Cleared(o) \/ ReadBreaks(o)
        BY <1>1, <2>2, <3>4 DEF ListNext, Cleared, ReadBreaks, ListPhase, Return, OneLoads, LoaderTypeOK
      <3>5. CASE \E y \in listed[o] : RemoveOne(o, y) \/ RemoveRefused(o, y) \/ RemoveBreaks(o, y)
        BY <1>1, <2>2, <3>5
        DEF RemoveOne, RemoveRefused, RemoveBreaks, GoesOn, Delist, Return, OneLoads, LoaderTypeOK
      <3> QED
        BY <3>1, <3>2, <3>3, <3>4, <3>5 DEF Operate
    <2> QED
      BY <2>1, <2>2
  <1> QED
    BY <1>1 DEF OneLoads, LoadsAlone

\* The result is reset when an operation begins, and set when it ends.
LEMMA NoResultStep ==
    ASSUME LoaderTypeOK, TypeOK, NoResultYet, NEW o \in Loaders, Operate(o)
    PROVE  NoResultYet'
  <1>1. ASSUME NEW x \in Loaders \ {o}
        PROVE  todo'[x] # << >> \/ clearing'[x] # "no" => result'[x] = "none"
    BY LoaderTypes DEF NoResultYet
  <1>2. todo'[o] # << >> \/ clearing'[o] # "no" => result'[o] = "none"
    <2>1. CASE LoadTopology(o) \/ ClearTopology(o)
      BY <2>1 DEF LoadTopology, ClearTopology, LoaderTypeOK
    <2>2. CASE \E r \in {"loaded", "cleared", "failed"} : Return(o, r)
      BY <2>2 DEF Return, LoaderTypeOK
    <2>3. CASE Create(o) /\ Len(todo[o]) # 1
      BY <2>3 DEF Create, NoResultYet
    <2>4. CASE ListNext(o)
      BY <2>4 DEF ListNext, ListPhase, NoResultYet
    <2>5. CASE \E y \in listed[o] : RemoveOne(o, y)
      BY <2>5 DEF RemoveOne, GoesOn, Delist, NoResultYet
    <2> QED
      BY <2>1, <2>2, <2>3, <2>4, <2>5
      DEF Operate, Create, CreateRefused, CreateBreaks, Cleared, ReadBreaks, RemoveRefused,
          RemoveBreaks
  <1> QED
    BY <1>1, <1>2 DEF NoResultYet

\* Somebody clears: no call adds anything to what is left to remove.
LEMMA ClearStep ==
    ASSUME AloneInv, NEW o \in Loaders, Operate(o)
    PROVE  ClearProceeds'
  <1> DEFINE Kept(x) ==
        /\ clearing[x] # "no" => Listing(clearing[x]) \subseteq listed[x]
        /\ clearing[x] \in {"links", "devices"} => DOMAIN hosts = {}
        /\ clearing[x] = "devices" => DOMAIN links = {}
      Shrinks == \A phase \in Phases : Listing(phase)' \subseteq Listing(phase)
  <1>1. LoaderTypeOK /\ TypeOK /\ \A x \in Loaders : Kept(x)
    BY DEF AloneInv, LoaderInv, ClearProceeds
  <1>2. ASSUME NEW x \in Loaders, Shrinks, clearing'[x] = clearing[x], listed'[x] = listed[x]
        PROVE  Kept(x)'
    <2>1. /\ Listing("hosts")' \subseteq Listing("hosts")
          /\ Listing("links")' \subseteq Listing("links")
      BY <1>2 DEF Phases
    <2>2. DOMAIN hosts' \subseteq DOMAIN hosts /\ DOMAIN links' \subseteq DOMAIN links
      BY <2>1 DEF Listing
    <2>3. clearing[x] # "no" => clearing[x] \in Phases
      BY <1>1 DEF LoaderTypeOK
    <2> QED
      BY <1>1, <1>2, <2>2, <2>3
  <1>3. UNCHANGED inventory => Shrinks
    BY DEF inventory, Listing, Phases
  <1>4. ASSUME clearing'[o] = "no", Shrinks
        PROVE  ClearProceeds'
    BY <1>1, <1>2, <1>4, LoaderTypes DEF ClearProceeds
  <1>5. CASE Create(o) \/ CreateBreaks(o)
    <2>1. \A x \in Loaders \ {o} : clearing'[x] = "no"
      BY <1>1, <1>5, LoaderTypes DEF Create, CreateBreaks, AloneInv, OneLoads
    <2>2. clearing'[o] = "no"
      BY <1>1, <1>5 DEF Create, CreateBreaks, Return, AloneInv, OneLoads, LoaderTypeOK
    <2> QED
      BY <2>1, <2>2 DEF ClearProceeds
  <1>6. CASE LoadTopology(o) \/ CreateRefused(o)
    <2>1. UNCHANGED inventory /\ clearing'[o] = "no"
      BY <1>1, <1>6 DEF LoadTopology, Free, CreateRefused, Return, LoaderTypeOK
    <2> QED
      BY <1>3, <1>4, <2>1
  <1>7. CASE ClearTopology(o)
    <2>1. /\ UNCHANGED inventory
          /\ clearing'[o] = "hosts" /\ listed'[o] = Listing("hosts")
      BY <1>1, <1>7 DEF ClearTopology, ListPhase, LoaderTypeOK
    <2>2. Kept(o)'
      BY <2>1 DEF inventory, Listing
    <2> QED
      BY <1>1, <1>2, <1>3, <2>1, <2>2, LoaderTypes DEF ClearProceeds
  <1>8. CASE ListNext(o)
    <2>1. /\ UNCHANGED inventory
          /\ clearing'[o] = NextPhase(clearing[o])
          /\ listed'[o] = Listing(NextPhase(clearing[o]))
          /\ clearing[o] \in {"hosts", "links"} /\ listed[o] = {}
      BY <1>1, <1>8 DEF ListNext, ListPhase, LoaderTypeOK
    <2>2. Listing(clearing[o]) = {}
      BY <1>1, <2>1
    <2>3. Kept(o)'
      <3>1. CASE clearing[o] = "hosts"
        BY <2>1, <2>2, <3>1 DEF inventory, Listing, NextPhase
      <3>2. CASE clearing[o] = "links"
        BY <1>1, <2>1, <2>2, <3>2 DEF inventory, Listing, NextPhase
      <3> QED
        BY <2>1, <3>1, <3>2
    <2> QED
      BY <1>1, <1>2, <1>3, <2>1, <2>3, LoaderTypes DEF ClearProceeds
  <1>9. CASE Cleared(o) \/ ReadBreaks(o)
    <2>1. UNCHANGED inventory /\ clearing'[o] = "no"
      BY <1>1, <1>9 DEF Cleared, ReadBreaks, Return, LoaderTypeOK
    <2> QED
      BY <1>3, <1>4, <2>1
  <1>10. ASSUME NEW x \in listed[o], RemoveOne(o, x) \/ RemoveRefused(o, x) \/ RemoveBreaks(o, x)
         PROVE  ClearProceeds'
    <2>1. PICK phase \in Phases : clearing[o] = phase
      BY <1>1, <1>10 DEF RemoveOne, RemoveRefused, RemoveBreaks, GoesOn, LoaderTypeOK
    <2>2. Remove(phase, x) => Shrinks /\ x \notin Listing(phase)'
      BY <1>1, RemoveEffect
    <2>3. CASE RemoveRefused(o, x) \/ RemoveBreaks(o, x)
      <3>1. Shrinks
        BY <1>3, <2>1, <2>2, <2>3 DEF RemoveRefused, RemoveBreaks
      <3>2. clearing'[o] = "no"
        BY <1>1, <2>3 DEF RemoveRefused, RemoveBreaks, Return, LoaderTypeOK
      <3> QED
        BY <1>4, <3>1, <3>2
    <2>4. CASE RemoveOne(o, x)
      <3>1. Remove(phase, x) /\ listed'[o] = listed[o] \ {x} /\ UNCHANGED clearing
        BY <1>1, <2>1, <2>4 DEF RemoveOne, Delist, LoaderTypeOK
      <3>2. Shrinks /\ x \notin Listing(phase)'
        BY <2>2, <3>1
      <3>3. /\ Listing("hosts")' \subseteq Listing("hosts")
            /\ Listing("links")' \subseteq Listing("links")
        BY <3>2 DEF Phases
      <3>4. DOMAIN hosts' \subseteq DOMAIN hosts /\ DOMAIN links' \subseteq DOMAIN links
        BY <3>3 DEF Listing
      <3>5. Listing(phase)' \subseteq listed'[o]
        <4>1. Listing(phase) \subseteq listed[o]
          BY <1>1, <2>1 DEF Phases
        <4>2. Listing(phase)' \subseteq Listing(phase)
          BY <3>2
        <4> QED
          BY <3>1, <3>2, <4>1, <4>2
      <3>6. Kept(o)'
        BY <1>1, <2>1, <3>1, <3>4, <3>5
      <3> QED
        BY <1>1, <1>2, <3>1, <3>2, <3>6, LoaderTypes DEF ClearProceeds
    <2> QED
      BY <1>10, <2>3, <2>4
  <1> QED
    BY <1>5, <1>6, <1>7, <1>8, <1>9, <1>10 DEF Operate

\* A load: what has been created stays until the load ends, nothing else is
\* created, and what hangs on a device is removed before the device.
LEMMA LoadStep ==
    ASSUME AloneInv, NEW o \in Loaders, Operate(o)
    PROVE  LoadProceeds' /\ OnlyTheTopology' /\ NothingDangles'
  <1> DEFINE Grows == \A call : Created(call) => Created(call)'
             Others == \A x \in Loaders \ {o} : todo'[x] = << >>
             Good == OnlyTheTopology' /\ NothingDangles'
  <1>1. /\ LoaderTypeOK /\ TypeOK /\ OneLoads /\ LoadProceeds
        /\ OnlyTheTopology /\ NothingDangles
    BY DEF AloneInv, LoaderInv
  <1>2. UNCHANGED inventory => Grows /\ Good
    BY <1>1 DEF inventory, Created, OnlyTheTopology, NothingDangles, ValidPort
  <1>3. ASSUME Grows
        PROVE  \A x \in Loaders \ {o} : todo'[x] # << >> =>
                  \A call \in Calls : call \in Range(todo'[x]) \/ Created(call)'
    BY <1>1, <1>3, LoaderTypes DEF LoadProceeds
  <1>4. CASE LoadTopology(o)
    <2>1. UNCHANGED inventory /\ todo'[o] = Topology
      BY <1>1, <1>4 DEF LoadTopology, LoaderTypeOK
    <2>2. \A call \in Calls : call \in Range(todo'[o])
      BY <2>1 DEF Calls
    <2> QED
      BY <1>2, <1>3, <2>1, <2>2 DEF LoadProceeds
  <1>5. ASSUME todo[o] # << >>, Add(Head(todo[o]))
        PROVE  Grows /\ Good /\ \A call \in Calls : call = Head(todo[o]) => Created(call)'
    <2>1. PICK first \in Calls : first = Head(todo[o])
      BY <1>1, <1>5, TailRange DEF LoaderTypeOK
    <2>2. /\ Created(first)'
          /\ \A call : Created(call) => Created(call)'
          /\ OnlyTheTopology' /\ NothingDangles'
      BY <1>1, <1>5, <2>1, AddEffect
    <2> QED
      BY <2>1, <2>2
  <1>6. ASSUME \E r \in {"loaded", "cleared", "failed"} : Return(o, r)
        PROVE  todo'[o] = << >>
    BY <1>1, <1>6 DEF Return, LoaderTypeOK
  <1>7. CASE Create(o)
    <2>1. todo[o] # << >> /\ Add(Head(todo[o]))
      BY <1>7 DEF Create
    <2>2. Grows /\ Good /\ \A call \in Calls : call = Head(todo[o]) => Created(call)'
      BY <1>5, <2>1
    <2>3. CASE Len(todo[o]) = 1
      BY <1>3, <1>6, <1>7, <2>2, <2>3 DEF Create, LoadProceeds
    <2>4. CASE Len(todo[o]) # 1
      <3>1. todo'[o] = Tail(todo[o])
        BY <1>1, <1>7, <2>4 DEF Create, LoaderTypeOK
      <3>2. Range(todo[o]) = {Head(todo[o])} \cup Range(Tail(todo[o]))
        BY <1>1, <2>1, TailRange DEF LoaderTypeOK
      <3>3. \A call \in Calls : call \in Range(todo'[o]) \/ Created(call)'
        BY <1>1, <2>1, <2>2, <3>1, <3>2 DEF LoadProceeds
      <3> QED
        BY <1>3, <2>2, <3>3 DEF LoadProceeds
    <2> QED
      BY <2>3, <2>4
  <1>8. CASE CreateRefused(o) \/ CreateBreaks(o)
    <2>1. todo'[o] = << >> /\ Grows /\ Good
      BY <1>2, <1>5, <1>6, <1>8 DEF CreateRefused, CreateBreaks
    <2> QED
      BY <1>3, <2>1 DEF LoadProceeds
  <1>9. CASE ClearTopology(o) \/ ListNext(o) \/ Cleared(o) \/ ReadBreaks(o)
    <2>1. UNCHANGED inventory
      BY <1>9 DEF ClearTopology, ListNext, ListPhase, Cleared, ReadBreaks
    <2>2. todo'[o] = todo[o] \/ todo'[o] = << >>
      BY <1>6, <1>9 DEF ClearTopology, ListNext, ListPhase, Cleared, ReadBreaks
    <2> QED
      BY <1>1, <1>2, <1>3, <2>1, <2>2 DEF LoadProceeds
  <1>10. ASSUME NEW x \in listed[o], RemoveOne(o, x) \/ RemoveRefused(o, x) \/ RemoveBreaks(o, x)
         PROVE  LoadProceeds' /\ Good
    <2>1. PICK phase \in Phases : clearing[o] = phase
      BY <1>1, <1>10 DEF RemoveOne, RemoveRefused, RemoveBreaks, GoesOn, LoaderTypeOK
    <2>2. phase = "devices" => DOMAIN hosts = {} /\ DOMAIN links = {}
      BY <2>1 DEF AloneInv, ClearProceeds
    <2>3. Remove(phase, x) => Good
      BY <1>1, <2>2, RemoveEffect
    <2>4. Good
      BY <1>2, <1>10, <2>1, <2>3 DEF RemoveOne, RemoveRefused, RemoveBreaks
    <2>5. \A y \in Loaders : todo[y] = << >>
      BY <1>1, <2>1 DEF OneLoads, Phases
    <2>6. \A y \in Loaders : todo'[y] = << >>
      <3>1. todo'[o] = << >>
        BY <1>6, <1>10, <2>5 DEF RemoveOne, Delist, RemoveRefused, RemoveBreaks
      <3> QED
        BY <1>1, <2>5, <3>1, LoaderTypes
    <2> QED
      BY <2>4, <2>6 DEF LoadProceeds
  <1> QED
    BY <1>4, <1>7, <1>8, <1>9, <1>10 DEF Operate

------------------------------------------------------------------------------
\* The invariant of undisturbed loads and clears.

\* The invariant holds of an empty simulation that nobody loads or clears.
LEMMA AloneInit ==
    LoaderInit => AloneInv
  <1> SUFFICES ASSUME LoaderInit PROVE AloneInv
    OBVIOUS
  <1>1. LoaderInv
    BY LoaderInvInit
  <1>2. OneLoads /\ NoResultYet /\ ClearProceeds /\ LoadProceeds
    BY DEF LoaderInit, OneLoads, NoResultYet, ClearProceeds, LoadProceeds
  <1>3. NothingDangles /\ OnlyTheTopology
    BY DEF LoaderInit, Init, NothingDangles, OnlyTheTopology
  <1> QED
    BY <1>1, <1>2, <1>3 DEF AloneInv

\* Every step of an undisturbed load or clear keeps it.
LEMMA AloneStep ==
    ASSUME AloneInv, [LoaderNext /\ LoadsAlone]_<<inventory, loaderVars>>
    PROVE  AloneInv'
  <1>1. LoaderInv'
    BY LoaderInvStep DEF AloneInv
  <1>2. CASE UNCHANGED <<inventory, loaderVars>>
    BY <1>1, <1>2
    DEF AloneInv, inventory, loaderVars, usedPorts, NothingDangles, ValidPort, OneLoads,
        NoResultYet, ClearProceeds, Listing, LoadProceeds, Created, OnlyTheTopology
  <1>3. ASSUME NEW o \in Loaders, Operate(o), LoadsAlone
        PROVE  AloneInv'
    BY <1>1, <1>3, OneLoadsStep, NoResultStep, ClearStep, LoadStep DEF AloneInv, LoaderInv
  <1> QED
    BY <1>2, <1>3 DEF LoaderNext

LEMMA AloneAlways ==
    AloneSpec => []AloneInv
  BY AloneInit, AloneStep, PTL DEF AloneSpec

\* Links and NICs are never left without their device, whatever calls fail and
\* whoever clears at the same time, as long as nobody loads during another load
\* or clear: devices are added before what is attached to them (LoadTopology)
\* and removed after it (ClearTopology).
THEOREM NothingEverDangles ==
    AloneSpec => []NothingDangles
  <1>1. AloneInv => NothingDangles
    BY DEF AloneInv
  <1> QED
    BY <1>1, AloneAlways, PTL

\* A clear that reports no error leaves nothing behind (ClearTopology).
THEOREM ClearsEmpty ==
    AloneSpec => ClearedIsEmpty
  <1>1. ASSUME AloneInv, [LoaderNext /\ LoadsAlone]_<<inventory, loaderVars>>, AloneInv'
        PROVE  [\A o \in Loaders : clearing[o] # "no" /\ result'[o] = "cleared" =>
                  /\ DOMAIN devices' = {} /\ DOMAIN links' = {} /\ DOMAIN hosts' = {}
                  /\ DOMAIN usedEgressPorts' = {} /\ DOMAIN usedIngressPorts' = {}
               ]_<<inventory, loaderVars>>
    <2> SUFFICES ASSUME NEW s \in Loaders, Operate(s),
                        NEW o \in Loaders, clearing[o] # "no", result'[o] = "cleared"
                 PROVE  /\ DOMAIN devices' = {} /\ DOMAIN links' = {} /\ DOMAIN hosts' = {}
                        /\ DOMAIN usedEgressPorts' = {} /\ DOMAIN usedIngressPorts' = {}
      BY <1>1 DEF LoaderNext
    <2>1. LoaderTypeOK /\ TypeOK /\ NoResultYet /\ ClearProceeds /\ OneLoads
      BY <1>1 DEF AloneInv, LoaderInv
    <2>2. result[o] = "none"
      BY <2>1 DEF NoResultYet
    <2>3. s = o
      BY <2>1, <2>2, LoaderTypes
    <2>4. Cleared(o)
      <3>1. CASE LoadTopology(o) \/ ClearTopology(o)
        BY <3>1 DEF LoadTopology, ClearTopology, Free
      <3>2. CASE Create(o) \/ CreateRefused(o) \/ CreateBreaks(o)
        BY <2>1, <3>2 DEF Create, CreateRefused, CreateBreaks, OneLoads
      <3>3. CASE ListNext(o)
        BY <2>2, <3>3 DEF ListNext
      <3>4. CASE \E x \in listed[o] : RemoveOne(o, x) \/ RemoveRefused(o, x) \/ RemoveBreaks(o, x)
        BY <2>1, <2>2, <3>4
        DEF RemoveOne, Delist, RemoveRefused, RemoveBreaks, Return, LoaderTypeOK
      <3>5. ~ ReadBreaks(o)
        BY <2>1 DEF ReadBreaks, Return, LoaderTypeOK
      <3> QED
        BY <2>3, <3>1, <3>2, <3>3, <3>4, <3>5 DEF Operate
    <2>5. /\ clearing[o] = "devices" /\ listed[o] = {}
          /\ UNCHANGED <<devices, links, hosts>>
      BY <2>4 DEF Cleared, inventory
    <2>6. DOMAIN devices = {} /\ DOMAIN links = {} /\ DOMAIN hosts = {}
      BY <2>1, <2>5 DEF ClearProceeds, Listing
    <2>7. DOMAIN devices' = {} /\ DOMAIN links' = {} /\ DOMAIN hosts' = {}
      BY <2>5, <2>6
    <2>8. UsedPortsMatch'
      BY <1>1 DEF AloneInv, LoaderInv
    <2>9. Users' = {}
      BY <2>7 DEF Users
    <2>10. DOMAIN usedEgressPorts' = {} /\ DOMAIN usedIngressPorts' = {}
      BY <2>8, <2>9 DEF UsedPortsMatch
    <2> QED
      BY <2>7, <2>10
  <1> QED
    BY <1>1, AloneAlways, PTL DEF AloneSpec, ClearedIsEmpty

\* A load that reports no error has created the whole topology, and nothing
\* else is there (LoadTopology).
THEOREM LoadsComplete ==
    AloneSpec => LoadedIsComplete
  <1>1. ASSUME AloneInv, [LoaderNext /\ LoadsAlone]_<<inventory, loaderVars>>, AloneInv'
        PROVE  [\A o \in Loaders : todo[o] # << >> /\ result'[o] = "loaded" =>
                  /\ DOMAIN devices' = {DeviceList[i] : i \in DOMAIN DeviceList}
                  /\ DOMAIN links' = {LinkList[i].id : i \in DOMAIN LinkList}
                  /\ DOMAIN hosts' = {HostList[i].id : i \in DOMAIN HostList}
               ]_<<inventory, loaderVars>>
    <2> SUFFICES ASSUME NEW s \in Loaders, Operate(s),
                        NEW o \in Loaders, todo[o] # << >>, result'[o] = "loaded"
                 PROVE  /\ DOMAIN devices' = {DeviceList[i] : i \in DOMAIN DeviceList}
                        /\ DOMAIN links' = {LinkList[i].id : i \in DOMAIN LinkList}
                        /\ DOMAIN hosts' = {HostList[i].id : i \in DOMAIN HostList}
      BY <1>1 DEF LoaderNext
    <2>1. LoaderTypeOK /\ TypeOK /\ NoResultYet /\ OneLoads /\ LoadProceeds
      BY <1>1 DEF AloneInv, LoaderInv
    <2>2. result[o] = "none"
      BY <2>1 DEF NoResultYet
    <2>3. s = o
      BY <2>1, <2>2, LoaderTypes
    <2>4. Create(o) /\ Len(todo[o]) = 1
      <3>1. CASE LoadTopology(o) \/ ClearTopology(o)
        BY <3>1 DEF LoadTopology, ClearTopology, Free
      <3>2. CASE Create(o)
        BY <2>2, <3>2 DEF Create
      <3>3. CASE CreateRefused(o) \/ CreateBreaks(o)
        BY <2>1, <3>3 DEF CreateRefused, CreateBreaks, Return, LoaderTypeOK
      <3>4. clearing[o] = "no"
        BY <2>1 DEF OneLoads
      <3>5. CASE ListNext(o) \/ Cleared(o) \/ ReadBreaks(o)
        BY <2>1, <3>4, <3>5 DEF ListNext, Cleared, ReadBreaks, Free
      <3>6. CASE \E x \in listed[o] : RemoveOne(o, x) \/ RemoveRefused(o, x) \/ RemoveBreaks(o, x)
        BY <3>4, <3>6 DEF RemoveOne, RemoveRefused, RemoveBreaks, GoesOn
      <3> QED
        BY <2>3, <3>1, <3>2, <3>3, <3>5, <3>6 DEF Operate
    <2>5. PICK last \in Calls : last = Head(todo[o]) /\ Range(todo[o]) = {last}
      BY <2>1, <2>4, TailRange DEF LoaderTypeOK
    <2>6. Created(last)' /\ \A call : Created(call) => Created(call)'
      BY <2>4, <2>5, AddEffect DEF Create
    <2>7. \A call \in Calls : Created(call)'
      BY <2>1, <2>5, <2>6 DEF LoadProceeds
    <2>8. ASSUME NEW i \in DOMAIN DeviceList
          PROVE  DeviceList[i] \in DOMAIN devices'
      <3>1. AddDevice(DeviceList[i]) \in Calls
        BY CallsAre
      <3>2. Created(AddDevice(DeviceList[i]))'
        BY <2>7, <3>1
      <3> QED
        BY <3>2 DEF AddDevice, Created
    <2>9. ASSUME NEW i \in DOMAIN LinkList
          PROVE  LinkList[i].id \in DOMAIN links'
      <3>1. AddLink(LinkList[i]) \in Calls
        BY CallsAre
      <3>2. Created(AddLink(LinkList[i]))'
        BY <2>7, <3>1
      <3> QED
        BY <3>2 DEF AddLink, Created
    <2>10. ASSUME NEW i \in DOMAIN HostList
          PROVE  HostList[i].id \in DOMAIN hosts'
      <3>1. AddHost(HostList[i]) \in Calls
        BY CallsAre
      <3>2. Created(AddHost(HostList[i]))'
        BY <2>7, <3>1
      <3> QED
        BY <3>2 DEF AddHost, Created
    <2>11. OnlyTheTopology'
      BY <1>1 DEF AloneInv
    <2> QED
      BY <2>8, <2>9, <2>10, <2>11 DEF OnlyTheTopology
  <1> QED
    BY <1>1, AloneAlways, PTL DEF AloneSpec, LoadedIsComplete
==============================================================================
