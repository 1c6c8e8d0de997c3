--------------------------- MODULE TopologyExports ---------------------------
(***************************************************************************)
(* What the generate netcfg and generate robot commands derive from a      *)
(* topology file (src/pkg/topo/netcfg.go, robot.go).  Addresses are the    *)
(* numbers printed into them.  A port is a device with a number; the end   *)
(* of a link that lies in another simulation carries its domain.           *)
(***************************************************************************)
EXTENDS Naturals, Sequences

Port(device, number) == [device |-> device, number |-> number]
Elsewhere(domain, port) == [port EXCEPT !.device = [domain |-> domain, id |-> @]]
IsLocal(port) == "domain" \notin DOMAIN port.device

Elements(s) == {s[i] : i \in 1..Len(s)}
DeviceIDs(t) == {d.id : d \in Elements(t.devices)}
HasPort(t, port) ==
    \E i \in 1..Len(t.devices) :
        t.devices[i].id = port.device /\ port.number \in 1..t.devices[i].ports

\* createPorts: the number a port has for the controller; 0 when pid finds none.
SDNNumber(t, port) == IF HasPort(t, port) THEN port.number + 200 ELSE 0

\* "::ffff:10.10.<rack><leaf>.<host>": rack and leaf run together.
IPv6(address) ==
    <<address[1] * (IF address[2] < 10 THEN 10 ELSE IF address[2] < 100 THEN 100 ELSE 1000)
        + address[2], address[3]>>

----------------------------------------------------------------------------
\* getIndex: a number of more than 16 bits is taken for 0.
ParsedIndex(id) == IF id.index < 65536 THEN id.index ELSE 0

\* Mutant: leaves and spines number their node segments from the same base.
OneBase(id) == 200 + ParsedIndex(id)

\* createNetcfgDevice: also the last byte of the loopback and of the router's MAC.
NodeSid(id) == (IF id.kind = "leaf" THEN 100 ELSE 200) + ParsedIndex(id)

\* The i-th interface of the topology is given the i-th tenant, in a circle.
TenantOf(tenants, i) == tenants[((i - 1) % Len(tenants)) + 1]

\* createONOSCommand indexes the digits of the port it looks up: a port that is
\* not in the topology gives none, and the command panics.
NetcfgPanics(t) == \E nic \in Elements(t.nics) : SDNNumber(t, nic.port) = 0

\* The names of the logical switch ports that the saved commands create.  (In the
\* file, the interface of a server with an IPU comes after those of its virtual
\* machines, so that they are given their tenants in that order.)
LogicalPorts(t, tenants) ==
    [i \in 1..Len(t.nics) |->
        [tenant |-> TenantOf(tenants, i),
         device |-> t.nics[i].port.device.index,
         port   |-> SDNNumber(t, t.nics[i].port)]]

----------------------------------------------------------------------------
\* Mutant: the far end of a link expects it with the ports as they are at the near end.
PortsNotSwapped(t, id) ==
    {[target |-> l.tgt.device, source |-> SDNNumber(t, l.src), at |-> SDNNumber(t, l.tgt)] :
        l \in {l \in Elements(t.links) : l.src.device = id}}
    \cup
    {[target |-> l.src.device, source |-> SDNNumber(t, l.src), at |-> SDNNumber(t, l.tgt)] :
        l \in {l \in Elements(t.links) : /\ l.src.device # id
                                        /\ ~l.unidirectional /\ l.tgt.device = id}}

\* createRobotDevice: the links a device is expected to report.
RobotLinks(t, id) ==
    {[target |-> l.tgt.device, source |-> SDNNumber(t, l.src), at |-> SDNNumber(t, l.tgt)] :
        l \in {l \in Elements(t.links) : l.src.device = id}}
    \cup
    {[target |-> l.src.device, source |-> SDNNumber(t, l.tgt), at |-> SDNNumber(t, l.src)] :
        l \in {l \in Elements(t.links) : /\ l.src.device # id
                                        /\ ~l.unidirectional /\ l.tgt.device = id}}
=============================================================================
