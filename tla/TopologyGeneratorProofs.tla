----------------------- MODULE TopologyGeneratorProofs -----------------------
(***************************************************************************)
(* Theorems about TopologyGenerator, for recipes of any size: what its     *)
(* steps keep of what FabricRecipeProofs says of the calls, and what       *)
(* follows for the topology.                                               *)
(***************************************************************************)
EXTENDS FabricRecipeProofs

------------------------------------------------------------------------------
\* The inductive invariant.

\* The port is one of a device that was created.
Made(p) == p.device \in DeviceIDs(topology) /\ p.number \in 1..PortCount(recipe, p.device)

Ports == [device : Devices, number : Nat]
FarPorts == [device : [domain : Nat, id : Devices], number : Nat]
DeviceRecords == [id : Devices, agentPort : Nat, ports : Nat]
LinkRecords == [src : Ports, tgt : Ports, unidirectional : {FALSE}]
               \cup [src : Ports, tgt : FarPorts, unidirectional : {TRUE}]
NicRecords == [host : Hosts, address : Nat \X Nat \X Nat, port : Ports]
Topologies == [devices : Seq(DeviceRecords), links : Seq(LinkRecords), nics : Seq(NicRecords)]

Done == {There(d) : d \in DeviceIDs(topology)} \cup {Linked(d) : d \in DOMAIN nextPort}

\* The next port of each device is one that it has.
Numbered(next) ==
    /\ DOMAIN next \subseteq Devices
    /\ \A d \in DOMAIN next :
        next[d] \in Nat /\ (Own(recipe, d) => next[d] \in 1..PortCount(recipe, d))

\* The Builder's maps are about devices, and number the ports of those created here.
MapsInv ==
    /\ Numbered(nextPort)
    /\ DOMAIN minPort \subseteq Devices /\ DOMAIN maxPort \subseteq Devices
    /\ \A d \in DOMAIN minPort : minPort[d] \in 1..PortCount(recipe, d)
    /\ \A d \in DOMAIN maxPort : Own(recipe, d) => maxPort[d] = PortCount(recipe, d)
    /\ DeviceIDs(topology) \subseteq DOMAIN minPort \cap DOMAIN maxPort

\* What was added to the topology is on ports that were made.
TopologyInv ==
    /\ topology \in Topologies
    /\ \A d \in Elements(topology.devices) :
        Own(recipe, d.id) /\ d.ports = PortCount(recipe, d.id)
    /\ \A l \in Elements(topology.links) :
        /\ Made(l.src) /\ l.src.device # l.tgt.device
        /\ ~ l.unidirectional => Made(l.tgt)
    /\ \A nic \in Elements(topology.nics) : Made(nic.port)

GeneratorInv ==
    /\ Buildable(recipe) /\ agentPort \in Nat
    /\ calls \in Plan(recipe, Done, {})
    /\ MapsInv
    /\ TopologyInv

------------------------------------------------------------------------------
\* The steps keep the invariant.

\* What a topology holds after an addition.
LEMMA AppendElements ==
    ASSUME NEW S, NEW s \in Seq(S), NEW e \in S
    PROVE  Append(s, e) \in Seq(S) /\ Elements(Append(s, e)) = Elements(s) \cup {e}
  <1>1. /\ Append(s, e) \in Seq(S) /\ Len(Append(s, e)) = Len(s) + 1 /\ Len(s) \in Nat
        /\ \A i \in 1..Len(s) : Append(s, e)[i] = s[i]
        /\ Append(s, e)[Len(s) + 1] = e
    OBVIOUS
  <1>2. PICK a : a = Append(s, e)
    OBVIOUS
  <1>3. \A i \in 1..Len(s) : i \in 1..Len(a) /\ a[i] = s[i]
    BY <1>1, <1>2
  <1>4. \A i \in 1..Len(a) : i = Len(s) + 1 \/ i \in 1..Len(s)
    BY <1>1, <1>2
  <1>5. Len(s) + 1 \in 1..Len(a) /\ a[Len(s) + 1] = e
    BY <1>1, <1>2
  <1>6. Elements(a) = Elements(s) \cup {e}
    BY <1>3, <1>4, <1>5 DEF Elements
  <1> QED
    BY <1>1, <1>2, <1>6

\* A call may be made, and the rest can be made after it.
LEMMA NextCall ==
    ASSUME GeneratorInv, calls # <<>>
    PROVE  /\ Head(calls) \in Allowed(recipe) /\ Needs(Head(calls)) \subseteq Done
           /\ \A D : Done \cup Gives(Head(calls)) \subseteq D => Tail(calls) \in Plan(recipe, D, {})
  <1> DEFINE rest == Tail(calls)
  <1>1. calls \in Seq(Allowed(recipe))
        /\ \A k \in 1..Len(calls) : Needs(calls[k]) \subseteq Done \cup GivenBefore(calls, k)
    BY DEF GeneratorInv, Plan
  <1>2. /\ 1 \in 1..Len(calls) /\ Head(calls) = calls[1] /\ Head(calls) \in Allowed(recipe)
        /\ rest \in Seq(Allowed(recipe)) /\ Len(rest) = Len(calls) - 1 /\ Len(calls) \in Nat
        /\ \A k \in 1..Len(rest) : rest[k] = calls[k + 1]
    <2> HIDE DEF Allowed
    <2> QED
      BY <1>1
  <1> HIDE DEF rest
  <1>3. Needs(Head(calls)) \subseteq Done
    <2>1. GivenBefore(calls, 1) = {}
      BY DEF GivenBefore
    <2> QED
      BY <1>1, <1>2, <2>1
  <1>4. ASSUME NEW D, Done \cup Gives(Head(calls)) \subseteq D
        PROVE  rest \in Plan(recipe, D, {})
    <2>1. ASSUME NEW k \in 1..Len(rest), NEW x \in Needs(rest[k])
          PROVE  x \in D \cup GivenBefore(rest, k)
      <3>1. k + 1 \in 1..Len(calls) /\ rest[k] = calls[k + 1]
        BY <1>2
      <3>2. x \in Done \cup GivenBefore(calls, k + 1)
        BY <1>1, <2>1, <3>1
      <3>3. CASE x \in Done
        BY <1>4, <3>3
      <3>4. CASE x \in GivenBefore(calls, k + 1)
        <4>1. PICK j \in 1..(k + 1) - 1 : x \in Gives(calls[j])
          BY <3>4 DEF GivenBefore
        <4>2. CASE j = 1
          BY <1>2, <1>4, <4>1, <4>2
        <4>3. CASE j # 1
          <5>1. PICK i : i = j - 1
            OBVIOUS
          <5>2. i \in 1..(k - 1) /\ i \in 1..Len(rest) /\ i + 1 = j
            BY <1>2, <4>1, <4>3, <5>1
          <5>3. x \in Gives(rest[i])
            BY <1>2, <4>1, <5>2
          <5> QED
            BY <5>2, <5>3 DEF GivenBefore
        <4> QED
          BY <4>2, <4>3
      <3> QED
        BY <3>2, <3>3, <3>4
    <2> QED
      BY <1>2, <2>1 DEF Plan
  <1> QED
    BY <1>2, <1>3, <1>4 DEF rest

\* A device hands out one of its ports, and leaves the next one behind.
LEMMA ReservedPorts ==
    ASSUME GeneratorInv, NEW next, Numbered(next), NEW d \in Devices,
           Own(recipe, d) => d \in DOMAIN minPort /\ d \in DOMAIN maxPort
    PROVE  /\ NextPort(next, d) \in Nat
           /\ Own(recipe, d) => NextPort(next, d) \in 1..PortCount(recipe, d)
           /\ DOMAIN Reserved(next, d) = DOMAIN next \cup {d}
           /\ Numbered(Reserved(next, d))
  <1>0. Buildable(recipe) /\ MapsInv
    BY DEF GeneratorInv
  <1>1. NextPort(next, d) \in Nat /\ (Own(recipe, d) => NextPort(next, d) \in 1..PortCount(recipe, d))
    BY <1>0, PortCounts DEF NextPort, Numbered
  <1>2. Of(minPort, d) \in Nat
    BY <1>0 DEF Of, MapsInv
  <1>3. Own(recipe, d) => /\ Of(minPort, d) \in 1..PortCount(recipe, d)
                         /\ Of(maxPort, d) = PortCount(recipe, d)
    BY <1>0 DEF Of, MapsInv
  <1>4. PICK after : after = NextPort(next, d) + 1
    OBVIOUS
  <1>5. PICK v : v = IF after > Of(maxPort, d) THEN Of(minPort, d) ELSE after
    OBVIOUS
  <1>6. v \in Nat
    BY <1>1, <1>2, <1>4, <1>5
  <1>7. Own(recipe, d) => v \in 1..PortCount(recipe, d)
    BY <1>0, <1>1, <1>3, <1>4, <1>5, PortCounts
  <1>8. Reserved(next, d) = Put(next, d, v)
    BY <1>4, <1>5 DEF Reserved
  <1>9. /\ DOMAIN Reserved(next, d) = DOMAIN next \cup {d}
        /\ \A e \in DOMAIN next \cup {d} : Reserved(next, d)[e] = IF e = d THEN v ELSE next[e]
    BY <1>8 DEF Put
  <1>10. Numbered(Reserved(next, d))
    BY <1>6, <1>7, <1>9 DEF Numbered
  <1> QED
    BY <1>1, <1>9, <1>10

\* A topology that grows keeps what it is known to hold.
LEMMA LinkIsAdded ==
    ASSUME GeneratorInv, recipe' = recipe, NEW link \in LinkRecords,
           topology' = [topology EXCEPT !.links = Append(@, link)],
           Made(link.src), link.src.device # link.tgt.device,
           ~ link.unidirectional => Made(link.tgt)
    PROVE  TopologyInv' /\ DeviceIDs(topology') = DeviceIDs(topology)
  <1>1. topology \in Topologies /\ TopologyInv
    BY DEF GeneratorInv, TopologyInv
  <1>2. /\ topology.links \in Seq(LinkRecords)
        /\ topology'.links = Append(topology.links, link)
        /\ topology'.devices = topology.devices /\ topology'.nics = topology.nics
    <2> HIDE DEF LinkRecords, DeviceRecords, NicRecords
    <2> QED
      BY <1>1 DEF Topologies
  <1>3. /\ Append(topology.links, link) \in Seq(LinkRecords)
        /\ Elements(topology'.links) = Elements(topology.links) \cup {link}
    BY <1>2, AppendElements
  <1>4. topology' \in Topologies
    <2> HIDE DEF LinkRecords, DeviceRecords, NicRecords
    <2> QED
      BY <1>1, <1>3 DEF Topologies
  <1>5. DeviceIDs(topology') = DeviceIDs(topology)
    BY <1>2 DEF DeviceIDs
  <1>6. \A p : Made(p)' <=> Made(p)
    BY <1>5 DEF Made
  <1> QED
    BY <1>1, <1>2, <1>3, <1>4, <1>5, <1>6 DEF TopologyInv

\* What the kind of a call says of it.
LEMMA CallKinds ==
    ASSUME NEW r, NEW c \in Allowed(r)
    PROVE  /\ c.call = "createSwitch" => c \in Switches(r)
           /\ c.call = "createLink" => c \in LocalLinks(r)
           /\ c.call = "createExternalLink" => c \in FarLinks(r)
           /\ c.call = "createNIC" => c \in Nics(r)
           /\ c.call = "latch" => c \in Latches(r)
           /\ c.call = "startAt" => c \in Starts(r)
           /\ c.call = "endAt" => c \in EndAts(r)
  <1>1. /\ \A x \in Switches(r) : x.call = "createSwitch"
        /\ \A x \in LocalLinks(r) : x.call = "createLink"
        /\ \A x \in FarLinks(r) : x.call = "createExternalLink"
        /\ \A x \in Nics(r) : x.call = "createNIC"
        /\ \A x \in Latches(r) : x.call = "latch"
        /\ \A x \in Starts(r) : x.call = "startAt"
        /\ \A x \in EndAts(r) : x.call = "endAt"
        /\ \A x \in Saves : x.call = "savePod"
    BY DEF Switches, LocalLinks, FarLinks, Nics, Latches, Starts, EndAts, Saves
  <1> QED
    BY <1>1 DEF Allowed

\* The devices of the topology are those of this simulation, and have a row in each map.
LEMMA KnownDevices ==
    ASSUME GeneratorInv, NEW d, There(d) \in Done
    PROVE  d \in DeviceIDs(topology) /\ d \in DOMAIN minPort /\ d \in DOMAIN maxPort
  <1>1. d \in DeviceIDs(topology)
    BY DEF Done, There, Linked
  <1> QED
    BY <1>1 DEF GeneratorInv, MapsInv

\* A call that leaves the topology alone and adds to what was done leaves calls that can be made.
LEMMA CallsGoOn ==
    ASSUME GeneratorInv, calls # <<>>, calls' = Tail(calls), recipe' = recipe,
           Done \cup Gives(Head(calls)) \subseteq Done'
    PROVE  calls' \in Plan(recipe', Done', {})
  BY NextCall

LEMMA CreateSwitchKeeps ==
    ASSUME GeneratorInv, CreateSwitch
    PROVE  GeneratorInv'
  <1>1. PICK c : c = Head(calls)
    OBVIOUS
  <1> DEFINE new == [id |-> c.device, agentPort |-> 20000 + agentPort, ports |-> c.portCount]
  <1>2. /\ calls # <<>> /\ c.call = "createSwitch" /\ calls' = Tail(calls) /\ recipe' = recipe
        /\ topology' = [topology EXCEPT !.devices = Append(@, new)]
        /\ minPort' = Put(minPort, c.device, 1) /\ maxPort' = Put(maxPort, c.device, c.portCount)
        /\ agentPort' = agentPort + 1 /\ nextPort' = nextPort
    BY <1>1 DEF CreateSwitch, Calling
  <1>3. c \in Switches(recipe)
    BY <1>1, <1>2, NextCall, CallKinds
  <1>4. /\ c.device \in Devices /\ Own(recipe, c.device) /\ c.portCount \in Nat
        /\ c.portCount = PortCount(recipe, c.device)
    BY <1>3 DEF Switches
  <1>5. Buildable(recipe) /\ agentPort \in Nat /\ MapsInv /\ TopologyInv /\ topology \in Topologies
    BY DEF GeneratorInv, TopologyInv
  <1>6. new \in DeviceRecords /\ new.id = c.device /\ new.ports = c.portCount
    <2>1. 20000 + agentPort \in Nat
      BY <1>5
    <2> QED
      BY <1>4, <2>1 DEF DeviceRecords
  <1> HIDE DEF new
  <1>7. /\ topology.devices \in Seq(DeviceRecords)
        /\ topology'.devices = Append(topology.devices, new)
        /\ topology'.links = topology.links /\ topology'.nics = topology.nics
    <2> HIDE DEF LinkRecords, DeviceRecords, NicRecords
    <2> QED
      BY <1>2, <1>5 DEF Topologies
  <1>8. /\ Append(topology.devices, new) \in Seq(DeviceRecords)
        /\ Elements(topology'.devices) = Elements(topology.devices) \cup {new}
    BY <1>6, <1>7, AppendElements
  <1>9. topology' \in Topologies
    <2> HIDE DEF LinkRecords, DeviceRecords, NicRecords
    <2> QED
      BY <1>2, <1>5, <1>8 DEF Topologies
  <1>10. DeviceIDs(topology') = DeviceIDs(topology) \cup {c.device}
    BY <1>6, <1>8 DEF DeviceIDs
  <1>11. TopologyInv'
    <2>1. \A p : Made(p) => Made(p)'
      BY <1>2, <1>10 DEF Made
    <2> QED
      BY <1>2, <1>4, <1>5, <1>6, <1>7, <1>8, <1>9, <2>1 DEF TopologyInv
  <1>12. MapsInv'
    <2>1. PortCount(recipe, c.device) \in Nat \ {0}
      BY <1>4, <1>5, PortCounts
    <2>2. /\ DOMAIN minPort' = DOMAIN minPort \cup {c.device}
          /\ DOMAIN maxPort' = DOMAIN maxPort \cup {c.device}
          /\ \A e \in DOMAIN minPort' : minPort'[e] = IF e = c.device THEN 1 ELSE minPort[e]
          /\ \A e \in DOMAIN maxPort' : maxPort'[e] = IF e = c.device THEN c.portCount ELSE maxPort[e]
      BY <1>2 DEF Put
    <2>3. Numbered(nextPort)'
      BY <1>2, <1>5 DEF MapsInv, Numbered
    <2>4. /\ DOMAIN minPort' \subseteq Devices /\ DOMAIN maxPort' \subseteq Devices
          /\ DeviceIDs(topology') \subseteq DOMAIN minPort' \cap DOMAIN maxPort'
      BY <1>4, <1>5, <1>10, <2>2 DEF MapsInv
    <2>5. ASSUME NEW d \in DOMAIN minPort'
          PROVE  minPort'[d] \in 1..PortCount(recipe, d)
      BY <1>4, <1>5, <2>1, <2>2 DEF MapsInv
    <2>6. ASSUME NEW d \in DOMAIN maxPort', Own(recipe, d)
          PROVE  maxPort'[d] = PortCount(recipe, d)
      BY <1>4, <1>5, <2>2, <2>6 DEF MapsInv
    <2> QED
      BY <1>2, <2>3, <2>4, <2>5, <2>6 DEF MapsInv
  <1>13. Gives(c) = {There(c.device)}
    BY <1>2 DEF Gives
  <1>14. Done \cup Gives(Head(calls)) \subseteq Done'
    BY <1>1, <1>2, <1>10, <1>13 DEF Done
  <1>15. calls' \in Plan(recipe', Done', {})
    BY <1>2, <1>14, CallsGoOn
  <1> QED
    BY <1>2, <1>5, <1>11, <1>12, <1>15 DEF GeneratorInv

\* A port handed out twice in a row, and what is known of it.
LEMMA CreateLinkKeeps ==
    ASSUME GeneratorInv, CreateLink
    PROVE  GeneratorInv'
  <1>1. PICK c : c = Head(calls)
    OBVIOUS
  <1> DEFINE once == Reserved(nextPort, c.src)
             link == [src |-> Port(c.src, NextPort(nextPort, c.src)),
                      tgt |-> Port(c.tgt, NextPort(once, c.tgt)), unidirectional |-> FALSE]
  <1>2. /\ calls # <<>> /\ c.call = "createLink" /\ calls' = Tail(calls) /\ recipe' = recipe
        /\ topology' = [topology EXCEPT !.links = Append(@, link)]
        /\ nextPort' = Reserved(once, c.tgt)
        /\ UNCHANGED <<agentPort, minPort, maxPort>>
    BY <1>1 DEF CreateLink, Calling
  <1>3. c \in LocalLinks(recipe) /\ Needs(c) \subseteq Done
    BY <1>1, <1>2, NextCall, CallKinds
  <1>4. /\ c.src \in Devices /\ c.tgt \in Devices /\ Own(recipe, c.src) /\ Own(recipe, c.tgt)
        /\ c.src # c.tgt
    BY <1>3 DEF LocalLinks
  <1>5. There(c.src) \in Done /\ There(c.tgt) \in Done
    BY <1>2, <1>3 DEF Needs
  <1>6. \A d \in {c.src, c.tgt} : d \in DeviceIDs(topology) /\ d \in DOMAIN minPort /\ d \in DOMAIN maxPort
    BY <1>5, KnownDevices
  <1>7. Buildable(recipe) /\ agentPort \in Nat /\ MapsInv
    BY DEF GeneratorInv
  <1>8. /\ NextPort(nextPort, c.src) \in Nat
        /\ NextPort(nextPort, c.src) \in 1..PortCount(recipe, c.src)
        /\ DOMAIN once = DOMAIN nextPort \cup {c.src} /\ Numbered(once)
    <2>1. Numbered(nextPort)
      BY <1>7 DEF MapsInv
    <2> QED
      BY <1>4, <1>6, <2>1, ReservedPorts
  <1> HIDE DEF once
  <1>9. /\ NextPort(once, c.tgt) \in Nat
        /\ NextPort(once, c.tgt) \in 1..PortCount(recipe, c.tgt)
        /\ DOMAIN nextPort' = DOMAIN once \cup {c.tgt} /\ Numbered(Reserved(once, c.tgt))
    BY <1>2, <1>4, <1>6, <1>8, ReservedPorts
  <1>10. Numbered(nextPort)'
    BY <1>2, <1>9 DEF Numbered
  <1>11. /\ link.src = Port(c.src, NextPort(nextPort, c.src))
         /\ link.tgt = Port(c.tgt, NextPort(once, c.tgt))
         /\ link.unidirectional = FALSE
         /\ \A d, n : Port(d, n).device = d /\ Port(d, n).number = n
    BY DEF Port
  <1>12. link \in LinkRecords
    <2>1. \A d \in Devices, n \in Nat : Port(d, n) \in Ports
      BY DEF Port, Ports
    <2>2. link \in [src : Ports, tgt : Ports, unidirectional : {FALSE}]
      BY <1>4, <1>8, <1>9, <2>1
    <2> HIDE DEF link
    <2> QED
      BY <2>2 DEF LinkRecords
  <1> HIDE DEF link
  <1>13. Made(link.src) /\ Made(link.tgt) /\ link.src.device # link.tgt.device
    BY <1>4, <1>6, <1>8, <1>9, <1>11 DEF Made
  <1>14. TopologyInv' /\ DeviceIDs(topology') = DeviceIDs(topology)
    BY <1>2, <1>12, <1>13, LinkIsAdded
  <1>15. MapsInv'
    BY <1>2, <1>7, <1>10, <1>14 DEF MapsInv
  <1>16. Gives(c) = {Linked(c.src), Linked(c.tgt)}
    BY <1>2 DEF Gives
  <1>17. Done \cup Gives(Head(calls)) \subseteq Done'
    BY <1>1, <1>8, <1>9, <1>14, <1>16 DEF Done
  <1>18. calls' \in Plan(recipe', Done', {})
    BY <1>2, <1>17, CallsGoOn
  <1> QED
    BY <1>2, <1>7, <1>14, <1>15, <1>18 DEF GeneratorInv

LEMMA CreateExternalLinkKeeps ==
    ASSUME GeneratorInv, CreateExternalLink
    PROVE  GeneratorInv'
  <1>1. PICK c : c = Head(calls)
    OBVIOUS
  <1> DEFINE once == Reserved(nextPort, c.d1)
             p1 == Port(c.d1, NextPort(nextPort, c.d1))
             p2 == Port(c.d2, NextPort(nextPort, c.d2))
             link == ExternalLink(p1, c.pod, p2)
  <1>2. /\ calls # <<>> /\ c.call = "createExternalLink" /\ calls' = Tail(calls) /\ recipe' = recipe
        /\ topology' = [topology EXCEPT !.links = Append(@, link)]
        /\ nextPort' = Reserved(once, c.d2)
        /\ UNCHANGED <<agentPort, minPort, maxPort>>
    BY <1>1 DEF CreateExternalLink, Calling
  <1>3. c \in FarLinks(recipe) /\ Needs(c) \subseteq Done
    BY <1>1, <1>2, NextCall, CallKinds
  <1>4. /\ c.d1 \in Devices /\ c.d2 \in Devices /\ Own(recipe, c.d1) /\ ~ Own(recipe, c.d2)
        /\ c.pod \in Nat
    BY <1>3 DEF FarLinks
  <1>5. c.d1 \in DeviceIDs(topology) /\ c.d1 \in DOMAIN minPort /\ c.d1 \in DOMAIN maxPort
    <2>1. There(c.d1) \in Done
      BY <1>2, <1>3 DEF Needs
    <2> QED
      BY <2>1, KnownDevices
  <1>6. Buildable(recipe) /\ agentPort \in Nat /\ MapsInv /\ Numbered(nextPort)
    BY DEF GeneratorInv, MapsInv
  <1>7. /\ NextPort(nextPort, c.d1) \in Nat
        /\ NextPort(nextPort, c.d1) \in 1..PortCount(recipe, c.d1)
        /\ DOMAIN once = DOMAIN nextPort \cup {c.d1} /\ Numbered(once)
        /\ NextPort(nextPort, c.d2) \in Nat
    BY <1>4, <1>5, <1>6, ReservedPorts
  <1> HIDE DEF once
  <1>8. DOMAIN nextPort' = DOMAIN once \cup {c.d2} /\ Numbered(Reserved(once, c.d2))
    BY <1>2, <1>4, <1>7, ReservedPorts
  <1>9. Numbered(nextPort)'
    BY <1>2, <1>8 DEF Numbered
  <1>10. /\ p1 \in Ports /\ p1.device = c.d1 /\ p1.number = NextPort(nextPort, c.d1)
         /\ p2 = [device |-> c.d2, number |-> NextPort(nextPort, c.d2)]
    BY <1>4, <1>7 DEF Port, Ports
  <1> HIDE DEF p1, p2
  <1>11. PICK far : far = [device |-> [domain |-> c.pod, id |-> c.d2],
                           number |-> NextPort(nextPort, c.d2)]
    OBVIOUS
  <1>12. Elsewhere(c.pod, p2) = far
    BY <1>10, <1>11 DEF Elsewhere
  <1>13. link.src = p1 /\ link.tgt = far /\ link.unidirectional = TRUE
         /\ link = [src |-> p1, tgt |-> far, unidirectional |-> TRUE]
    BY <1>12 DEF ExternalLink
  <1>14. far \in FarPorts /\ far.device = [domain |-> c.pod, id |-> c.d2]
    BY <1>4, <1>7, <1>11 DEF FarPorts
  <1> HIDE DEF link
  <1>15. link \in LinkRecords
    BY <1>10, <1>13, <1>14 DEF LinkRecords
  <1>16. link.src.device # link.tgt.device
    <2>1. DOMAIN c.d1 = {"kind", "index"}
      BY <1>4 DEF Devices
    <2>2. DOMAIN far.device = {"domain", "id"}
      BY <1>14
    <2>3. "kind" \in DOMAIN c.d1 /\ "kind" \notin DOMAIN far.device
      BY <2>1, <2>2
    <2> QED
      BY <1>10, <1>13, <2>3
  <1>17. Made(link.src)
    BY <1>5, <1>7, <1>10, <1>13 DEF Made
  <1>18. TopologyInv' /\ DeviceIDs(topology') = DeviceIDs(topology)
    BY <1>2, <1>13, <1>15, <1>16, <1>17, LinkIsAdded
  <1>19. MapsInv'
    BY <1>2, <1>6, <1>9, <1>18 DEF MapsInv
  <1>20. Gives(c) = {}
    BY <1>2 DEF Gives
  <1>21. Done \cup Gives(Head(calls)) \subseteq Done'
    BY <1>1, <1>7, <1>8, <1>18, <1>20 DEF Done
  <1>22. calls' \in Plan(recipe', Done', {})
    BY <1>2, <1>21, CallsGoOn
  <1> QED
    BY <1>2, <1>6, <1>18, <1>19, <1>22 DEF GeneratorInv

LEMMA CreateNICKeeps ==
    ASSUME GeneratorInv, CreateNIC
    PROVE  GeneratorInv'
  <1>1. PICK c : c = Head(calls)
    OBVIOUS
  <1> DEFINE nic == [host |-> c.host, address |-> <<c.rack, c.leaf, c.hostID>>,
                     port |-> Port(c.device, NextPort(nextPort, c.device))]
  <1>2. /\ calls # <<>> /\ c.call = "createNIC" /\ calls' = Tail(calls) /\ recipe' = recipe
        /\ topology' = [topology EXCEPT !.nics = Append(@, nic)]
        /\ nextPort' = Reserved(nextPort, c.device)
        /\ UNCHANGED <<agentPort, minPort, maxPort>>
    BY <1>1 DEF CreateNIC, Calling
  <1>3. c \in Nics(recipe) /\ Needs(c) \subseteq Done
    BY <1>1, <1>2, NextCall, CallKinds
  <1>4. /\ c.device \in Devices /\ Own(recipe, c.device)
        /\ c.host \in Hosts /\ c.rack \in Nat /\ c.leaf \in Nat /\ c.hostID \in Nat
    <2> HIDE DEF Hosts, Devices
    <2> QED
      BY <1>3 DEF Nics
  <1>5. c.device \in DeviceIDs(topology) /\ c.device \in DOMAIN minPort /\ c.device \in DOMAIN maxPort
    <2>1. There(c.device) \in Done
      BY <1>2, <1>3 DEF Needs
    <2> QED
      BY <2>1, KnownDevices
  <1>6. /\ Buildable(recipe) /\ agentPort \in Nat /\ MapsInv /\ Numbered(nextPort)
        /\ TopologyInv /\ topology \in Topologies
    BY DEF GeneratorInv, MapsInv, TopologyInv
  <1>7. /\ NextPort(nextPort, c.device) \in Nat
        /\ NextPort(nextPort, c.device) \in 1..PortCount(recipe, c.device)
        /\ DOMAIN nextPort' = DOMAIN nextPort \cup {c.device} /\ Numbered(Reserved(nextPort, c.device))
    BY <1>2, <1>4, <1>5, <1>6, ReservedPorts
  <1>8. Numbered(nextPort)'
    BY <1>2, <1>7 DEF Numbered
  <1>9. /\ nic.port.device = c.device /\ nic.port.number = NextPort(nextPort, c.device)
        /\ nic \in NicRecords
    <2>1. /\ Port(c.device, NextPort(nextPort, c.device)).device = c.device
          /\ Port(c.device, NextPort(nextPort, c.device)).number = NextPort(nextPort, c.device)
          /\ Port(c.device, NextPort(nextPort, c.device)) \in Ports
      BY <1>4, <1>7 DEF Port, Ports
    <2> HIDE DEF Hosts, Ports
    <2> QED
      BY <1>4, <2>1 DEF NicRecords
  <1> HIDE DEF nic
  <1>10. /\ topology.nics \in Seq(NicRecords)
         /\ topology'.nics = Append(topology.nics, nic)
         /\ topology'.links = topology.links /\ topology'.devices = topology.devices
    <2> HIDE DEF LinkRecords, DeviceRecords, NicRecords
    <2> QED
      BY <1>2, <1>6 DEF Topologies
  <1>11. /\ Append(topology.nics, nic) \in Seq(NicRecords)
         /\ Elements(topology'.nics) = Elements(topology.nics) \cup {nic}
    BY <1>9, <1>10, AppendElements
  <1>12. topology' \in Topologies
    <2> HIDE DEF LinkRecords, DeviceRecords, NicRecords
    <2> QED
      BY <1>2, <1>6, <1>11 DEF Topologies
  <1>13. DeviceIDs(topology') = DeviceIDs(topology)
    BY <1>10 DEF DeviceIDs
  <1>14. TopologyInv'
    <2>1. \A p : Made(p)' <=> Made(p)
      BY <1>2, <1>13 DEF Made
    <2>2. Made(nic.port)
      BY <1>5, <1>7, <1>9 DEF Made
    <2> QED
      BY <1>2, <1>6, <1>10, <1>11, <1>12, <2>1, <2>2 DEF TopologyInv
  <1>15. MapsInv'
    BY <1>2, <1>6, <1>8, <1>13 DEF MapsInv
  <1>16. Gives(c) = {}
    BY <1>2 DEF Gives
  <1>17. Done \cup Gives(Head(calls)) \subseteq Done'
    BY <1>1, <1>7, <1>13, <1>16 DEF Done
  <1>18. calls' \in Plan(recipe', Done', {})
    BY <1>2, <1>17, CallsGoOn
  <1> QED
    BY <1>2, <1>6, <1>14, <1>15, <1>18 DEF GeneratorInv

LEMMA MapStepsKeep ==
    ASSUME GeneratorInv, LatchMinPort \/ StartAtPort \/ EndAtPort
    PROVE  GeneratorInv'
  <1>1. PICK c : c = Head(calls)
    OBVIOUS
  <1>2. /\ calls # <<>> /\ calls' = Tail(calls) /\ recipe' = recipe
        /\ topology' = topology /\ agentPort' = agentPort
        /\ c.call \in {"latch", "startAt", "endAt"}
    BY <1>1 DEF LatchMinPort, StartAtPort, EndAtPort, Calling
  <1>3. Buildable(recipe) /\ agentPort \in Nat /\ MapsInv /\ TopologyInv
    BY DEF GeneratorInv
  <1>4. c \in Allowed(recipe) /\ Needs(c) \subseteq Done
    BY <1>1, <1>2, NextCall
  <1>5. MapsInv' /\ DOMAIN nextPort \subseteq DOMAIN nextPort'
    <2>1. CASE LatchMinPort
      <3>1. /\ c.call = "latch" /\ minPort' = Put(minPort, c.device, Of(nextPort, c.device))
            /\ nextPort' = nextPort /\ maxPort' = maxPort
        BY <1>1, <2>1 DEF LatchMinPort, Calling
      <3>2. c.device \in Devices /\ Own(recipe, c.device)
        <4>1. c \in Latches(recipe)
          BY <1>4, <3>1, CallKinds
        <4> QED
          BY <4>1 DEF Latches
      <3>3. c.device \in DOMAIN nextPort
        <4>1. Linked(c.device) \in Done
          BY <1>4, <3>1 DEF Needs
        <4> QED
          BY <4>1 DEF Done, There, Linked
      <3>4. Of(nextPort, c.device) \in 1..PortCount(recipe, c.device)
        BY <1>3, <3>2, <3>3 DEF Of, MapsInv, Numbered
      <3>5. /\ DOMAIN minPort' = DOMAIN minPort \cup {c.device}
            /\ \A e \in DOMAIN minPort' :
                 minPort'[e] = IF e = c.device THEN Of(nextPort, c.device) ELSE minPort[e]
        BY <3>1 DEF Put
      <3>6. Numbered(nextPort)'
        BY <1>2, <1>3, <3>1 DEF MapsInv, Numbered
      <3> QED
        BY <1>2, <1>3, <3>1, <3>2, <3>4, <3>5, <3>6 DEF MapsInv
    <2>2. CASE StartAtPort
      <3>1. /\ c.call = "startAt" /\ nextPort' = Put(nextPort, c.device, c.port)
            /\ minPort' = minPort /\ maxPort' = maxPort
        BY <1>1, <2>2 DEF StartAtPort, Calling
      <3>2. c.device \in Devices /\ c.port \in Nat /\ c.port \in 1..PortCount(recipe, c.device)
        <4>1. c \in Starts(recipe)
          BY <1>4, <3>1, CallKinds
        <4> QED
          BY <4>1 DEF Starts
      <3>3. /\ DOMAIN nextPort' = DOMAIN nextPort \cup {c.device}
            /\ \A e \in DOMAIN nextPort' : nextPort'[e] = IF e = c.device THEN c.port ELSE nextPort[e]
        BY <3>1 DEF Put
      <3>4. Numbered(nextPort)'
        BY <1>2, <1>3, <3>2, <3>3 DEF MapsInv, Numbered
      <3> QED
        BY <1>2, <1>3, <3>1, <3>3, <3>4 DEF MapsInv
    <2>3. CASE EndAtPort
      <3>1. /\ c.call = "endAt" /\ maxPort' = Put(maxPort, c.device, c.port)
            /\ minPort' = minPort /\ nextPort' = nextPort
        BY <1>1, <2>3 DEF EndAtPort, Calling
      <3>2. c.device \in Devices /\ ~ Own(recipe, c.device)
        <4>1. c \in EndAts(recipe)
          BY <1>4, <3>1, CallKinds
        <4> QED
          BY <4>1 DEF EndAts
      <3>3. /\ DOMAIN maxPort' = DOMAIN maxPort \cup {c.device}
            /\ \A e \in DOMAIN maxPort' : maxPort'[e] = IF e = c.device THEN c.port ELSE maxPort[e]
        BY <3>1 DEF Put
      <3>4. Numbered(nextPort)'
        BY <1>2, <1>3, <3>1 DEF MapsInv, Numbered
      <3> QED
        BY <1>2, <1>3, <3>1, <3>2, <3>3, <3>4 DEF MapsInv
    <2> QED
      BY <2>1, <2>2, <2>3
  <1>6. TopologyInv'
    <2>1. \A p : Made(p)' <=> Made(p)
      BY <1>2 DEF Made
    <2> QED
      BY <1>2, <1>3, <2>1 DEF TopologyInv
  <1>7. Gives(c) = {}
    BY <1>2 DEF Gives
  <1>8. Done \cup Gives(Head(calls)) \subseteq Done'
    BY <1>1, <1>2, <1>5, <1>7 DEF Done
  <1>9. calls' \in Plan(recipe', Done', {})
    BY <1>2, <1>8, CallsGoOn
  <1> QED
    BY <1>2, <1>3, <1>5, <1>6, <1>9 DEF GeneratorInv

\* Saving touches none of what the invariant speaks of, but for the calls.
LEMMA SavesKeep ==
    ASSUME GeneratorInv,
           SavePodTopology \/ PodNotSaved \/ SaveTopology \/ UNCHANGED vars
    PROVE  GeneratorInv'
  <1>1. UNCHANGED <<recipe, agentPort, nextPort, minPort, maxPort, topology>>
    BY DEF SavePodTopology, PodNotSaved, SaveTopology, Calling, builderVars, vars
  <1>2. Done' = Done
    BY <1>1 DEF Done
  <1>3. calls' \in Plan(recipe, Done, {})
    <2>1. CASE SavePodTopology
      <3>1. calls # <<>> /\ calls' = Tail(calls) /\ Head(calls).call = "savePod"
        BY <2>1 DEF SavePodTopology, Calling
      <3>2. Gives(Head(calls)) = {}
        BY <3>1 DEF Gives
      <3>3. Done \cup Gives(Head(calls)) \subseteq Done'
        BY <1>2, <3>2
      <3>4. calls' \in Plan(recipe', Done', {})
        BY <1>1, <3>1, <3>3, CallsGoOn
      <3> QED
        BY <1>1, <1>2, <3>4
    <2>2. CASE PodNotSaved
      <3>1. calls' = <<>>
        BY <2>2 DEF PodNotSaved
      <3> QED
        BY <3>1, PlanNothing
    <2>3. CASE SaveTopology \/ UNCHANGED vars
      <3>1. calls' = calls
        BY <2>3 DEF SaveTopology, vars
      <3> QED
        BY <3>1 DEF GeneratorInv
    <2> QED
      BY <2>1, <2>2, <2>3
  <1>4. MapsInv'
    BY <1>1 DEF GeneratorInv, MapsInv, Numbered
  <1>5. TopologyInv'
    <2>1. \A p : Made(p)' <=> Made(p)
      BY <1>1 DEF Made
    <2> QED
      BY <1>1, <2>1 DEF GeneratorInv, TopologyInv
  <1> QED
    BY <1>1, <1>2, <1>3, <1>4, <1>5 DEF GeneratorInv

------------------------------------------------------------------------------
\* What the topology has in every state.

LEMMA GeneratorInvariant == Spec => []GeneratorInv
  <1>1. Init => GeneratorInv
    <2> SUFFICES ASSUME Init PROVE GeneratorInv
      OBVIOUS
    <2>1. Buildable(recipe) /\ agentPort \in Nat
      BY RecipesAssumption DEF Init
    <2>2. topology.devices = <<>> /\ topology.links = <<>> /\ topology.nics = <<>>
          /\ topology \in Topologies
      <3> HIDE DEF DeviceRecords, LinkRecords, NicRecords
      <3> QED
        BY DEF Init, Nothing, Topologies
    <2>3. /\ Elements(topology.devices) = {} /\ Elements(topology.links) = {}
          /\ Elements(topology.nics) = {}
      <3>1. Len(<<>>) = 0
        OBVIOUS
      <3> QED
        BY <2>2, <3>1 DEF Elements
    <2>4. DeviceIDs(topology) = {}
      BY <2>3 DEF DeviceIDs
    <2>5. DOMAIN nextPort = {} /\ DOMAIN minPort = {} /\ DOMAIN maxPort = {}
      BY DEF Init, None
    <2>6. Done = {}
      BY <2>4, <2>5 DEF Done
    <2>7. calls \in Plan(recipe, Done, {})
      BY <2>1, <2>6, CallsArePlanned DEF Init
    <2>8. MapsInv
      BY <2>4, <2>5 DEF MapsInv, Numbered
    <2>9. TopologyInv
      BY <2>2, <2>3 DEF TopologyInv
    <2> QED
      BY <2>1, <2>7, <2>8, <2>9 DEF GeneratorInv
  <1>2. GeneratorInv /\ [Next]_vars => GeneratorInv'
    BY CreateSwitchKeeps, CreateLinkKeeps, CreateExternalLinkKeeps, CreateNICKeeps,
       MapStepsKeep, SavesKeep DEF Next
  <1> QED
    BY <1>1, <1>2, PTL DEF Spec

LEMMA MadeHasPort ==
    ASSUME TopologyInv, NEW p, Made(p)
    PROVE  HasPort(topology, p)
  <1>1. PICK d \in Elements(topology.devices) : d.id = p.device
    BY DEF Made, DeviceIDs
  <1>2. d.ports = PortCount(recipe, p.device)
    BY <1>1 DEF TopologyInv
  <1>3. PICK i \in 1..Len(topology.devices) : topology.devices[i] = d
    BY DEF Elements
  <1> QED
    BY <1>1, <1>2, <1>3 DEF HasPort, Made

\* Whatever a recipe asks for, every link and every interface of the topology is on
\* a port that its device has in the file, whether or not the ports wrapped round.
THEOREM PortsAreMade == Spec => []PortsExist
  <1>1. GeneratorInv => PortsExist
    <2> SUFFICES ASSUME GeneratorInv
                 PROVE  /\ \A end \in LocalEnds(topology) : HasPort(topology, PortAt(topology, end))
                        /\ ~ NetcfgPanics(topology)
      BY DEF PortsExist
    <2>1. TopologyInv /\ topology \in Topologies
      BY DEF GeneratorInv, TopologyInv
    <2>2. \A p : Made(p) => HasPort(topology, p)
      BY <2>1, MadeHasPort
    <2>3. ASSUME NEW l \in Elements(topology.links)
          PROVE  Made(l.src) /\ (IsLocal(l.tgt) => Made(l.tgt))
      <3>1. /\ Made(l.src) /\ (~ l.unidirectional => Made(l.tgt))
        BY <2>1 DEF TopologyInv
      <3>2. l \in LinkRecords
        <4> HIDE DEF LinkRecords, DeviceRecords, NicRecords
        <4> QED
          BY <2>1 DEF Topologies, Elements
      <3>3. CASE l.unidirectional
        <4>1. l.tgt \in FarPorts
          BY <3>2, <3>3 DEF LinkRecords
        <4>2. "domain" \in DOMAIN l.tgt.device
          BY <4>1 DEF FarPorts
        <4> QED
          BY <3>1, <4>2 DEF IsLocal
      <3> QED
        BY <3>1, <3>3
    <2>4. \A nic \in Elements(topology.nics) : Made(nic.port)
      BY <2>1 DEF TopologyInv
    <2>5. ASSUME NEW end \in LocalEnds(topology)
          PROVE  HasPort(topology, PortAt(topology, end))
      <3>1. end \in Ends(topology) /\ IsLocal(PortAt(topology, end))
        BY DEF LocalEnds
      <3>2. CASE end[1] = "src" \/ end[1] = "tgt"
        <4>1. end[2] \in 1..Len(topology.links)
          BY <3>1, <3>2 DEF Ends
        <4>2. topology.links[end[2]] \in Elements(topology.links)
          BY <4>1 DEF Elements
        <4> QED
          BY <2>2, <2>3, <3>1, <3>2, <4>2 DEF PortAt
      <3>3. CASE end[1] # "src" /\ end[1] # "tgt"
        <4>1. end[1] = "nic" /\ end[2] \in 1..Len(topology.nics)
          BY <3>1, <3>3 DEF Ends
        <4>2. topology.nics[end[2]] \in Elements(topology.nics)
          BY <4>1 DEF Elements
        <4> QED
          BY <2>2, <2>4, <4>1, <4>2 DEF PortAt
      <3> QED
        BY <3>2, <3>3
    <2>6. ASSUME NEW nic \in Elements(topology.nics)
          PROVE  SDNNumber(topology, nic.port) # 0
      <3>1. HasPort(topology, nic.port) /\ nic.port.number \in 1..PortCount(recipe, nic.port.device)
        BY <2>2, <2>4 DEF Made
      <3> QED
        BY <3>1 DEF SDNNumber
    <2> QED
      BY <2>5, <2>6 DEF NetcfgPanics
  <1> QED
    BY <1>1, GeneratorInvariant, PTL

\* The robot file expects each link of both its devices, with the port numbers the
\* other way round, and no port of theirs is unknown to the controller.
THEOREM LinksAreExpectedTwice == Spec => []RobotExpectsBothEnds
  <1>1. GeneratorInv => RobotExpectsBothEnds
    <2> SUFFICES ASSUME GeneratorInv
                 PROVE  /\ \A k \in Elements(topology.links) :
                               /\ k.src.device \in DeviceIDs(topology)
                               /\ \E l \in RobotLinks(topology, k.src.device) :
                                      l.target = k.tgt.device /\ l.source = SDNNumber(topology, k.src)
                        /\ \A d \in DeviceIDs(topology) : \A l \in RobotLinks(topology, d) :
                               /\ l.source # 0
                               /\ l.target \in DeviceIDs(topology) =>
                                     [target |-> d, source |-> l.at, at |-> l.source]
                                         \in RobotLinks(topology, l.target)
      BY DEF RobotExpectsBothEnds
    <2>1. TopologyInv /\ topology \in Topologies
      BY DEF GeneratorInv, TopologyInv
    <2>2. \A e \in DeviceIDs(topology) : e \in Devices
      BY <2>1 DEF TopologyInv, DeviceIDs, Own
    <2>3. ASSUME NEW k \in Elements(topology.links)
          PROVE  /\ k.src.device # k.tgt.device
                 /\ k.tgt.device \in DeviceIDs(topology) => ~ k.unidirectional
      <3>1. k.src.device # k.tgt.device
        BY <2>1 DEF TopologyInv
      <3>2. k \in LinkRecords
        <4> HIDE DEF LinkRecords, DeviceRecords, NicRecords
        <4> QED
          BY <2>1 DEF Topologies, Elements
      <3>3. CASE k.unidirectional /\ k.tgt.device \in Devices
        <4>1. k.tgt \in FarPorts
          BY <3>2, <3>3 DEF LinkRecords
        <4>2. "domain" \in DOMAIN k.tgt.device /\ "domain" \notin DOMAIN k.tgt.device
          BY <3>3, <4>1 DEF FarPorts, Devices
        <4> QED
          BY <4>2
      <3> QED
        BY <2>2, <3>1, <3>3
    <2>4. ASSUME NEW k \in Elements(topology.links)
          PROVE  /\ k.src.device \in DeviceIDs(topology) /\ SDNNumber(topology, k.src) # 0
                 /\ ~ k.unidirectional => SDNNumber(topology, k.tgt) # 0
      <3>1. Made(k.src) /\ (~ k.unidirectional => Made(k.tgt))
        BY <2>1 DEF TopologyInv
      <3>2. ASSUME NEW p, Made(p)
            PROVE  SDNNumber(topology, p) # 0
        <4>1. HasPort(topology, p) /\ p.number \in 1..PortCount(recipe, p.device)
          BY <2>1, <3>2, MadeHasPort DEF Made
        <4> QED
          BY <4>1 DEF SDNNumber
      <3> QED
        BY <3>1, <3>2 DEF Made
    <2>5. ASSUME NEW k \in Elements(topology.links)
          PROVE  /\ k.src.device \in DeviceIDs(topology)
                 /\ \E l \in RobotLinks(topology, k.src.device) :
                        l.target = k.tgt.device /\ l.source = SDNNumber(topology, k.src)
      <3>1. [target |-> k.tgt.device, source |-> SDNNumber(topology, k.src),
             at |-> SDNNumber(topology, k.tgt)] \in RobotLinks(topology, k.src.device)
        BY DEF RobotLinks
      <3> QED
        BY <2>4, <3>1
    <2>6. ASSUME NEW d \in DeviceIDs(topology), NEW l \in RobotLinks(topology, d)
          PROVE  l.source # 0
      BY <2>4 DEF RobotLinks
    <2>7. ASSUME NEW d \in DeviceIDs(topology), NEW l \in RobotLinks(topology, d),
                 l.target \in DeviceIDs(topology)
          PROVE  [target |-> d, source |-> l.at, at |-> l.source] \in RobotLinks(topology, l.target)
      <3>1. CASE \E k \in Elements(topology.links) :
                    /\ k.src.device = d
                    /\ l = [target |-> k.tgt.device, source |-> SDNNumber(topology, k.src),
                            at |-> SDNNumber(topology, k.tgt)]
        <4>1. PICK k \in Elements(topology.links) :
                    /\ k.src.device = d
                    /\ l = [target |-> k.tgt.device, source |-> SDNNumber(topology, k.src),
                            at |-> SDNNumber(topology, k.tgt)]
          BY <3>1
        <4>2. k.src.device # l.target /\ ~ k.unidirectional /\ k.tgt.device = l.target
          BY <2>3, <2>7, <4>1
        <4>3. [target |-> k.src.device, source |-> SDNNumber(topology, k.tgt),
               at |-> SDNNumber(topology, k.src)] \in RobotLinks(topology, l.target)
          BY <4>2 DEF RobotLinks
        <4> QED
          BY <4>1, <4>3
      <3>2. CASE \E k \in Elements(topology.links) :
                    /\ k.src.device # d /\ ~ k.unidirectional /\ k.tgt.device = d
                    /\ l = [target |-> k.src.device, source |-> SDNNumber(topology, k.tgt),
                            at |-> SDNNumber(topology, k.src)]
        <4>1. PICK k \in Elements(topology.links) :
                    /\ k.src.device # d /\ ~ k.unidirectional /\ k.tgt.device = d
                    /\ l = [target |-> k.src.device, source |-> SDNNumber(topology, k.tgt),
                            at |-> SDNNumber(topology, k.src)]
          BY <3>2
        <4>2. k.src.device = l.target
          BY <4>1
        <4>3. [target |-> k.tgt.device, source |-> SDNNumber(topology, k.src),
               at |-> SDNNumber(topology, k.tgt)] \in RobotLinks(topology, l.target)
          BY <4>2 DEF RobotLinks
        <4> QED
          BY <4>1, <4>3
      <3> QED
        BY <2>7, <3>1, <3>2 DEF RobotLinks
    <2> QED
      BY <2>5, <2>6, <2>7
  <1> QED
    BY <1>1, GeneratorInvariant, PTL

------------------------------------------------------------------------------
\* What is left to ask for.

\* Ends that were put on a device so far are below its next port.
Below(d) == \A end \in LocalEnds(topology) :
                PortAt(topology, end).device = d => PortAt(topology, end).number < NextPort(nextPort, d)
Spare(d) == NextPort(nextPort, d) + Uses(calls, d) <= PortCount(recipe, d) + 1
Apart == \A e1, e2 \in LocalEnds(topology) : PortAt(topology, e1) = PortAt(topology, e2) => e1 = e2

\* Nothing was linked yet, and the first ports are not past those that are kept free;
\* or the first ports are behind, and what is asked for is still there.
Starting ==
    /\ topology.links = <<>> /\ topology.nics = <<>>
    /\ calls \in Fitting(recipe)
    /\ \A d \in Devices : Own(recipe, d) => NextPort(nextPort, d) <= First(recipe, d)
Running ==
    /\ calls \in Seq(Later(recipe))
    /\ \A d \in Devices : Own(recipe, d) => Uses(calls, d) = 0 \/ (Spare(d) /\ Below(d))
    /\ Apart
FitInv == Fits(recipe) => Starting \/ Running

\* The calls are those that were planned, and its ends lie on devices of the topology.
LEMMA KnownEnds ==
    ASSUME GeneratorInv, NEW end \in LocalEnds(topology)
    PROVE  PortAt(topology, end) \in {p \in Ports : Own(recipe, p.device)}
  <1>1. TopologyInv /\ topology \in Topologies
    BY DEF GeneratorInv, TopologyInv
  <1>2. \A p : Made(p) => Own(recipe, p.device)
    BY <1>1 DEF Made, DeviceIDs, TopologyInv
  <1>3. end \in Ends(topology) /\ IsLocal(PortAt(topology, end))
    BY DEF LocalEnds
  <1>4. CASE end[1] = "src" \/ end[1] = "tgt"
    <2>1. PICK l : l = topology.links[end[2]] /\ end[2] \in 1..Len(topology.links)
      BY <1>3, <1>4 DEF Ends
    <2>2. l \in Elements(topology.links)
      BY <2>1 DEF Elements
    <2>3. l \in LinkRecords
      <3> HIDE DEF LinkRecords, DeviceRecords, NicRecords
      <3> QED
        BY <1>1, <2>1 DEF Topologies
    <2>4. Made(l.src) /\ (~ l.unidirectional => Made(l.tgt))
      BY <1>1, <2>2 DEF TopologyInv
    <2>5. l.src \in Ports /\ (IsLocal(l.tgt) => l.tgt \in Ports /\ ~ l.unidirectional)
      <3>1. CASE l \in [src : Ports, tgt : Ports, unidirectional : {FALSE}]
        BY <3>1
      <3>2. CASE l \in [src : Ports, tgt : FarPorts, unidirectional : {TRUE}]
        <4>1. l.src \in Ports /\ l.tgt \in FarPorts
          BY <3>2
        <4>2. "domain" \in DOMAIN l.tgt.device
          BY <4>1 DEF FarPorts
        <4> QED
          BY <4>1, <4>2 DEF IsLocal
      <3> QED
        BY <2>3, <3>1, <3>2 DEF LinkRecords
    <2>6. PortAt(topology, end) = l.src \/ PortAt(topology, end) = l.tgt
      BY <1>4, <2>1 DEF PortAt
    <2> QED
      BY <1>2, <1>3, <2>4, <2>5, <2>6
  <1>5. CASE end[1] # "src" /\ end[1] # "tgt"
    <2>1. end[1] = "nic" /\ end[2] \in 1..Len(topology.nics)
      BY <1>3, <1>5 DEF Ends
    <2>2. PICK nic : nic = topology.nics[end[2]] /\ PortAt(topology, end) = nic.port
      BY <2>1 DEF PortAt
    <2>3. nic \in Elements(topology.nics)
      BY <2>1, <2>2 DEF Elements
    <2>4. nic \in NicRecords
      <3> HIDE DEF LinkRecords, DeviceRecords, NicRecords
      <3> QED
        BY <1>1, <2>1, <2>2 DEF Topologies
    <2>5. nic.port \in Ports
      <3> HIDE DEF Ports, Hosts
      <3> QED
        BY <2>4 DEF NicRecords
    <2> QED
      BY <1>1, <1>2, <2>2, <2>3, <2>5 DEF TopologyInv
  <1> QED
    BY <1>4, <1>5

------------------------------------------------------------------------------
\* The steps keep it.

\* The devices that a call takes a port of, among those of the recipe.
Asked(c) == {d \in Devices : Own(recipe, d) /\ Takes(c, d)}

\* A call leaves the ends there are, adds at most one at the next port of each device it
\* asks, and moves on the next port of those it asks, if there is another.
Hands(c) ==
    /\ \A d \in Asked(c) : NextPort(nextPort, d) < PortCount(recipe, d) =>
                               NextPort(nextPort', d) = NextPort(nextPort, d) + 1
    /\ \A d \in Devices : Own(recipe, d) /\ d \notin Asked(c) =>
                              NextPort(nextPort', d) = NextPort(nextPort, d)
    /\ \A end \in LocalEnds(topology') \cap LocalEnds(topology) :
           PortAt(topology', end) = PortAt(topology, end)
    /\ \A end \in LocalEnds(topology') \ LocalEnds(topology) :
           /\ PortAt(topology', end).device \in Asked(c)
           /\ PortAt(topology', end).number = NextPort(nextPort, PortAt(topology', end).device)
    /\ \A e1, e2 \in LocalEnds(topology') \ LocalEnds(topology) :
           PortAt(topology', e1).device = PortAt(topology', e2).device => e1 = e2

\* What the calls still ask for, before and after one of them.
LEMMA OneCallLess ==
    ASSUME NEW r, NEW cs \in Seq(Later(r)), cs # <<>>, NEW d
    PROVE  /\ Tail(cs) \in Seq(Later(r)) /\ Head(cs) \in Calls
           /\ Uses(cs, d) \in Nat /\ Uses(Tail(cs), d) \in Nat
           /\ Takes(Head(cs), d) => Uses(cs, d) = Uses(Tail(cs), d) + 1
           /\ ~ Takes(Head(cs), d) => Uses(cs, d) = Uses(Tail(cs), d)
  <1>1. Tail(cs) \in Seq(Later(r)) /\ Head(cs) \in Later(r)
    <2> HIDE DEF Later
    <2> QED
      OBVIOUS
  <1>2. Head(cs) \in Calls
    BY <1>1 DEF Later
  <1>3. Takes(Head(cs), d) <=> Head(cs) \in Taking(d)
    BY <1>2 DEF Taking
  <1>4. Uses(cs, d) \in Nat /\ Uses(Tail(cs), d) \in Nat
    BY <1>1, PlacesFinite DEF Uses
  <1>5. Uses(cs, d) = (IF Head(cs) \in Taking(d) THEN 1 ELSE 0) + Uses(Tail(cs), d)
    <2>1. \A P : Cardinality(Places(cs, P)) =
                 (IF Head(cs) \in P THEN 1 ELSE 0) + Cardinality(Places(Tail(cs), P))
      BY TailPlaces
    <2> QED
      BY <2>1 DEF Uses
  <1> QED
    BY <1>1, <1>2, <1>3, <1>4, <1>5

LEMMA HandingOut ==
    ASSUME GeneratorInv, Running, calls # <<>>, calls' = Tail(calls), recipe' = recipe,
           Hands(Head(calls))
    PROVE  Running'
  <1>1. PICK c : c = Head(calls)
    OBVIOUS
  <1> DEFINE old == LocalEnds(topology)
             all == LocalEnds(topology')
  <1>2. /\ calls' \in Seq(Later(recipe))
        /\ \A d : /\ Uses(calls, d) \in Nat /\ Uses(calls', d) \in Nat
                  /\ Takes(c, d) => Uses(calls, d) = Uses(calls', d) + 1
                  /\ ~ Takes(c, d) => Uses(calls, d) = Uses(calls', d)
    BY <1>1, OneCallLess DEF Running
  <1>3. \A d \in Asked(c) : Uses(calls, d) = Uses(calls', d) + 1 /\ Spare(d) /\ Below(d)
    BY <1>2 DEF Asked, Running
  <1>4. \A d \in Devices : Own(recipe, d) => NextPort(nextPort, d) \in Nat /\ PortCount(recipe, d) \in Nat
    <2>1. Buildable(recipe) /\ MapsInv
      BY DEF GeneratorInv
    <2> QED
      BY <2>1, PortCounts DEF NextPort, MapsInv, Numbered
  <1>5. \A end \in old : PortAt(topology, end) \in Ports /\ Own(recipe, PortAt(topology, end).device)
    BY KnownEnds
  <1>6. ASSUME NEW d \in Devices, Own(recipe, d), Uses(calls', d) # 0
        PROVE  NextPort(nextPort', d) + Uses(calls', d) <= PortCount(recipe, d) + 1
               /\ \A end \in all : PortAt(topology', end).device = d =>
                                       PortAt(topology', end).number < NextPort(nextPort', d)
    <2>1. CASE d \in Asked(c)
      <3>1. Uses(calls, d) = Uses(calls', d) + 1 /\ Spare(d) /\ Below(d) /\ Uses(calls', d) \in Nat
        BY <1>2, <1>3, <2>1
      <3>2. /\ NextPort(nextPort, d) \in Nat /\ PortCount(recipe, d) \in Nat
            /\ NextPort(nextPort', d) = NextPort(nextPort, d) + 1
            /\ NextPort(nextPort', d) + Uses(calls', d) <= PortCount(recipe, d) + 1
        <4>1. NextPort(nextPort, d) < PortCount(recipe, d)
          BY <1>4, <1>6, <3>1 DEF Spare
        <4>2. NextPort(nextPort', d) = NextPort(nextPort, d) + 1
          BY <1>1, <2>1, <4>1 DEF Hands
        <4> QED
          BY <1>4, <1>6, <3>1, <4>2 DEF Spare
      <3>3. ASSUME NEW end \in all, PortAt(topology', end).device = d
            PROVE  PortAt(topology', end).number < NextPort(nextPort, d) + 1
        <4>1. CASE end \in old
          <5>1. PortAt(topology', end) = PortAt(topology, end) /\ PortAt(topology, end) \in Ports
            BY <1>1, <1>5, <4>1 DEF Hands
          <5>2. PortAt(topology, end).number < NextPort(nextPort, d)
            BY <3>1, <3>3, <4>1, <5>1 DEF Below
          <5>3. PortAt(topology, end).number \in Nat
            BY <5>1 DEF Ports
          <5> QED
            BY <3>2, <5>1, <5>2, <5>3
        <4>2. CASE end \notin old
          <5>1. PortAt(topology', end).number = NextPort(nextPort, d)
            BY <1>1, <3>3, <4>2 DEF Hands
          <5> QED
            BY <3>2, <5>1
        <4> QED
          BY <4>1, <4>2
      <3> QED
        BY <3>2, <3>3
    <2>2. CASE d \notin Asked(c)
      <3>1. ~ Takes(c, d)
        BY <1>6, <2>2 DEF Asked
      <3>2. Uses(calls', d) = Uses(calls, d) /\ NextPort(nextPort', d) = NextPort(nextPort, d)
        BY <1>1, <1>2, <1>6, <2>2, <3>1 DEF Hands
      <3>3. Spare(d) /\ Below(d)
        BY <1>6, <3>2 DEF Running
      <3>4. ASSUME NEW end \in all, PortAt(topology', end).device = d
            PROVE  PortAt(topology', end).number < NextPort(nextPort, d)
        <4>1. end \in old
          BY <1>1, <2>2, <3>4 DEF Hands
        <4>2. PortAt(topology', end) = PortAt(topology, end)
          BY <1>1, <4>1 DEF Hands
        <4> QED
          BY <3>3, <3>4, <4>1, <4>2 DEF Below
      <3> QED
        BY <3>2, <3>3, <3>4 DEF Spare
    <2> QED
      BY <2>1, <2>2
  <1>7. ASSUME NEW e1 \in all, NEW e2 \in all, PortAt(topology', e1) = PortAt(topology', e2)
        PROVE  e1 = e2
    <2>1. ASSUME NEW f1 \in all, NEW f2 \in all, PortAt(topology', f1) = PortAt(topology', f2),
                 f1 \in old, f2 \notin old
          PROVE  FALSE
      <3>1. PICK d : d = PortAt(topology', f2).device
        OBVIOUS
      <3>2. d \in Asked(c) /\ PortAt(topology', f2).number = NextPort(nextPort, d)
        BY <1>1, <2>1, <3>1 DEF Hands
      <3>3. PortAt(topology', f1) = PortAt(topology, f1) /\ PortAt(topology, f1) \in Ports
        BY <1>1, <1>5, <2>1 DEF Hands
      <3>4. PortAt(topology, f1).device = d /\ PortAt(topology, f1).number = NextPort(nextPort, d)
        BY <2>1, <3>1, <3>2, <3>3
      <3>5. PortAt(topology, f1).number < NextPort(nextPort, d)
        BY <1>3, <2>1, <3>2, <3>4 DEF Below
      <3>6. NextPort(nextPort, d) \in Nat
        BY <3>3, <3>4 DEF Ports
      <3> QED
        BY <3>4, <3>5, <3>6
    <2>2. CASE e1 \in old /\ e2 \in old
      <3>1. PortAt(topology, e1) = PortAt(topology, e2)
        BY <1>1, <1>7, <2>2 DEF Hands
      <3> QED
        BY <2>2, <3>1 DEF Running, Apart
    <2>3. CASE e1 \notin old /\ e2 \notin old
      BY <1>1, <1>7, <2>3 DEF Hands
    <2> QED
      BY <1>7, <2>1, <2>2, <2>3
  <1>8. \A d \in Devices : Own(recipe, d) => (Uses(calls', d) = 0 \/ (Spare(d)' /\ Below(d)'))
    <2> SUFFICES ASSUME NEW d \in Devices, Own(recipe, d), Uses(calls', d) # 0
                 PROVE  Spare(d)' /\ Below(d)'
      OBVIOUS
    <2>1. Spare(d)'
      BY <1>6 DEF Spare
    <2>2. Below(d)'
      BY <1>6 DEF Below
    <2> QED
      BY <2>1, <2>2
  <1>9. Apart'
    BY <1>7 DEF Apart
  <1> QED
    BY <1>2, <1>8, <1>9 DEF Running

\* What the next of the calls says about its devices.
LEMMA NextKinds ==
    ASSUME GeneratorInv, calls # <<>>, NEW c, c = Head(calls)
    PROVE  /\ c.call = "createLink" => /\ Asked(c) = {c.src, c.tgt} /\ c.src # c.tgt
                                       /\ c.src \in DOMAIN maxPort /\ c.tgt \in DOMAIN maxPort
           /\ c.call = "createExternalLink" => Asked(c) = {c.d1} /\ c.d1 \in DOMAIN maxPort
                                               /\ c.d2 \in Devices /\ ~ Own(recipe, c.d2)
           /\ c.call = "createNIC" => Asked(c) = {c.device} /\ c.device \in DOMAIN maxPort
           /\ c.call \notin {"createLink", "createExternalLink", "createNIC"} => Asked(c) = {}
  <1>1. c \in Allowed(recipe) /\ Needs(c) \subseteq Done
    BY NextCall
  <1>2. CASE c.call = "createLink"
    <2>1. c \in LocalLinks(recipe) /\ There(c.src) \in Done /\ There(c.tgt) \in Done
      BY <1>1, <1>2, CallKinds DEF Needs
    <2>2. c.src \in Devices /\ c.tgt \in Devices /\ Own(recipe, c.src) /\ Own(recipe, c.tgt) /\ c.src # c.tgt
      BY <2>1 DEF LocalLinks
    <2>3. Asked(c) = {c.src, c.tgt}
      BY <1>2, <2>2 DEF Asked, Takes
    <2> QED
      BY <1>2, <2>1, <2>2, <2>3, KnownDevices
  <1>3. CASE c.call = "createExternalLink"
    <2>1. c \in FarLinks(recipe) /\ There(c.d1) \in Done
      BY <1>1, <1>3, CallKinds DEF Needs
    <2>2. c.d1 \in Devices /\ c.d2 \in Devices /\ Own(recipe, c.d1) /\ ~ Own(recipe, c.d2)
      BY <2>1 DEF FarLinks
    <2>3. Asked(c) = {c.d1}
      BY <1>3, <2>2 DEF Asked, Takes
    <2> QED
      BY <1>3, <2>1, <2>2, <2>3, KnownDevices
  <1>4. CASE c.call = "createNIC"
    <2>1. c \in Nics(recipe) /\ There(c.device) \in Done
      BY <1>1, <1>4, CallKinds DEF Needs
    <2>2. c.device \in Devices /\ Own(recipe, c.device)
      <3> HIDE DEF Hosts, Devices
      <3> QED
        BY <2>1 DEF Nics
    <2>3. Asked(c) = {c.device}
      BY <1>4, <2>2 DEF Asked, Takes
    <2> QED
      BY <1>4, <2>1, <2>2, <2>3, KnownDevices
  <1>5. CASE c.call \notin {"createLink", "createExternalLink", "createNIC"}
    BY <1>5 DEF Asked, Takes
  <1> QED
    BY <1>2, <1>3, <1>4, <1>5

\* A device that has another port moves on to it, and no other device does.
LEMMA MovesOn ==
    ASSUME GeneratorInv, NEW next, Numbered(next), NEW d \in Devices,
           Own(recipe, d) => d \in DOMAIN maxPort
    PROVE  /\ Own(recipe, d) /\ NextPort(next, d) < PortCount(recipe, d) =>
                  NextPort(Reserved(next, d), d) = NextPort(next, d) + 1
           /\ \A e : e # d => NextPort(Reserved(next, d), e) = NextPort(next, e)
  <1>1. Buildable(recipe) /\ MapsInv
    BY DEF GeneratorInv
  <1>2. PICK v : v = IF NextPort(next, d) + 1 > Of(maxPort, d) THEN Of(minPort, d)
                     ELSE NextPort(next, d) + 1
    OBVIOUS
  <1>3. Reserved(next, d) = Put(next, d, v)
    BY <1>2 DEF Reserved
  <1>4. /\ DOMAIN Reserved(next, d) = DOMAIN next \cup {d}
        /\ \A e \in DOMAIN next \cup {d} : Reserved(next, d)[e] = IF e = d THEN v ELSE next[e]
    BY <1>3 DEF Put
  <1>5. ASSUME Own(recipe, d), NextPort(next, d) < PortCount(recipe, d)
        PROVE  v = NextPort(next, d) + 1
    <2>1. Of(maxPort, d) = PortCount(recipe, d)
      BY <1>1, <1>5 DEF Of, MapsInv
    <2>2. PortCount(recipe, d) \in Nat /\ NextPort(next, d) \in Nat
      BY <1>1, <1>5, PortCounts DEF NextPort, Numbered
    <2> QED
      BY <1>2, <1>5, <2>1, <2>2
  <1>6. NextPort(Reserved(next, d), d) = v
    BY <1>4 DEF NextPort
  <1>7. \A e : e # d => NextPort(Reserved(next, d), e) = NextPort(next, e)
    BY <1>4 DEF NextPort
  <1> QED
    BY <1>5, <1>6, <1>7

\* The ends of a topology with one more link, or one more interface.
LEMMA LinkEnds ==
    ASSUME NEW t \in Topologies, NEW u \in Topologies, NEW link, u.links = Append(t.links, link),
           u.nics = t.nics
    PROVE  /\ Ends(t) \subseteq Ends(u)
           /\ \A end \in Ends(t) : PortAt(u, end) = PortAt(t, end)
           /\ \A end \in Ends(u) \ Ends(t) :
                  \/ end = <<"src", Len(t.links) + 1>> /\ PortAt(u, end) = link.src
                  \/ end = <<"tgt", Len(t.links) + 1>> /\ PortAt(u, end) = link.tgt
  <1>1. /\ Len(u.links) = Len(t.links) + 1 /\ Len(t.links) \in Nat
        /\ \A i \in 1..Len(t.links) : u.links[i] = t.links[i]
        /\ u.links[Len(t.links) + 1] = link
    <2>1. t.links \in Seq(LinkRecords)
      <3> HIDE DEF LinkRecords, DeviceRecords, NicRecords
      <3> QED
        BY DEF Topologies
    <2> HIDE DEF LinkRecords
    <2> QED
      BY <2>1
  <1>2. Ends(t) \subseteq Ends(u)
    BY <1>1 DEF Ends
  <1>3. ASSUME NEW end \in Ends(t)
        PROVE  PortAt(u, end) = PortAt(t, end)
    <2>1. CASE end \in {"src", "tgt"} \X (1..Len(t.links))
      <3>1. (end[1] = "src" \/ end[1] = "tgt") /\ end[2] \in 1..Len(t.links)
        BY <2>1
      <3>2. u.links[end[2]] = t.links[end[2]]
        BY <1>1, <3>1
      <3> QED
        BY <3>1, <3>2 DEF PortAt
    <2>2. CASE end \in {"nic"} \X (1..Len(t.nics))
      <3>1. end[1] = "nic"
        BY <2>2
      <3> QED
        BY <3>1 DEF PortAt
    <2> QED
      BY <1>3, <2>1, <2>2 DEF Ends
  <1>4. ASSUME NEW end \in Ends(u), end \notin Ends(t)
        PROVE  \/ end = <<"src", Len(t.links) + 1>> /\ PortAt(u, end) = link.src
               \/ end = <<"tgt", Len(t.links) + 1>> /\ PortAt(u, end) = link.tgt
    <2>1. PICK kind \in {"src", "tgt"}, i \in 1..Len(u.links) : end = <<kind, i>>
      BY <1>4 DEF Ends
    <2>2. i = Len(t.links) + 1
      BY <1>1, <1>4, <2>1 DEF Ends
    <2>3. end[1] = kind /\ end[2] = i
      BY <2>1
    <2> QED
      BY <1>1, <2>1, <2>2, <2>3 DEF PortAt
  <1> QED
    BY <1>2, <1>3, <1>4

LEMMA NicEnds ==
    ASSUME NEW t \in Topologies, NEW u \in Topologies, NEW nic, u.nics = Append(t.nics, nic),
           u.links = t.links
    PROVE  /\ Ends(t) \subseteq Ends(u)
           /\ \A end \in Ends(t) : PortAt(u, end) = PortAt(t, end)
           /\ \A end \in Ends(u) \ Ends(t) :
                  end = <<"nic", Len(t.nics) + 1>> /\ PortAt(u, end) = nic.port
  <1>1. /\ Len(u.nics) = Len(t.nics) + 1 /\ Len(t.nics) \in Nat
        /\ \A i \in 1..Len(t.nics) : u.nics[i] = t.nics[i]
        /\ u.nics[Len(t.nics) + 1] = nic
    <2>1. t.nics \in Seq(NicRecords)
      <3> HIDE DEF LinkRecords, DeviceRecords, NicRecords
      <3> QED
        BY DEF Topologies
    <2> HIDE DEF NicRecords
    <2> QED
      BY <2>1
  <1>2. Ends(t) \subseteq Ends(u)
    BY <1>1 DEF Ends
  <1>3. ASSUME NEW end \in Ends(t)
        PROVE  PortAt(u, end) = PortAt(t, end)
    <2>1. CASE end \in {"src", "tgt"} \X (1..Len(t.links))
      <3>1. end[1] = "src" \/ end[1] = "tgt"
        BY <2>1
      <3> QED
        BY <3>1 DEF PortAt
    <2>2. CASE end \in {"nic"} \X (1..Len(t.nics))
      <3>1. end[1] = "nic" /\ end[2] \in 1..Len(t.nics)
        BY <2>2
      <3>2. u.nics[end[2]] = t.nics[end[2]]
        BY <1>1, <3>1
      <3> QED
        BY <3>1, <3>2 DEF PortAt
    <2> QED
      BY <1>3, <2>1, <2>2 DEF Ends
  <1>4. ASSUME NEW end \in Ends(u), end \notin Ends(t)
        PROVE  end = <<"nic", Len(t.nics) + 1>> /\ PortAt(u, end) = nic.port
    <2>1. PICK i \in 1..Len(u.nics) : end = <<"nic", i>>
      BY <1>4 DEF Ends
    <2>2. i = Len(t.nics) + 1
      BY <1>1, <1>4, <2>1 DEF Ends
    <2>3. end[1] = "nic" /\ end[2] = i
      BY <2>1
    <2> QED
      BY <1>1, <2>1, <2>2, <2>3 DEF PortAt
  <1> QED
    BY <1>2, <1>3, <1>4

LEMMA LinkHandsOut ==
    ASSUME GeneratorInv, GeneratorInv', CreateLink
    PROVE  Hands(Head(calls))
  <1>1. PICK c : c = Head(calls)
    OBVIOUS
  <1> DEFINE once == Reserved(nextPort, c.src)
             link == [src |-> Port(c.src, NextPort(nextPort, c.src)),
                      tgt |-> Port(c.tgt, NextPort(once, c.tgt)),
                      unidirectional |-> FALSE]
  <1>2. /\ calls # <<>> /\ c.call = "createLink"
        /\ topology' = [topology EXCEPT !.links = Append(@, link)]
        /\ nextPort' = Reserved(once, c.tgt)
    BY <1>1 DEF CreateLink, Calling
  <1>3. /\ Asked(c) = {c.src, c.tgt} /\ c.src # c.tgt
        /\ c.src \in DOMAIN maxPort /\ c.tgt \in DOMAIN maxPort
    BY <1>1, <1>2, NextKinds
  <1>4. c.src \in Devices /\ c.tgt \in Devices /\ Own(recipe, c.src) /\ Own(recipe, c.tgt)
    BY <1>3 DEF Asked
  <1>5. /\ Numbered(nextPort) /\ topology \in Topologies /\ c.src \in DOMAIN minPort
    <2>1. There(c.src) \in Done
      BY <1>1, <1>2, NextCall DEF Needs
    <2> QED
      BY <2>1, KnownDevices DEF GeneratorInv, MapsInv, TopologyInv
  <1>6. Numbered(once)
    BY <1>3, <1>4, <1>5, ReservedPorts
  <1>7. /\ NextPort(nextPort, c.src) < PortCount(recipe, c.src) =>
               NextPort(once, c.src) = NextPort(nextPort, c.src) + 1
        /\ \A e : e # c.src => NextPort(once, e) = NextPort(nextPort, e)
    BY <1>3, <1>4, <1>5, MovesOn
  <1>8. /\ NextPort(once, c.tgt) < PortCount(recipe, c.tgt) =>
               NextPort(nextPort', c.tgt) = NextPort(once, c.tgt) + 1
        /\ \A e : e # c.tgt => NextPort(nextPort', e) = NextPort(once, e)
    <2> HIDE DEF once
    <2> QED
      BY <1>2, <1>3, <1>4, <1>6, MovesOn
  <1>9. /\ link.src.device = c.src /\ link.src.number = NextPort(nextPort, c.src)
        /\ link.tgt.device = c.tgt /\ link.tgt.number = NextPort(nextPort, c.tgt)
    BY <1>3, <1>7 DEF Port
  <1> HIDE DEF once, link
  <1>10. /\ topology' \in Topologies
         /\ topology'.links = Append(topology.links, link) /\ topology'.nics = topology.nics
    <2>1. topology' \in Topologies
      BY DEF GeneratorInv, TopologyInv
    <2> HIDE DEF LinkRecords, DeviceRecords, NicRecords
    <2> QED
      BY <1>2, <1>5, <2>1 DEF Topologies
  <1>11. /\ \A end \in Ends(topology) : PortAt(topology', end) = PortAt(topology, end)
         /\ \A end \in Ends(topology') \ Ends(topology) :
                \/ end = <<"src", Len(topology.links) + 1>> /\ PortAt(topology', end) = link.src
                \/ end = <<"tgt", Len(topology.links) + 1>> /\ PortAt(topology', end) = link.tgt
    BY <1>5, <1>10, LinkEnds
  <1>12. /\ \A end \in LocalEnds(topology) : PortAt(topology', end) = PortAt(topology, end)
         /\ LocalEnds(topology') \ LocalEnds(topology) \subseteq Ends(topology') \ Ends(topology)
    BY <1>11 DEF LocalEnds
  <1>13. \A d \in Asked(c) : NextPort(nextPort, d) < PortCount(recipe, d) =>
                                 NextPort(nextPort', d) = NextPort(nextPort, d) + 1
    BY <1>3, <1>7, <1>8
  <1>14. \A d \in Devices : Own(recipe, d) /\ d \notin Asked(c) =>
                                NextPort(nextPort', d) = NextPort(nextPort, d)
    BY <1>3, <1>7, <1>8
  <1>15. \A end \in LocalEnds(topology') \ LocalEnds(topology) :
             /\ PortAt(topology', end).device \in Asked(c)
             /\ PortAt(topology', end).number = NextPort(nextPort, PortAt(topology', end).device)
    BY <1>3, <1>9, <1>11, <1>12
  <1>16. \A e1, e2 \in LocalEnds(topology') \ LocalEnds(topology) :
             PortAt(topology', e1).device = PortAt(topology', e2).device => e1 = e2
    BY <1>3, <1>9, <1>11, <1>12
  <1> QED
    BY <1>1, <1>12, <1>13, <1>14, <1>15, <1>16 DEF Hands

LEMMA ExternalLinkHandsOut ==
    ASSUME GeneratorInv, GeneratorInv', CreateExternalLink
    PROVE  Hands(Head(calls))
  <1>1. PICK c : c = Head(calls)
    OBVIOUS
  <1> DEFINE once == Reserved(nextPort, c.d1)
             p1 == Port(c.d1, NextPort(nextPort, c.d1))
             p2 == Port(c.d2, NextPort(nextPort, c.d2))
             link == ExternalLink(p1, c.pod, p2)
  <1>2. /\ calls # <<>> /\ c.call = "createExternalLink"
        /\ topology' = [topology EXCEPT !.links = Append(@, link)]
        /\ nextPort' = Reserved(once, c.d2)
    BY <1>1 DEF CreateExternalLink, Calling
  <1>3. Asked(c) = {c.d1} /\ c.d1 \in DOMAIN maxPort /\ c.d2 \in Devices /\ ~ Own(recipe, c.d2)
    BY <1>1, <1>2, NextKinds
  <1>4. c.d1 \in Devices /\ Own(recipe, c.d1)
    BY <1>3 DEF Asked
  <1>5. /\ Numbered(nextPort) /\ topology \in Topologies /\ c.d1 \in DOMAIN minPort
    <2>1. There(c.d1) \in Done
      BY <1>1, <1>2, NextCall DEF Needs
    <2> QED
      BY <2>1, KnownDevices DEF GeneratorInv, MapsInv, TopologyInv
  <1>6. Numbered(once)
    BY <1>3, <1>4, <1>5, ReservedPorts
  <1>7. /\ NextPort(nextPort, c.d1) < PortCount(recipe, c.d1) =>
               NextPort(once, c.d1) = NextPort(nextPort, c.d1) + 1
        /\ \A e : e # c.d1 => NextPort(once, e) = NextPort(nextPort, e)
    BY <1>3, <1>4, <1>5, MovesOn
  <1>8. \A e : e # c.d2 => NextPort(nextPort', e) = NextPort(once, e)
    <2> HIDE DEF once
    <2> QED
      BY <1>2, <1>3, <1>6, MovesOn
  <1>9. /\ link.src = p1 /\ p1.device = c.d1 /\ p1.number = NextPort(nextPort, c.d1)
        /\ ~ IsLocal(link.tgt)
    BY DEF Port, ExternalLink, Elsewhere, IsLocal
  <1> HIDE DEF once, link, p1, p2
  <1>10. /\ topology' \in Topologies
         /\ topology'.links = Append(topology.links, link) /\ topology'.nics = topology.nics
    <2>1. topology' \in Topologies
      BY DEF GeneratorInv, TopologyInv
    <2> HIDE DEF LinkRecords, DeviceRecords, NicRecords
    <2> QED
      BY <1>2, <1>5, <2>1 DEF Topologies
  <1>11. /\ \A end \in Ends(topology) : PortAt(topology', end) = PortAt(topology, end)
         /\ \A end \in Ends(topology') \ Ends(topology) :
                \/ end = <<"src", Len(topology.links) + 1>> /\ PortAt(topology', end) = link.src
                \/ end = <<"tgt", Len(topology.links) + 1>> /\ PortAt(topology', end) = link.tgt
    BY <1>5, <1>10, LinkEnds
  <1>12. /\ \A end \in LocalEnds(topology) : PortAt(topology', end) = PortAt(topology, end)
         /\ LocalEnds(topology') \ LocalEnds(topology) \subseteq Ends(topology') \ Ends(topology)
         /\ \A end \in LocalEnds(topology') : IsLocal(PortAt(topology', end))
    BY <1>11 DEF LocalEnds
  <1>13. \A end \in LocalEnds(topology') \ LocalEnds(topology) :
             end = <<"src", Len(topology.links) + 1>> /\ PortAt(topology', end) = p1
    BY <1>9, <1>11, <1>12
  <1>14. \A d \in Asked(c) : NextPort(nextPort, d) < PortCount(recipe, d) =>
                                 NextPort(nextPort', d) = NextPort(nextPort, d) + 1
    BY <1>3, <1>4, <1>7, <1>8
  <1>15. \A d \in Devices : Own(recipe, d) /\ d \notin Asked(c) =>
                                NextPort(nextPort', d) = NextPort(nextPort, d)
    BY <1>3, <1>7, <1>8
  <1>16. \A end \in LocalEnds(topology') \ LocalEnds(topology) :
             /\ PortAt(topology', end).device \in Asked(c)
             /\ PortAt(topology', end).number = NextPort(nextPort, PortAt(topology', end).device)
    BY <1>3, <1>9, <1>13
  <1>17. \A e1, e2 \in LocalEnds(topology') \ LocalEnds(topology) : e1 = e2
    BY <1>13
  <1> QED
    BY <1>1, <1>12, <1>14, <1>15, <1>16, <1>17 DEF Hands

LEMMA NICHandsOut ==
    ASSUME GeneratorInv, GeneratorInv', CreateNIC
    PROVE  Hands(Head(calls))
  <1>1. PICK c : c = Head(calls)
    OBVIOUS
  <1> DEFINE nic == [host |-> c.host, address |-> <<c.rack, c.leaf, c.hostID>>,
                     port |-> Port(c.device, NextPort(nextPort, c.device))]
  <1>2. /\ calls # <<>> /\ c.call = "createNIC"
        /\ topology' = [topology EXCEPT !.nics = Append(@, nic)]
        /\ nextPort' = Reserved(nextPort, c.device)
    BY <1>1 DEF CreateNIC, Calling
  <1>3. Asked(c) = {c.device} /\ c.device \in DOMAIN maxPort
    BY <1>1, <1>2, NextKinds
  <1>4. c.device \in Devices /\ Own(recipe, c.device)
    BY <1>3 DEF Asked
  <1>5. Numbered(nextPort) /\ topology \in Topologies
    BY DEF GeneratorInv, MapsInv, TopologyInv
  <1>6. /\ NextPort(nextPort, c.device) < PortCount(recipe, c.device) =>
               NextPort(nextPort', c.device) = NextPort(nextPort, c.device) + 1
        /\ \A e : e # c.device => NextPort(nextPort', e) = NextPort(nextPort, e)
    BY <1>2, <1>3, <1>4, <1>5, MovesOn
  <1>7. nic.port.device = c.device /\ nic.port.number = NextPort(nextPort, c.device)
    BY DEF Port
  <1> HIDE DEF nic
  <1>8. /\ topology' \in Topologies
        /\ topology'.nics = Append(topology.nics, nic) /\ topology'.links = topology.links
    <2>1. topology' \in Topologies
      BY DEF GeneratorInv, TopologyInv
    <2> HIDE DEF LinkRecords, DeviceRecords, NicRecords
    <2> QED
      BY <1>2, <1>5, <2>1 DEF Topologies
  <1>9. /\ \A end \in Ends(topology) : PortAt(topology', end) = PortAt(topology, end)
        /\ \A end \in Ends(topology') \ Ends(topology) :
               end = <<"nic", Len(topology.nics) + 1>> /\ PortAt(topology', end) = nic.port
    <2>1. PICK t, u, n : t = topology /\ u = topology' /\ n = nic
      OBVIOUS
    <2>2. t \in Topologies /\ u \in Topologies /\ u.nics = Append(t.nics, n) /\ u.links = t.links
      BY <1>5, <1>8, <2>1
    <2>3. /\ \A end \in Ends(t) : PortAt(u, end) = PortAt(t, end)
          /\ \A end \in Ends(u) \ Ends(t) :
                 end = <<"nic", Len(t.nics) + 1>> /\ PortAt(u, end) = n.port
      BY ONLY <2>2, NicEnds, ZenonT(60)
    <2> QED
      BY <2>1, <2>3
  <1>10. /\ \A end \in LocalEnds(topology) : PortAt(topology', end) = PortAt(topology, end)
         /\ LocalEnds(topology') \ LocalEnds(topology) \subseteq Ends(topology') \ Ends(topology)
    BY <1>9 DEF LocalEnds
  <1>11. \A end \in LocalEnds(topology') \ LocalEnds(topology) :
             end = <<"nic", Len(topology.nics) + 1>> /\ PortAt(topology', end) = nic.port
    BY <1>9, <1>10
  <1>12. \A d \in Asked(c) : NextPort(nextPort, d) < PortCount(recipe, d) =>
                                 NextPort(nextPort', d) = NextPort(nextPort, d) + 1
    BY <1>3, <1>6
  <1>13. \A d \in Devices : Own(recipe, d) /\ d \notin Asked(c) =>
                                NextPort(nextPort', d) = NextPort(nextPort, d)
    BY <1>3, <1>6
  <1>14. \A end \in LocalEnds(topology') \ LocalEnds(topology) :
             /\ PortAt(topology', end).device \in Asked(c)
             /\ PortAt(topology', end).number = NextPort(nextPort, PortAt(topology', end).device)
    BY <1>3, <1>7, <1>11
  <1>15. \A e1, e2 \in LocalEnds(topology') \ LocalEnds(topology) : e1 = e2
    BY <1>11
  <1> QED
    BY <1>1, <1>10, <1>12, <1>13, <1>14, <1>15 DEF Hands

\* A call that adds no end and leaves the next ports of the recipe's devices alone.
LEMMA NothingHandedOut ==
    ASSUME GeneratorInv, calls # <<>>,
           Head(calls).call \notin {"createLink", "createExternalLink", "createNIC"},
           topology'.links = topology.links, topology'.nics = topology.nics,
           \A d \in Devices : Own(recipe, d) => NextPort(nextPort', d) = NextPort(nextPort, d)
    PROVE  Hands(Head(calls))
  <1>1. Asked(Head(calls)) = {}
    BY NextKinds
  <1>2. Ends(topology') = Ends(topology) /\ \A end : PortAt(topology', end) = PortAt(topology, end)
    BY DEF Ends, PortAt
  <1>3. LocalEnds(topology') = LocalEnds(topology)
    BY <1>2 DEF LocalEnds
  <1> QED
    BY <1>1, <1>2, <1>3 DEF Hands

\* Setting the first port of a device leaves that of every other.
LEMMA StartAtMoves ==
    ASSUME StartAtPort, NEW c, c = Head(calls)
    PROVE  \A d : NextPort(nextPort', d) = IF d = c.device THEN c.port ELSE NextPort(nextPort, d)
  <1>1. nextPort' = Put(nextPort, c.device, c.port)
    BY DEF StartAtPort
  <1>2. /\ DOMAIN nextPort' = DOMAIN nextPort \cup {c.device}
        /\ \A d \in DOMAIN nextPort \cup {c.device} :
             nextPort'[d] = IF d = c.device THEN c.port ELSE nextPort[d]
    BY <1>1 DEF Put
  <1> QED
    BY <1>2 DEF NextPort

LEMMA QuietHandsOut ==
    ASSUME GeneratorInv, Running,
           CreateSwitch \/ LatchMinPort \/ StartAtPort \/ EndAtPort \/ SavePodTopology
    PROVE  Hands(Head(calls))
  <1>1. PICK c : c = Head(calls)
    OBVIOUS
  <1>2. /\ calls # <<>> /\ topology \in Topologies
        /\ c.call \in {"createSwitch", "latch", "startAt", "endAt", "savePod"}
    BY <1>1 DEF CreateSwitch, LatchMinPort, StartAtPort, EndAtPort, SavePodTopology, Calling,
                GeneratorInv, TopologyInv
  <1>3. topology'.links = topology.links /\ topology'.nics = topology.nics
    <2>1. CASE CreateSwitch
      <3> DEFINE new == [id |-> c.device, agentPort |-> 20000 + agentPort, ports |-> c.portCount]
      <3>1. topology' = [topology EXCEPT !.devices = Append(@, new)]
        BY <1>1, <2>1 DEF CreateSwitch
      <3> HIDE DEF new
      <3>2. \A t \in Topologies : DOMAIN t = {"devices", "links", "nics"}
        BY DEF Topologies
      <3> QED
        BY <1>2, <3>1, <3>2
    <2>2. CASE ~ CreateSwitch
      BY <2>2 DEF LatchMinPort, StartAtPort, EndAtPort, SavePodTopology
    <2> QED
      BY <2>1, <2>2
  <1>4. ASSUME NEW d \in Devices, Own(recipe, d)
        PROVE  NextPort(nextPort', d) = NextPort(nextPort, d)
    <2>1. CASE StartAtPort
      <3>1. c.call = "startAt"
        BY <1>1, <2>1 DEF StartAtPort, Calling
      <3>2. c \in Later(recipe)
        <4> HIDE DEF Later
        <4> QED
          BY <1>1, <1>2 DEF Running
      <3>3. d # c.device
        BY <1>4, <3>1, <3>2 DEF Later, OwnStart
      <3> QED
        BY <1>1, <2>1, <3>3, StartAtMoves
    <2>2. CASE ~ StartAtPort
      <3>1. nextPort' = nextPort
        BY <2>2 DEF CreateSwitch, LatchMinPort, EndAtPort, SavePodTopology, builderVars
      <3> QED
        BY <3>1
    <2> QED
      BY <2>1, <2>2
  <1> QED
    BY <1>1, <1>2, <1>3, <1>4, NothingHandedOut

\* Without an early call left, what is asked for is what there was room for.
LEMMA RunningFromStart ==
    ASSUME GeneratorInv, Starting,
           NEW later \in Seq(Later(recipe)), calls = later,
           \A d \in Devices : Own(recipe, d) => later \in Within(recipe, d, Room(recipe, d))
    PROVE  Running
  <1>1. LocalEnds(topology) = {}
    <2>1. Len(topology.links) = 0 /\ Len(topology.nics) = 0
      BY DEF Starting
    <2>2. 1..0 = {}
      OBVIOUS
    <2> QED
      BY <2>1, <2>2 DEF LocalEnds, Ends
  <1>2. ASSUME NEW d \in Devices, Own(recipe, d)
        PROVE  Spare(d) /\ Below(d)
    <2>1. Uses(calls, d) <= Room(recipe, d) /\ NextPort(nextPort, d) <= First(recipe, d)
      BY <1>2 DEF Starting, Within
    <2>2. Buildable(recipe) /\ MapsInv
      BY DEF GeneratorInv
    <2>3. PortCount(recipe, d) \in Nat /\ NextPort(nextPort, d) \in Nat
      BY <1>2, <2>2, PortCounts DEF NextPort, MapsInv, Numbered
    <2>4. First(recipe, d) \in Nat /\ Uses(calls, d) \in Nat
      <3>1. First(recipe, d) \in Nat
        BY <2>2 DEF First, Buildable
      <3>2. Uses(calls, d) \in Nat
        BY PlacesFinite DEF Uses
      <3> QED
        BY <3>1, <3>2
    <2>5. Spare(d)
      BY <2>1, <2>3, <2>4 DEF Spare, Room
    <2> QED
      BY <1>1, <2>5 DEF Below
  <1>3. Apart
    BY <1>1 DEF Apart
  <1> QED
    BY <1>2, <1>3 DEF Running

\* One early call less.
LEMMA StartingGoesOn ==
    ASSUME NEW r, NEW early \in Seq(Early(r)), early # <<>>, NEW later \in Seq(Later(r)),
           NEW cs \in Seq(Calls), cs = early \o later
    PROVE  /\ Head(cs) \in Early(r)
           /\ Tail(early) \in Seq(Early(r)) /\ Tail(cs) = Tail(early) \o later
           /\ Tail(cs) \in Seq(Calls)
  <1>1. Head(cs) = Head(early) /\ Head(early) \in Early(r) /\ Tail(early) \in Seq(Early(r))
    <2> HIDE DEF Early, Later, Calls
    <2> QED
      OBVIOUS
  <1>2. Tail(cs) = Tail(early) \o later /\ Tail(cs) \in Seq(Calls)
    <2>1. cs # <<>>
      <3> HIDE DEF Early, Later, Calls
      <3> QED
        OBVIOUS
    <2> HIDE DEF Early, Later, Calls
    <2> QED
      BY <2>1
  <1> QED
    BY <1>1, <1>2

\* The next of the early calls.
LEMMA StartingCall ==
    ASSUME GeneratorInv, Starting, ~ Running, Next, calls # <<>>
    PROVE  /\ CreateSwitch \/ StartAtPort
           /\ Head(calls) \in Early(recipe) /\ Tail(calls) \in Fitting(recipe)
  <1>1. PICK early \in Seq(Early(recipe)), later \in Seq(Later(recipe)) :
            /\ calls = early \o later /\ calls \in Seq(Calls)
            /\ \A d \in Devices : Own(recipe, d) => later \in Within(recipe, d, Room(recipe, d))
    BY DEF Starting, Fitting
  <1>2. early # <<>>
    <2>1. CASE early = <<>>
      <3>1. calls = later
        BY <1>1, <2>1, EmptyThen
      <3> QED
        BY <1>1, <3>1, RunningFromStart
    <2> QED
      BY <2>1
  <1>3. PICK c : c = Head(calls)
    OBVIOUS
  <1>4. /\ c \in Early(recipe) /\ Tail(early) \in Seq(Early(recipe))
        /\ Tail(calls) = Tail(early) \o later /\ Tail(calls) \in Seq(Calls)
    BY <1>1, <1>2, <1>3, StartingGoesOn
  <1>5. c.call = "createSwitch" \/ c.call = "startAt"
    BY <1>4 DEF Early, OwnStart
  <1>6. CreateSwitch \/ StartAtPort
    BY <1>3, <1>5 DEF Next, CreateLink, CreateExternalLink, CreateNIC, LatchMinPort, EndAtPort,
                      SavePodTopology, PodNotSaved, SaveTopology, Calling
  <1>7. Tail(calls) \in Fitting(recipe)
    BY <1>1, <1>4 DEF Fitting
  <1> QED
    BY <1>3, <1>4, <1>6, <1>7

LEMMA StartingKeeps ==
    ASSUME GeneratorInv, Starting, ~ Running, Next, calls # <<>>
    PROVE  Starting'
  <1>1. PICK c : c = Head(calls)
    OBVIOUS
  <1>2. (CreateSwitch \/ StartAtPort) /\ c \in Early(recipe) /\ Tail(calls) \in Fitting(recipe)
    BY <1>1, StartingCall
  <1>3. recipe' = recipe /\ calls' = Tail(calls)
    BY <1>2 DEF CreateSwitch, StartAtPort, Calling
  <1>4. calls' \in Fitting(recipe)
    BY <1>2, <1>3
  <1>5. topology'.links = <<>> /\ topology'.nics = <<>>
    <2>1. topology.links = <<>> /\ topology.nics = <<>> /\ topology \in Topologies
      BY DEF Starting, GeneratorInv, TopologyInv
    <2>2. CASE CreateSwitch
      <3> DEFINE new == [id |-> c.device, agentPort |-> 20000 + agentPort, ports |-> c.portCount]
      <3>1. topology' = [topology EXCEPT !.devices = Append(@, new)]
        BY <1>1, <2>2 DEF CreateSwitch
      <3> HIDE DEF new
      <3>2. DOMAIN topology = {"devices", "links", "nics"}
        BY <2>1 DEF Topologies
      <3> QED
        BY <2>1, <3>1, <3>2
    <2>3. CASE StartAtPort
      BY <2>1, <2>3 DEF StartAtPort
    <2> QED
      BY <1>2, <2>2, <2>3
  <1>6. \A d \in Devices : Own(recipe, d) => NextPort(nextPort', d) <= First(recipe, d)
    <2>1. CASE CreateSwitch
      BY <2>1 DEF CreateSwitch, Starting
    <2>2. CASE StartAtPort
      <3>1. OwnStart(recipe, c) /\ c.port = First(recipe, c.device)
        BY <1>1, <1>2, <2>2 DEF Early, StartAtPort, Calling
      <3>2. c.port \in Nat
        BY <1>2, <3>1 DEF Early, Calls, OwnStart
      <3>3. \A d : NextPort(nextPort', d) = IF d = c.device THEN c.port ELSE NextPort(nextPort, d)
        BY <1>1, <2>2, StartAtMoves
      <3> QED
        BY <3>1, <3>2, <3>3 DEF Starting
    <2> QED
      BY <1>2, <2>1, <2>2
  <1> QED
    BY <1>3, <1>4, <1>5, <1>6 DEF Starting

\* Every call of a fabric that has been started hands out what it asks for.
LEMMA RunningHands ==
    ASSUME GeneratorInv, GeneratorInv', Running,
           CreateLink \/ CreateExternalLink \/ CreateNIC \/ CreateSwitch \/ LatchMinPort
           \/ StartAtPort \/ EndAtPort \/ SavePodTopology
    PROVE  /\ calls # <<>> /\ calls' = Tail(calls) /\ recipe' = recipe
           /\ Hands(Head(calls))
  <1>1. calls # <<>> /\ calls' = Tail(calls) /\ recipe' = recipe
    BY DEF CreateLink, CreateExternalLink, CreateNIC, CreateSwitch, LatchMinPort, StartAtPort,
           EndAtPort, SavePodTopology, Calling
  <1>2. CASE CreateLink
    BY <1>1, <1>2, LinkHandsOut
  <1>3. CASE CreateExternalLink
    BY <1>1, <1>3, ExternalLinkHandsOut
  <1>4. CASE CreateNIC
    BY <1>1, <1>4, NICHandsOut
  <1>5. CASE CreateSwitch \/ LatchMinPort \/ StartAtPort \/ EndAtPort \/ SavePodTopology
    BY <1>1, <1>5, QuietHandsOut
  <1> QED
    BY <1>1, <1>2, <1>3, <1>4, <1>5

LEMMA RunningKeeps ==
    ASSUME GeneratorInv, GeneratorInv', Running, Next
    PROVE  Running'
  <1>1. CASE \/ CreateLink \/ CreateExternalLink \/ CreateNIC \/ CreateSwitch \/ LatchMinPort
             \/ StartAtPort \/ EndAtPort \/ SavePodTopology
    <2>1. /\ calls # <<>> /\ calls' = Tail(calls) /\ recipe' = recipe
          /\ Hands(Head(calls))
      BY <1>1, RunningHands
    <2> QED
      BY <2>1, HandingOut
  <1>2. CASE PodNotSaved \/ SaveTopology
    <2>1. /\ recipe' = recipe /\ topology' = topology /\ nextPort' = nextPort
          /\ calls' = <<>> \/ calls' = calls
      BY <1>2 DEF PodNotSaved, SaveTopology, builderVars
    <2>2. Apart'
      BY <2>1 DEF Running, Apart
    <2>3. CASE calls' = calls
      <3>1. \A d : (Spare(d) => Spare(d)') /\ (Below(d) => Below(d)')
        BY <2>1, <2>3 DEF Spare, Below
      <3>2. calls' \in Seq(Later(recipe')) /\ \A d : Uses(calls', d) = Uses(calls, d)
        BY <2>1, <2>3 DEF Running
      <3> QED
        BY <2>1, <2>2, <3>1, <3>2 DEF Running
    <2>4. CASE calls' = <<>>
      <3>1. \A d : <<>> \in Within(recipe, d, 0)
        BY WithinNothing
      <3>2. ASSUME NEW d
            PROVE  Uses(calls', d) = 0
        <4>1. Uses(calls', d) <= 0 /\ Uses(calls', d) \in Nat
          BY <2>4, <3>1, PlacesFinite DEF Within, Uses
        <4> QED
          BY <4>1
      <3>3. calls' \in Seq(Later(recipe'))
        BY <2>4
      <3> QED
        BY <2>1, <2>2, <3>2, <3>3 DEF Running
    <2> QED
      BY <2>1, <2>3, <2>4
  <1> QED
    BY <1>1, <1>2 DEF Next

LEMMA FitInvariant == Spec => []FitInv
  <1>1. Init => FitInv
    <2> SUFFICES ASSUME Init, Fits(recipe) PROVE Starting
      BY DEF FitInv
    <2>1. Buildable(recipe)
      BY RecipesAssumption DEF Init
    <2>2. calls \in Fitting(recipe)
      BY <2>1, CallsFit DEF Init
    <2>3. topology.links = <<>> /\ topology.nics = <<>>
      BY DEF Init, Nothing
    <2>4. ASSUME NEW d \in Devices
          PROVE  NextPort(nextPort, d) <= First(recipe, d)
      <3>1. NextPort(nextPort, d) = 1
        BY DEF Init, None, NextPort
      <3>2. First(recipe, d) \in Nat /\ First(recipe, d) >= 1
        BY <2>1 DEF First, Buildable
      <3> QED
        BY <3>1, <3>2
    <2> QED
      BY <2>2, <2>3, <2>4 DEF Starting
  <1>2. GeneratorInv /\ GeneratorInv' /\ FitInv /\ [Next]_vars => FitInv'
    <2> SUFFICES ASSUME GeneratorInv, GeneratorInv', FitInv, [Next]_vars, Fits(recipe')
                 PROVE  Starting' \/ Running'
      BY DEF FitInv
    <2>1. recipe' = recipe
      BY DEF Next, CreateSwitch, CreateLink, CreateExternalLink, CreateNIC, LatchMinPort, StartAtPort,
             EndAtPort, SavePodTopology, PodNotSaved, SaveTopology, Calling, vars
    <2>2. Starting \/ Running
      BY <2>1 DEF FitInv
    <2>3. CASE UNCHANGED vars
      BY <2>2, <2>3 DEF vars, Starting, Running, Spare, Below, Apart
    <2>4. CASE Next
      <3>1. CASE Running
        BY <2>4, <3>1, RunningKeeps
      <3>2. CASE ~ Running
        <4>1. CASE calls # <<>>
          BY <2>2, <2>4, <3>2, <4>1, StartingKeeps
        <4>2. CASE calls = <<>>
          <5>1. PICK early \in Seq(Early(recipe)), later \in Seq(Later(recipe)) :
                   /\ calls = early \o later
                   /\ \A d \in Devices : Own(recipe, d) => later \in Within(recipe, d, Room(recipe, d))
            BY <2>2, <3>2 DEF Starting, Fitting
          <5>2. early = <<>>
            <6> HIDE DEF Early, Later
            <6> QED
              BY <4>2, <5>1
          <5>3. calls = later
            BY <5>1, <5>2, EmptyThen
          <5> QED
            BY <2>2, <3>2, <5>1, <5>3, RunningFromStart
        <4> QED
          BY <4>1, <4>2
      <3> QED
        BY <3>1, <3>2
    <2> QED
      BY <2>3, <2>4
  <1> QED
    BY <1>1, <1>2, GeneratorInvariant, PTL DEF Spec

LEMMA FitMeansApart ==
    ASSUME GeneratorInv, FitInv, Fits(recipe)
    PROVE  Apart
  <1>1. CASE Running
    BY <1>1 DEF Running
  <1>2. CASE Starting
    <2>1. Len(topology.links) = 0 /\ Len(topology.nics) = 0
      BY <1>2 DEF Starting
    <2>2. 1..0 = {}
      OBVIOUS
    <2>3. LocalEnds(topology) = {}
      BY <2>1, <2>2 DEF LocalEnds, Ends
    <2> QED
      BY <2>3 DEF Apart
  <1> QED
    BY <1>1, <1>2 DEF FitInv

\* A recipe that asks no device for more ports than it has, whatever its size and its
\* kind, puts no two links and interfaces of the topology on one port.
THEOREM PortsAreTakenOnce == Spec => []NoPortIsTakenTwice
  <1>1. GeneratorInv /\ FitInv => NoPortIsTakenTwice
    BY FitMeansApart DEF NoPortIsTakenTwice, Apart
  <1> QED
    BY <1>1, GeneratorInvariant, FitInvariant, PTL

------------------------------------------------------------------------------
\* Names and addresses in the topology.

Address(c) == <<c.rack, c.leaf, c.hostID>>

\* A call that gives nothing that is in the topology.
Fresh(named, t, c) ==
    /\ c.call = "createNIC" => \A nic \in Elements(t.nics) : nic.address # Address(c)
    /\ named /\ c.call = "createSwitch" => \A d \in Elements(t.devices) : d.id # c.device

NamesInv ==
    /\ calls \in Clear(Named(recipe), CallsOf(recipe))
    /\ \A k \in 1..Len(calls) : Fresh(Named(recipe), topology, calls[k])
    /\ \A i, j \in 1..Len(topology.nics) :
           topology.nics[i].address = topology.nics[j].address => i = j
    /\ Named(recipe) => \A i, j \in 1..Len(topology.devices) :
           topology.devices[i].id = topology.devices[j].id => i = j
    /\ \A nic \in Elements(topology.nics) :
           /\ nic.address \in (Nat \ {0}) \X (Nat \ {0}) \X Nat
           /\ nic.port.device.kind = NicKindOf(recipe)
    /\ \A d \in Elements(topology.devices) : d.id \in NamesOf(recipe)

\* What is known of the first call and the rest.
Parted(named, C, cs, first, rest) ==
    /\ first \in C /\ rest \in Clear(named, C)
    /\ \E j \in 1..Len(cs) : first = cs[j]
    /\ \A k \in 1..Len(rest) : \E j \in 1..Len(cs) : rest[k] = cs[j]
    /\ \A k \in 1..Len(rest) : ~ Clash(named, first, rest[k])

LEMMA ClearTail ==
    ASSUME NEW named, NEW C, NEW cs \in Clear(named, C), cs # <<>>
    PROVE  Parted(named, C, cs, Head(cs), Tail(cs))
  <1>0. PICK first, rest : first = Head(cs) /\ rest = Tail(cs)
    OBVIOUS
  <1>1. cs \in Seq(C) /\ \A i, j \in 1..Len(cs) : Clash(named, cs[i], cs[j]) => i = j
    BY DEF Clear
  <1>2. /\ first = cs[1] /\ first \in C /\ rest \in Seq(C) /\ Len(rest) = Len(cs) - 1
        /\ Len(cs) \in Nat /\ 1 \in 1..Len(cs)
        /\ \A k \in 1..Len(rest) : rest[k] = cs[k + 1] /\ k + 1 \in 1..Len(cs)
    BY <1>0, <1>1
  <1>3. \A i, j \in 1..Len(rest) : Clash(named, rest[i], rest[j]) => i = j
    BY <1>1, <1>2
  <1>4. \A k \in 1..Len(rest) : ~ Clash(named, first, rest[k])
    BY <1>1, <1>2
  <1> QED
    BY <1>0, <1>2, <1>3, <1>4 DEF Clear, Parted

LEMMA AppendPlace ==
    ASSUME NEW S, NEW s \in Seq(S), NEW e \in S, NEW t, t = Append(s, e)
    PROVE  \A i \in 1..Len(t) : (i \in 1..Len(s) /\ t[i] = s[i]) \/ (i = Len(s) + 1 /\ t[i] = e)
  OBVIOUS

\* The rest of the calls is as clear, and what comes after gives something else.
LEMMA NamesGoOn ==
    ASSUME GeneratorInv, NamesInv, calls # <<>>, NEW c, c = Head(calls),
           calls' = Tail(calls), recipe' = recipe
    PROVE  /\ c \in CallsOf(recipe) /\ Fresh(Named(recipe), topology, c)
           /\ calls' \in Clear(Named(recipe), CallsOf(recipe))
           /\ \A k \in 1..Len(calls') : /\ Fresh(Named(recipe), topology, calls'[k])
                                       /\ ~ Clash(Named(recipe), c, calls'[k])
  <1>1. PICK C, named, cs, t :
            C = CallsOf(recipe) /\ named = Named(recipe) /\ cs = calls /\ t = topology
    OBVIOUS
  <1>2. cs \in Clear(named, C) /\ cs # <<>> /\ \A k \in 1..Len(cs) : Fresh(named, t, cs[k])
    BY <1>1 DEF NamesInv
  <1>3. Parted(named, C, cs, Head(cs), Tail(cs))
    BY ONLY <1>2, ClearTail
  <1>4. PICK rest : rest = calls'
    OBVIOUS
  <1>5. Parted(named, C, cs, c, rest)
    BY <1>1, <1>3, <1>4
  <1>6. Fresh(named, t, c) /\ \A k \in 1..Len(rest) : Fresh(named, t, rest[k])
    BY <1>2, <1>5 DEF Parted
  <1> QED
    BY <1>1, <1>4, <1>5, <1>6 DEF Parted

LEMMA SwitchIsNamed ==
    ASSUME GeneratorInv, GeneratorInv', NamesInv, CreateSwitch
    PROVE  NamesInv'
  <1>1. PICK c : c = Head(calls)
    OBVIOUS
  <1>2. calls # <<>> /\ c.call = "createSwitch" /\ calls' = Tail(calls) /\ recipe' = recipe
    BY <1>1 DEF CreateSwitch, Calling
  <1>3. /\ c \in CallsOf(recipe) /\ Fresh(Named(recipe), topology, c)
        /\ calls' \in Clear(Named(recipe), CallsOf(recipe))
        /\ \A k \in 1..Len(calls') : Fresh(Named(recipe), topology, calls'[k]) /\ ~ Clash(Named(recipe), c, calls'[k])
    BY <1>1, <1>2, NamesGoOn
  <1> DEFINE record == [id |-> c.device, agentPort |-> 20000 + agentPort, ports |-> c.portCount]
             old == topology.devices
             new == topology'.devices
  <1>5. topology \in Topologies /\ agentPort \in Nat
    BY DEF GeneratorInv, TopologyInv
  <1>6. new = Append(old, record) /\ topology'.nics = topology.nics
    BY <1>1, <1>5 DEF CreateSwitch, Topologies
  <1>7. c.device \in NamesOf(recipe) /\ record.id = c.device
    BY <1>2, <1>3 DEF CallsOf, About, Quiet, Making, Attaching
  <1> HIDE DEF record
  <1>8. PICK S : S = DeviceRecords \cup {record}
    OBVIOUS
  <1>9. old \in Seq(S) /\ record \in S
    <2>1. old \in Seq(DeviceRecords)
      BY <1>5 DEF Topologies
    <2> QED
      BY <1>8, <2>1, SeqSubset
  <1>10. /\ Elements(new) = Elements(old) \cup {record}
         /\ \A i \in 1..Len(new) : (i \in 1..Len(old) /\ new[i] = old[i]) \/ (i = Len(old) + 1 /\ new[i] = record)
    BY <1>6, <1>9, AppendElements, AppendPlace
  <1>11. \A d \in Elements(new) : d.id \in NamesOf(recipe)
    BY <1>7, <1>10 DEF NamesInv
  <1>12. ASSUME Named(recipe), NEW i \in 1..Len(new), NEW j \in 1..Len(new), new[i].id = new[j].id
         PROVE  i = j
    <2>1. \A k \in 1..Len(old) : old[k] \in Elements(old)
      BY DEF Elements
    <2>2. \A k \in 1..Len(old) : old[k].id # record.id
      BY <1>2, <1>3, <1>7, <1>12, <2>1 DEF Fresh
    <2>3. \A k, l \in 1..Len(old) : old[k].id = old[l].id => k = l
      BY <1>12 DEF NamesInv
    <2> QED
      BY <1>10, <1>12, <2>2, <2>3
  <1>13. ASSUME NEW k \in 1..Len(calls')
         PROVE  Fresh(Named(recipe), topology', calls'[k])
    <2>1. PICK e : e = calls'[k]
      OBVIOUS
    <2>2. Fresh(Named(recipe), topology, e) /\ ~ Clash(Named(recipe), c, e)
      BY <1>3, <2>1
    <2>3. e.call = "createNIC" => \A nic \in Elements(topology'.nics) : nic.address # Address(e)
      BY <1>6, <2>2 DEF Fresh
    <2>4. Named(recipe) /\ e.call = "createSwitch" => \A d \in Elements(new) : d.id # e.device
      BY <1>2, <1>7, <1>10, <2>2 DEF Fresh, Clash
    <2> QED
      BY <1>2, <2>1, <2>3, <2>4 DEF Fresh
  <1>14. /\ \A i, j \in 1..Len(topology'.nics) :
               topology'.nics[i].address = topology'.nics[j].address => i = j
         /\ \A nic \in Elements(topology'.nics) :
               /\ nic.address \in (Nat \ {0}) \X (Nat \ {0}) \X Nat
               /\ nic.port.device.kind = NicKindOf(recipe)
    BY <1>6 DEF NamesInv
  <1> QED
    BY <1>2, <1>3, <1>11, <1>12, <1>13, <1>14 DEF NamesInv

LEMMA NICIsNamed ==
    ASSUME GeneratorInv, NamesInv, CreateNIC
    PROVE  NamesInv'
  <1>1. PICK c : c = Head(calls)
    OBVIOUS
  <1>2. calls # <<>> /\ c.call = "createNIC" /\ calls' = Tail(calls) /\ recipe' = recipe
    BY <1>1 DEF CreateNIC, Calling
  <1>3. /\ c \in CallsOf(recipe) /\ Fresh(Named(recipe), topology, c)
        /\ calls' \in Clear(Named(recipe), CallsOf(recipe))
        /\ \A k \in 1..Len(calls') : /\ Fresh(Named(recipe), topology, calls'[k])
                                    /\ ~ Clash(Named(recipe), c, calls'[k])
    BY <1>1, <1>2, NamesGoOn
  <1> DEFINE record == [host |-> c.host, address |-> <<c.rack, c.leaf, c.hostID>>,
                        port |-> Port(c.device, NextPort(nextPort, c.device))]
             old == topology.nics
             new == topology'.nics
  <1>4. topology \in Topologies
    BY DEF GeneratorInv, TopologyInv
  <1>5. new = Append(old, record) /\ topology'.devices = topology.devices
    BY <1>1, <1>4 DEF CreateNIC, Topologies
  <1>6. /\ c.device.kind = NicKindOf(recipe) /\ c.rack \in Nat \ {0} /\ 1 <= c.leaf
        /\ c.leaf \in Nat /\ c.hostID \in Nat
    <2>1. c \in Attaching(Nat \ {0}, Nat, NicKindOf(recipe))
      BY <1>2, <1>3 DEF CallsOf, About, Quiet, Making
    <2>2. c \in Calls
      BY <2>1 DEF Attaching
    <2>3. c \in [call : {"createNIC"}, host : Hosts, rack : Nat, leaf : Nat, hostID : Nat, device : Devices]
      <3> HIDE DEF Hosts, Devices
      <3> QED
        BY <1>2, <2>2 DEF Calls
    <2>4. c.leaf \in Nat /\ c.hostID \in Nat
      <3> HIDE DEF Hosts, Devices
      <3> QED
        BY <2>3
    <2> QED
      BY <2>1, <2>4 DEF Attaching
  <1>7. /\ record.address = Address(c) /\ record.port.device = c.device
        /\ record.address \in (Nat \ {0}) \X (Nat \ {0}) \X Nat
    <2>1. record.address = Address(c) /\ record.port.device = c.device
      BY DEF Address, Port
    <2>2. Address(c) \in (Nat \ {0}) \X (Nat \ {0}) \X Nat
      BY <1>6 DEF Address
    <2> QED
      BY <2>1, <2>2
  <1> HIDE DEF record
  <1>8. PICK S : S = NicRecords \cup {record}
    OBVIOUS
  <1>9. old \in Seq(S) /\ record \in S
    <2>1. old \in Seq(NicRecords)
      BY <1>4 DEF Topologies
    <2> QED
      BY <1>8, <2>1, SeqSubset
  <1>10. /\ Elements(new) = Elements(old) \cup {record}
         /\ \A i \in 1..Len(new) : (i \in 1..Len(old) /\ new[i] = old[i]) \/ (i = Len(old) + 1 /\ new[i] = record)
    BY <1>5, <1>9, AppendElements, AppendPlace
  <1>11. \A nic \in Elements(new) : /\ nic.address \in (Nat \ {0}) \X (Nat \ {0}) \X Nat
                                    /\ nic.port.device.kind = NicKindOf(recipe)
    BY <1>6, <1>7, <1>10 DEF NamesInv
  <1>12. ASSUME NEW i \in 1..Len(new), NEW j \in 1..Len(new), new[i].address = new[j].address
         PROVE  i = j
    <2>1. \A k \in 1..Len(old) : old[k] \in Elements(old)
      BY DEF Elements
    <2>2. \A k \in 1..Len(old) : old[k].address # record.address
      BY <1>2, <1>3, <1>7, <2>1 DEF Fresh
    <2>3. \A k, l \in 1..Len(old) : old[k].address = old[l].address => k = l
      BY DEF NamesInv
    <2> QED
      BY <1>10, <1>12, <2>2, <2>3
  <1>13. ASSUME NEW k \in 1..Len(calls')
         PROVE  Fresh(Named(recipe), topology', calls'[k])
    <2>1. PICK e : e = calls'[k]
      OBVIOUS
    <2>2. Fresh(Named(recipe), topology, e) /\ ~ Clash(Named(recipe), c, e)
      BY <1>3, <2>1
    <2>3. e.call = "createNIC" => \A nic \in Elements(new) : nic.address # Address(e)
      <3>1. e.call = "createNIC" => Address(c) # Address(e)
        BY <1>2, <2>2 DEF Clash, Address
      <3> QED
        BY <1>7, <1>10, <2>2, <3>1 DEF Fresh
    <2>4. Named(recipe) /\ e.call = "createSwitch" =>
              \A d \in Elements(topology'.devices) : d.id # e.device
      BY <1>5, <2>2 DEF Fresh
    <2> QED
      BY <2>1, <2>3, <2>4 DEF Fresh
  <1>14. /\ Named(recipe) => \A i, j \in 1..Len(topology'.devices) :
               topology'.devices[i].id = topology'.devices[j].id => i = j
         /\ \A d \in Elements(topology'.devices) : d.id \in NamesOf(recipe)
    BY <1>5 DEF NamesInv
  <1> QED
    BY <1>2, <1>3, <1>11, <1>12, <1>13, <1>14 DEF NamesInv

\* The other steps leave devices and interfaces alone.
LEMMA OthersKeepNames ==
    ASSUME GeneratorInv, NamesInv, recipe' = recipe,
           topology'.devices = topology.devices, topology'.nics = topology.nics,
           \/ calls # <<>> /\ calls' = Tail(calls)
           \/ calls' = <<>>
           \/ calls' = calls
    PROVE  NamesInv'
  <1>1. \A e : Fresh(Named(recipe), topology', e) <=> Fresh(Named(recipe), topology, e)
    BY DEF Fresh
  <1>2. /\ calls' \in Clear(Named(recipe), CallsOf(recipe))
        /\ \A k \in 1..Len(calls') : Fresh(Named(recipe), topology, calls'[k])
    <2>1. CASE calls # <<>> /\ calls' = Tail(calls)
      <3>1. PICK c : c = Head(calls)
        OBVIOUS
      <3> QED
        BY <2>1, <3>1, NamesGoOn
    <2>2. CASE calls' = <<>>
      BY <2>2 DEF Clear
    <2>3. CASE calls' = calls
      BY <2>3 DEF NamesInv
    <2> QED
      BY <2>1, <2>2, <2>3
  <1> QED
    BY <1>1, <1>2 DEF NamesInv

LEMMA NamesInvariant == Spec => []NamesInv
  <1>1. Init => NamesInv
    <2> SUFFICES ASSUME Init PROVE NamesInv
      OBVIOUS
    <2>1. Buildable(recipe) /\ calls = GeneratorCalls(recipe)
      BY RecipesAssumption DEF Init
    <2>2. calls \in Clear(Named(recipe), CallsOf(recipe))
      BY <2>1, CallsAreClear
    <2>3. /\ Len(topology.nics) = 0 /\ Len(topology.devices) = 0
          /\ Elements(topology.nics) = {} /\ Elements(topology.devices) = {}
      BY DEF Init, Nothing, Elements
    <2> QED
      BY <2>2, <2>3 DEF NamesInv, Fresh
  <1>2. NamesInv /\ GeneratorInv /\ GeneratorInv' /\ [Next]_vars => NamesInv'
    <2> SUFFICES ASSUME NamesInv, GeneratorInv, GeneratorInv', [Next]_vars PROVE NamesInv'
      OBVIOUS
    <2>0. topology \in Topologies
      BY DEF GeneratorInv, TopologyInv
    <2>1. CASE CreateSwitch
      BY <2>1, SwitchIsNamed
    <2>2. CASE CreateNIC
      BY <2>2, NICIsNamed
    <2>3. CASE CreateLink \/ CreateExternalLink
      BY <2>0, <2>3, OthersKeepNames DEF CreateLink, CreateExternalLink, Calling, Topologies
    <2>4. CASE LatchMinPort \/ StartAtPort \/ EndAtPort
      BY <2>4, OthersKeepNames DEF LatchMinPort, StartAtPort, EndAtPort, Calling
    <2>5. CASE SavePodTopology \/ PodNotSaved \/ SaveTopology
      BY <2>5, OthersKeepNames DEF SavePodTopology, PodNotSaved, SaveTopology, Calling
    <2>6. CASE UNCHANGED vars
      BY <2>6, OthersKeepNames DEF vars
    <2> QED
      BY <2>1, <2>2, <2>3, <2>4, <2>5, <2>6 DEF Next
  <1> QED
    BY <1>1, <1>2, GeneratorInvariant, PTL DEF Spec

------------------------------------------------------------------------------
\* Addresses and the names in the netcfg file.

LEMMA DistinctIfApart ==
    ASSUME NEW n \in Nat, NEW f, f = [i \in 1..n |-> f[i]],
           \A i, j \in 1..n : f[i] = f[j] => i = j
    PROVE  AllDistinct(f)
  <1>1. Len(f) = n
    OBVIOUS
  <1>2. Elements(f) = {f[i] : i \in 1..n}
    BY <1>1 DEF Elements
  <1>3. f \in Bijection(1..n, Elements(f))
    <2>1. f \in [1..n -> Elements(f)]
      BY <1>2
    <2>2. f \in Injection(1..n, Elements(f))
      BY <2>1 DEF Injection, IsInjective
    <2>3. \A t \in Elements(f) : \E i \in 1..n : f[i] = t
      BY <1>2
    <2> QED
      BY <2>1, <2>2, <2>3 DEF Bijection, Surjection
  <1>4. ExistsBijection(1..n, Elements(f))
    BY <1>3 DEF ExistsBijection
  <1> QED
    BY <1>1, <1>4, FS_CountingElements DEF AllDistinct

\* Equal pairs have equal halves.
LEMMA SamePair ==
    ASSUME NEW x \in Nat, NEW h \in Nat, NEW y \in Nat, NEW k \in Nat,
           <<x, h>> = <<y, k>>
    PROVE  x = y /\ h = k
  BY SMT

\* With up to ten racks, how many digits the leaf has shows in the text.
LEMMA TextTellsAddress ==
    ASSUME NEW a \in (Nat \ {0}) \X (Nat \ {0}) \X Nat,
           NEW b \in (Nat \ {0}) \X (Nat \ {0}) \X Nat,
           a[1] <= 10, a[2] < 1000, b[1] <= 10, b[2] < 1000,
           IPv6(a) = IPv6(b)
    PROVE  a = b
  <1>1. PICK r \in Nat, l \in Nat, h \in Nat :
            a = <<r, l, h>> /\ 1 <= r /\ r <= 10 /\ 1 <= l /\ l < 1000
    BY SMT
  <1>2. PICK s \in Nat, m \in Nat, k \in Nat :
            b = <<s, m, k>> /\ 1 <= s /\ s <= 10 /\ 1 <= m /\ m < 1000
    BY SMT
  <1>3. PICK x \in Nat : /\ x = r * (IF l < 10 THEN 10 ELSE IF l < 100 THEN 100 ELSE 1000) + l
                         /\ IPv6(a) = <<x, h>>
    BY <1>1 DEF IPv6
  <1>4. PICK y \in Nat : /\ y = s * (IF m < 10 THEN 10 ELSE IF m < 100 THEN 100 ELSE 1000) + m
                         /\ IPv6(b) = <<y, k>>
    BY <1>2 DEF IPv6
  <1>5. x = y /\ h = k
    <2>1. <<x, h>> = <<y, k>>
      <3>1. IPv6(a) = <<x, h>>
        BY <1>3
      <3>2. IPv6(b) = <<y, k>>
        BY <1>4
      <3> QED
        BY <3>1, <3>2, Zenon
    <2> QED
      BY <2>1, SamePair
  <1>6. /\ l < 10 => x = 10 * r + l
        /\ 10 <= l /\ l < 100 => x = 100 * r + l
        /\ 100 <= l => x = 1000 * r + l
    BY <1>3
  <1>7. /\ m < 10 => x = 10 * s + m
        /\ 10 <= m /\ m < 100 => x = 100 * s + m
        /\ 100 <= m => x = 1000 * s + m
    BY <1>4, <1>5
  <1>8. r = s /\ l = m
    <2>1. CASE l < 10
      BY <1>1, <1>2, <1>6, <1>7, <2>1
    <2>2. CASE 10 <= l /\ l < 100
      BY <1>1, <1>2, <1>6, <1>7, <2>2
    <2>3. CASE 100 <= l
      BY <1>1, <1>2, <1>6, <1>7, <2>3
    <2> QED
      BY <2>1, <2>2, <2>3
  <1> QED
    BY <1>1, <1>2, <1>5, <1>8

\* No two interfaces of a generated topology have the same MAC or IPv4 address; nor,
\* with up to ten racks and numbers of up to three digits, the same IPv6 address.
THEOREM AddressesDiffer == Spec => []AddressesAreDistinct
  <1>1. GeneratorInv /\ NamesInv => AddressesAreDistinct
    <2> SUFFICES ASSUME GeneratorInv, NamesInv PROVE AddressesAreDistinct
      OBVIOUS
    <2>1. PICK n \in Nat : n = Len(topology.nics)
      BY DEF GeneratorInv, TopologyInv, Topologies
    <2>2. PICK addresses : addresses = [i \in 1..n |-> topology.nics[i].address]
      OBVIOUS
    <2>3. PICK text : text = [i \in 1..n |-> IPv6(addresses[i])]
      OBVIOUS
    <2>4. \A i, j \in 1..n : addresses[i] = addresses[j] => i = j
      BY <2>1, <2>2 DEF NamesInv
    <2>5. \A i \in 1..n : addresses[i] \in (Nat \ {0}) \X (Nat \ {0}) \X Nat
      BY <2>1, <2>2 DEF NamesInv, Elements
    <2>6. AllDistinct(addresses)
      BY <2>2, <2>4, DistinctIfApart
    <2>7. ASSUME \A a \in Elements(addresses) : a[1] <= 10 /\ a[2] < 1000
          PROVE  AllDistinct(text)
      <3>1. \A i \in 1..n : addresses[i] \in Elements(addresses)
        BY <2>2 DEF Elements
      <3>2. ASSUME NEW i \in 1..n, NEW j \in 1..n, text[i] = text[j]
            PROVE  i = j
        <4>1. IPv6(addresses[i]) = IPv6(addresses[j])
          BY <2>3, <3>2
        <4>2. addresses[i] = addresses[j]
          BY <2>5, <2>7, <3>1, <4>1, TextTellsAddress
        <4> QED
          BY <2>4, <4>2
      <3> QED
        BY <2>3, <3>2, DistinctIfApart
    <2>8. /\ addresses = [i \in 1..Len(topology.nics) |-> topology.nics[i].address]
          /\ text = [i \in 1..Len(topology.nics) |->
                        IPv6([k \in 1..Len(topology.nics) |-> topology.nics[k].address][i])]
      BY <2>1, <2>2, <2>3
    <2> QED
      BY <2>6, <2>7, <2>8, Zenon DEF AddressesAreDistinct
  <1> QED
    BY <1>1, GeneratorInvariant, NamesInvariant, PTL

\* The numbers that the devices of a named fabric have in the file differ.
LEMMA SegmentTellsDevice ==
    ASSUME Named(recipe), NEW d \in NamesOf(recipe), NEW e \in NamesOf(recipe),
           Buildable(recipe), d.index < 65536, e.index < 65536,
           d.kind = "leaf" => d.index < 100,
           e.kind = "leaf" => e.index < 100,
           d.kind = "spine" /\ e.kind = "ipu" => d.index <= 100,
           e.kind = "spine" /\ d.kind = "ipu" => e.index <= 100,
           NodeSid(d) = NodeSid(e)
    PROVE  d = e
  <1>1. /\ d = [kind |-> d.kind, index |-> d.index] /\ d.index \in Nat
        /\ e = [kind |-> e.kind, index |-> e.index] /\ e.index \in Nat
    BY DEF NamesOf, Devices
  <1>2. recipe.kind \in {"tier", "access", "plain"}
    BY DEF Named, Buildable
  <1>3. CASE recipe.kind = "tier"
    <2>1. d.kind = "superspine" /\ e.kind = "superspine"
      BY <1>3 DEF NamesOf
    <2>2. d.index = e.index
      BY <1>1, <2>1 DEF NodeSid, ParsedIndex
    <2> QED
      BY <1>1, <2>1, <2>2
  <1>4. CASE recipe.kind # "tier"
    <2>1. /\ d.kind \in {"spine", "leaf", "ipu"} /\ 1 <= d.index
          /\ d.kind = "ipu" => 101 <= d.index
          /\ e.kind \in {"spine", "leaf", "ipu"} /\ 1 <= e.index
          /\ e.kind = "ipu" => 101 <= e.index
      BY <1>2, <1>4 DEF NamesOf
    <2>2. d.kind = e.kind
      BY <1>1, <2>1 DEF NodeSid, ParsedIndex
    <2>3. d.index = e.index
      BY <1>1, <2>2 DEF NodeSid, ParsedIndex
    <2> QED
      BY <1>1, <2>2, <2>3
  <1> QED
    BY <1>3, <1>4

\* Two interfaces on ports of one number are on one device, whose number stands for it.
LEMMA InterfacesHavePorts ==
    ASSUME GeneratorInv, NamesInv, Apart,
           NEW i \in 1..Len(topology.nics), NEW j \in 1..Len(topology.nics),
           topology.nics[i].port.device.index = topology.nics[j].port.device.index,
           SDNNumber(topology, topology.nics[i].port) = SDNNumber(topology, topology.nics[j].port)
    PROVE  i = j
  <1>1. PICK a, b : a = topology.nics[i].port /\ b = topology.nics[j].port
    OBVIOUS
  <1>2. topology.nics[i] \in Elements(topology.nics) /\ topology.nics[j] \in Elements(topology.nics)
    BY DEF Elements
  <1>3. a \in Ports /\ b \in Ports
    <2>1. topology.nics \in Seq(NicRecords)
      BY DEF GeneratorInv, TopologyInv, Topologies
    <2>2. topology.nics[i] \in NicRecords /\ topology.nics[j] \in NicRecords
      BY <2>1
    <2> QED
      BY <1>1, <2>2 DEF NicRecords
  <1>4. HasPort(topology, a) /\ HasPort(topology, b)
    BY <1>1, <1>2, MadeHasPort DEF GeneratorInv, TopologyInv
  <1>5. a.number = b.number
    <2>1. SDNNumber(topology, a) = SDNNumber(topology, b)
      BY <1>1
    <2>2. a.number + 200 = b.number + 200
      BY <1>4, <2>1 DEF SDNNumber
    <2> QED
      BY <1>3, <2>2 DEF Ports
  <1>6. a.device = b.device
    <2>1. a.device.kind = b.device.kind
      BY <1>1, <1>2 DEF NamesInv
    <2>2. a.device.index = b.device.index
      BY <1>1
    <2> QED
      BY <1>3, <2>1, <2>2 DEF Ports, Devices
  <1>7. a = b
    BY <1>3, <1>5, <1>6 DEF Ports
  <1>8. PICK e1, e2 : e1 = <<"nic", i>> /\ e2 = <<"nic", j>>
    OBVIOUS
  <1>9. PortAt(topology, e1) = a /\ PortAt(topology, e2) = b
    BY <1>1, <1>8 DEF PortAt
  <1>10. IsLocal(a) /\ IsLocal(b)
    BY <1>3 DEF Ports, Devices, IsLocal
  <1>11. e1 \in LocalEnds(topology) /\ e2 \in LocalEnds(topology)
    BY <1>8, <1>9, <1>10 DEF LocalEnds, Ends
  <1>12. e1 = e2
    BY <1>7, <1>9, <1>11 DEF Apart
  <1> QED
    BY <1>8, <1>12

\* In the netcfg file of a generated topology no two devices have the same node segment,
\* within the numbers that two digits leave; and where the recipe fits no two
\* interfaces have the same logical port, whatever the tenants.
THEOREM NetcfgNamesDiffer == Spec => []NetcfgNamesAreDistinct
  <1>1. GeneratorInv /\ FitInv /\ NamesInv => NetcfgNamesAreDistinct
    <2> SUFFICES ASSUME GeneratorInv, FitInv, NamesInv PROVE NetcfgNamesAreDistinct
      OBVIOUS
    <2>1. PICK m \in Nat, n \in Nat : m = Len(topology.devices) /\ n = Len(topology.nics)
      BY DEF GeneratorInv, TopologyInv, Topologies
    <2>2. ASSUME Named(recipe),
                 \A d, e \in DeviceIDs(topology) :
                    /\ d.index < 65536
                    /\ d.kind = "leaf" => d.index < 100
                    /\ d.kind = "spine" /\ e.kind = "ipu" => d.index <= 100
          PROVE  AllDistinct([i \in 1..m |-> NodeSid(topology.devices[i].id)])
      <3>1. PICK sids : sids = [i \in 1..m |-> NodeSid(topology.devices[i].id)]
        OBVIOUS
      <3>2. ASSUME NEW i \in 1..m, NEW j \in 1..m, sids[i] = sids[j]
            PROVE  i = j
        <4>1. PICK d, e : d = topology.devices[i].id /\ e = topology.devices[j].id
          OBVIOUS
        <4>2. /\ topology.devices[i] \in Elements(topology.devices)
              /\ topology.devices[j] \in Elements(topology.devices)
          BY <2>1 DEF Elements
        <4>3. d \in NamesOf(recipe) /\ e \in NamesOf(recipe)
          BY <4>1, <4>2 DEF NamesInv
        <4>4. d \in DeviceIDs(topology) /\ e \in DeviceIDs(topology)
          BY <4>1, <4>2 DEF DeviceIDs
        <4>5. NodeSid(d) = NodeSid(e)
          BY <3>1, <3>2, <4>1
        <4>6. /\ d.index < 65536 /\ e.index < 65536
              /\ d.kind = "leaf" => d.index < 100
              /\ e.kind = "leaf" => e.index < 100
              /\ d.kind = "spine" /\ e.kind = "ipu" => d.index <= 100
              /\ e.kind = "spine" /\ d.kind = "ipu" => e.index <= 100
          BY <2>2, <4>4
        <4>7. Named(recipe) /\ Buildable(recipe)
          BY <2>2 DEF GeneratorInv
        <4>8. d = e
          BY <4>3, <4>5, <4>6, <4>7, SegmentTellsDevice
        <4> QED
          BY <2>1, <4>1, <4>7, <4>8 DEF NamesInv
      <3>3. sids = [i \in 1..m |-> sids[i]]
        BY <3>1
      <3> QED
        BY <3>1, <3>2, <3>3, DistinctIfApart
    <2>3. ASSUME Fits(recipe)
          PROVE  AllDistinct(LogicalPorts(topology, Tenants))
      <3>1. PICK names : names = LogicalPorts(topology, Tenants)
        OBVIOUS
      <3>2. names = [i \in 1..n |->
                [tenant |-> TenantOf(Tenants, i),
                 device |-> topology.nics[i].port.device.index,
                 port   |-> SDNNumber(topology, topology.nics[i].port)]]
        BY <2>1, <3>1 DEF LogicalPorts
      <3>3. ASSUME NEW i \in 1..n, NEW j \in 1..n, names[i] = names[j]
            PROVE  i = j
        <4>1. names[i].device = names[j].device /\ names[i].port = names[j].port
          BY <3>3
        <4>2. /\ topology.nics[i].port.device.index = topology.nics[j].port.device.index
              /\ SDNNumber(topology, topology.nics[i].port) = SDNNumber(topology, topology.nics[j].port)
          BY <3>2, <4>1
        <4> QED
          BY <2>1, <2>3, <4>2, FitMeansApart, InterfacesHavePorts
      <3>4. names = [i \in 1..n |-> names[i]]
        BY <3>2
      <3> QED
        BY <3>1, <3>3, <3>4, DistinctIfApart
    <2> QED
      BY <2>1, <2>2, <2>3 DEF NetcfgNamesAreDistinct, Named
  <1> QED
    BY <1>1, GeneratorInvariant, FitInvariant, NamesInvariant, PTL

------------------------------------------------------------------------------
\* The pods of a tier are saved one after the other.

\* The links of the topology to a pod, and the links that lead back.
To(t, pod) == {l \in Elements(t.links) : l.tgt.device.domain = pod}
Back(t, pod) == {ExternalLink(Port(l.tgt.device.id, l.tgt.number), TierDomain, l.src) : l \in To(t, pod)}

\* The file of the pod holds the links back, and is whole.
Stored(pod) ==
    /\ PodFile(pod) \in DOMAIN files
    /\ "truncated" \notin DOMAIN files[PodFile(pod)]
    /\ Elements(files[PodFile(pod)].links) = Back(topology, pod)

\* The pods before are stored, the links back to this one are collected, and none leads
\* to the pods after it.
Reached(pod) ==
    /\ calls \in Passing(pod, recipe.pods)
    /\ \A p \in 1..(pod - 1) : Stored(p)
    /\ \A p \in Nat : pod < p => To(topology, p) = {}
    /\ Elements(podTopology.links) = Back(topology, pod)
    /\ podTopology.links \in Seq(Elements(podTopology.links))
    /\ "links" \in DOMAIN podTopology /\ "truncated" \notin DOMAIN podTopology

PodsInv ==
    recipe.kind = "tier" /\ path = "yaml" /\ result # "failed" =>
        /\ \E pod \in 1..(recipe.pods + 1) : Reached(pod)
        /\ result = "saved" => calls = <<>>

LEMMA PodFiles ==
    ASSUME path = "yaml", NEW p, NEW q
    PROVE  /\ PodFile(p) = PodFile(q) => p = q
           /\ PodFile(p) # TopologyFile
  <1>1. PodFile(p) = <<"pod", p>> /\ PodFile(q) = <<"pod", q>> /\ TopologyFile = <<"topology">>
    BY DEF PodFile, TopologyFile
  <1>2. Len(<<"pod", p>>) = 2 /\ Len(<<"topology">>) = 1
    OBVIOUS
  <1>3. <<"pod", p>> = <<"pod", q>> => p = q
    OBVIOUS
  <1> QED
    BY <1>1, <1>2, <1>3

LEMMA PutEffect ==
    ASSUME NEW map, NEW key, NEW value, NEW k
    PROVE  /\ k \in DOMAIN Put(map, key, value) <=> k \in DOMAIN map \/ k = key
           /\ Put(map, key, value)[key] = value
           /\ k \in DOMAIN map /\ k # key => Put(map, key, value)[k] = map[k]
  BY DEF Put

\* A step that links and saves no pod.
LEMMA PodsKept ==
    ASSUME NEW pod \in Nat, Reached(pod), path = "yaml",
           recipe' = recipe, path' = path, calls' \in Passing(pod, recipe.pods),
           topology'.links = topology.links, podTopology' = podTopology,
           \/ files' = files
           \/ \E t : files' = Put(files, TopologyFile, t)
    PROVE  Reached(pod)'
  <1>1. \A p : To(topology', p) = To(topology, p)
    BY DEF To
  <1>2. \A p : Back(topology', p) = Back(topology, p)
    BY <1>1 DEF Back
  <1>3. ASSUME NEW p, Stored(p)
        PROVE  Stored(p)'
    <2>1. PodFile(p) # TopologyFile /\ PodFile(p)' = PodFile(p)
      BY PodFiles DEF PodFile
    <2>2. PodFile(p) \in DOMAIN files' /\ files'[PodFile(p)] = files[PodFile(p)]
      <3>1. CASE files' = files
        BY <1>3, <3>1 DEF Stored
      <3>2. ASSUME NEW t, files' = Put(files, TopologyFile, t)
            PROVE  PodFile(p) \in DOMAIN files' /\ files'[PodFile(p)] = files[PodFile(p)]
        BY <1>3, <2>1, <3>2, PutEffect DEF Stored
      <3> QED
        BY <3>1, <3>2
    <2> QED
      BY <1>2, <1>3, <2>1, <2>2 DEF Stored
  <1> QED
    BY <1>1, <1>2, <1>3 DEF Reached

\* A link goes to the pod that is being linked, with one back to it.
LEMMA ExternalLinkReaches ==
    ASSUME GeneratorInv, NEW pod \in Nat, recipe.pods \in Nat, Reached(pod), path = "yaml", CreateExternalLink
    PROVE  Reached(pod)'
  <1>1. PICK c : c = Head(calls)
    OBVIOUS
  <1>2. PICK p1, p2 : /\ p1 = Port(c.d1, NextPort(nextPort, c.d1))
                      /\ p2 = Port(c.d2, NextPort(nextPort, c.d2))
    OBVIOUS
  <1>3. PICK link, back : /\ link = ExternalLink(p1, c.pod, p2)
                          /\ back = ExternalLink(p2, TierDomain, p1)
    OBVIOUS
  <1>4. /\ calls # <<>> /\ c.call = "createExternalLink" /\ calls' = Tail(calls)
        /\ recipe' = recipe /\ path' = path /\ files' = files
        /\ topology' = [topology EXCEPT !.links = Append(@, link)]
        /\ podTopology' = [podTopology EXCEPT !.links = Append(@, back)]
    BY <1>1, <1>2, <1>3 DEF CreateExternalLink, Calling
  <1>5. c.pod = pod /\ calls' \in Passing(pod, recipe.pods)
    <2>1. OfPod(c)
      BY <1>4 DEF OfPod
    <2>2. PICK last, cs : last \in Nat /\ last = recipe.pods /\ cs = calls
      OBVIOUS
    <2>3. cs \in Passing(pod, last) /\ cs # <<>>
      BY <1>4, <2>2 DEF Reached
    <2>4. PICK rest : rest = Tail(cs)
      OBVIOUS
    <2>5. c = Head(cs) /\ calls' = rest
      BY <1>1, <1>4, <2>2, <2>4
    <2>6. last \in Nat /\ c = Head(cs)
      BY <2>2, <2>5
    <2>7. /\ OfPod(c) => c.pod = pod /\ pod <= last
          /\ c.call # "savePod" => rest \in Passing(pod, last)
          /\ c.call = "savePod" => rest \in Passing(pod + 1, last)
      BY <2>3, <2>4, <2>6, PassingTail
    <2> QED
      BY <1>4, <2>1, <2>2, <2>5, <2>7
  <1>6. /\ link.tgt.device.domain = pod /\ link.src = p1
        /\ Port(link.tgt.device.id, link.tgt.number) = p2
    BY <1>2, <1>3, <1>5 DEF ExternalLink, Elsewhere, Port
  <1>7. topology'.links = Append(topology.links, link) /\ topology.links \in Seq(LinkRecords)
    BY <1>4 DEF GeneratorInv, TopologyInv, Topologies
  <1>8. Elements(topology'.links) = Elements(topology.links) \cup {link}
    <2>1. PICK S : S = LinkRecords \cup {link}
      OBVIOUS
    <2>2. topology.links \in Seq(S) /\ link \in S
      BY <1>7, <2>1, SeqSubset
    <2> QED
      BY <1>7, <2>2, AppendElements
  <1>9. /\ podTopology'.links = Append(podTopology.links, back)
        /\ DOMAIN podTopology' = DOMAIN podTopology
    BY <1>4 DEF Reached
  <1>10. /\ Elements(podTopology'.links) = Elements(podTopology.links) \cup {back}
         /\ podTopology'.links \in Seq(Elements(podTopology'.links))
    <2>1. PICK S : S = Elements(podTopology.links) \cup {back}
      OBVIOUS
    <2>2. podTopology.links \in Seq(Elements(podTopology.links))
      BY DEF Reached
    <2>3. podTopology.links \in Seq(S) /\ back \in S
      BY <2>1, <2>2, SeqSubset
    <2>4. Append(podTopology.links, back) \in Seq(S)
          /\ Elements(Append(podTopology.links, back)) = Elements(podTopology.links) \cup {back}
      BY <2>3, AppendElements
    <2> QED
      BY <1>9, <2>1, <2>4
  <1>11. To(topology', pod) = To(topology, pod) \cup {link}
    BY <1>6, <1>8 DEF To
  <1>12. Back(topology', pod) = Back(topology, pod) \cup {back}
    BY <1>3, <1>6, <1>11 DEF Back
  <1>13. \A p : p # pod => To(topology', p) = To(topology, p)
    BY <1>6, <1>8 DEF To
  <1>14. \A p : p # pod => Back(topology', p) = Back(topology, p)
    BY <1>13 DEF Back
  <1>15. \A p \in 1..(pod - 1) : Stored(p)'
    <2> SUFFICES ASSUME NEW p \in 1..(pod - 1)
                 PROVE  Stored(p)'
      OBVIOUS
    <2>1. Stored(p) /\ p # pod
      BY DEF Reached
    <2>2. PodFile(p)' = PodFile(p)
      BY <1>4 DEF PodFile
    <2> QED
      BY <1>4, <1>14, <2>1, <2>2 DEF Stored
  <1>16. \A p \in Nat : pod < p => To(topology', p) = {}
    BY <1>13 DEF Reached
  <1>17. Elements(podTopology'.links) = Back(topology', pod)
    BY <1>10, <1>12 DEF Reached
  <1>18. "links" \in DOMAIN podTopology' /\ "truncated" \notin DOMAIN podTopology'
    BY <1>9 DEF Reached
  <1> QED
    BY <1>4, <1>5, <1>10, <1>15, <1>16, <1>17, <1>18 DEF Reached

\* The pod is stored, and the next one begins.
LEMMA SaveReaches ==
    ASSUME NEW pod \in Nat, recipe.pods \in Nat, Reached(pod), path = "yaml", SavePodTopology
    PROVE  Reached(pod + 1)' /\ pod <= recipe.pods
  <1>1. PICK c : c = Head(calls)
    OBVIOUS
  <1>2. /\ calls # <<>> /\ c.call = "savePod" /\ calls' = Tail(calls)
        /\ recipe' = recipe /\ path' = path /\ topology' = topology /\ podTopology' = Nothing
        /\ files' = Put(files, PodFile(c.pod), podTopology)
    BY <1>1 DEF SavePodTopology, Calling, Save
  <1>3. c.pod = pod /\ pod <= recipe.pods /\ calls' \in Passing(pod + 1, recipe.pods)
    <2>1. OfPod(c)
      BY <1>2 DEF OfPod
    <2>2. PICK last, cs : last \in Nat /\ last = recipe.pods /\ cs = calls
      OBVIOUS
    <2>3. cs \in Passing(pod, last) /\ cs # <<>>
      BY <1>2, <2>2 DEF Reached
    <2>4. PICK rest : rest = Tail(cs)
      OBVIOUS
    <2>5. c = Head(cs) /\ calls' = rest
      BY <1>1, <1>2, <2>2, <2>4
    <2>6. last \in Nat /\ c = Head(cs)
      BY <2>2, <2>5
    <2>7. /\ OfPod(c) => c.pod = pod /\ pod <= last
          /\ c.call # "savePod" => rest \in Passing(pod, last)
          /\ c.call = "savePod" => rest \in Passing(pod + 1, last)
      BY <2>3, <2>4, <2>6, PassingTail
    <2> QED
      BY <1>2, <2>1, <2>2, <2>5, <2>7
  <1>4. \A p : PodFile(p)' = PodFile(p)
    BY <1>2 DEF PodFile
  <1>5. Stored(pod)'
    <2>1. PodFile(pod) \in DOMAIN files' /\ files'[PodFile(pod)] = podTopology
      BY <1>2, <1>3, PutEffect
    <2> QED
      BY <1>2, <1>4, <2>1 DEF Stored, Reached
  <1>6. ASSUME NEW p \in 1..(pod - 1)
        PROVE  Stored(p)'
    <2>1. Stored(p) /\ p # pod
      BY DEF Reached
    <2>2. PodFile(p) # PodFile(pod)
      BY <2>1, PodFiles
    <2>3. PodFile(p) \in DOMAIN files' /\ files'[PodFile(p)] = files[PodFile(p)]
      BY <1>2, <1>3, <2>1, <2>2, PutEffect DEF Stored
    <2> QED
      BY <1>2, <1>4, <2>1, <2>3 DEF Stored
  <1>7. \A p \in 1..((pod + 1) - 1) : Stored(p)'
    <2>1. \A p \in 1..((pod + 1) - 1) : p \in 1..(pod - 1) \/ p = pod
      OBVIOUS
    <2> QED
      BY <1>5, <1>6, <2>1
  <1>8. \A p \in Nat : pod + 1 < p => To(topology', p) = {}
    BY <1>2 DEF Reached
  <1>9. Back(topology', pod + 1) = {}
    <2>1. To(topology', pod + 1) = {}
      BY <1>2 DEF Reached
    <2> QED
      BY <2>1 DEF Back
  <1>10. /\ podTopology'.links = <<>> /\ DOMAIN podTopology' = {"devices", "links", "nics"}
         /\ Elements(podTopology'.links) = {}
    BY <1>2 DEF Nothing, Elements
  <1>11. podTopology'.links \in Seq(Elements(podTopology'.links))
    BY <1>10
  <1>12. "links" \in DOMAIN podTopology' /\ "truncated" \notin DOMAIN podTopology'
    BY <1>10
  <1>13. Elements(podTopology'.links) = Back(topology', pod + 1)
    BY <1>9, <1>10
  <1>14. calls' \in Passing(pod + 1, recipe'.pods)
    BY <1>2, <1>3
  <1> QED
    BY <1>3, <1>7, <1>8, <1>11, <1>12, <1>13, <1>14 DEF Reached

LEMMA PodsInvariant == Spec => []PodsInv
  <1>1. Init => PodsInv
    <2> SUFFICES ASSUME Init, recipe.kind = "tier", path = "yaml"
                 PROVE  1 \in 1..(recipe.pods + 1) /\ Reached(1) /\ result # "saved"
      BY DEF PodsInv
    <2>1. Buildable(recipe) /\ calls = SuperSpineTier(recipe) /\ recipe.pods \in Nat
      BY RecipesAssumption DEF Init, GeneratorCalls, Buildable
    <2>2. calls \in Passing(1, recipe.pods)
      BY <2>1, TierPasses
    <2>3. /\ Elements(podTopology.links) = {} /\ podTopology.links = <<>>
          /\ DOMAIN podTopology = {"devices", "links", "nics"}
          /\ Elements(topology.links) = {}
      BY DEF Init, Nothing, Elements
    <2>4. \A p : To(topology, p) = {}
      BY <2>3 DEF To
    <2>5. Back(topology, 1) = {}
      BY <2>4 DEF Back
    <2>6. podTopology.links \in Seq(Elements(podTopology.links))
      BY <2>3
    <2>7. "links" \in DOMAIN podTopology /\ "truncated" \notin DOMAIN podTopology
      BY <2>3
    <2>8. 1..(1 - 1) = {}
      OBVIOUS
    <2>9. Reached(1)
      BY <2>2, <2>3, <2>4, <2>5, <2>6, <2>7, <2>8 DEF Reached
    <2> QED
      BY <2>1, <2>9 DEF Init
  <1>2. PodsInv /\ GeneratorInv /\ [Next]_vars => PodsInv'
    <2> SUFFICES ASSUME PodsInv, GeneratorInv, [Next]_vars,
                        recipe'.kind = "tier", path' = "yaml", result' # "failed"
                 PROVE  /\ \E pod \in 1..(recipe'.pods + 1) : Reached(pod)'
                        /\ result' = "saved" => calls' = <<>>
      BY DEF PodsInv
    <2>1. recipe' = recipe /\ path' = path
      BY DEF Next, vars, CreateSwitch, CreateLink, CreateExternalLink, CreateNIC, LatchMinPort,
             StartAtPort, EndAtPort, SavePodTopology, PodNotSaved, SaveTopology, Calling
    <2>2. result # "failed"
      BY DEF Next, vars, CreateSwitch, CreateLink, CreateExternalLink, CreateNIC, LatchMinPort,
             StartAtPort, EndAtPort, SavePodTopology, PodNotSaved, SaveTopology, Calling
    <2>3. PICK last \in Nat : last = recipe.pods
      BY <2>1 DEF GeneratorInv, Buildable
    <2>4. PICK pod \in 1..(last + 1) : Reached(pod)
      BY <2>1, <2>2, <2>3 DEF PodsInv
    <2>5. result = "saved" => calls = <<>>
      BY <2>1, <2>2 DEF PodsInv
    <2>6. pod \in Nat /\ recipe.pods \in Nat /\ path = "yaml" /\ calls \in Passing(pod, last)
      BY <2>1, <2>3, <2>4 DEF Reached
    <2>7. ASSUME calls # <<>>, calls' = Tail(calls), result' = result, Head(calls).call # "savePod"
          PROVE  calls' \in Passing(pod, recipe.pods) /\ (result' = "saved" => calls' = <<>>)
      <3>1. PICK cs, rest, c : cs = calls /\ rest = Tail(cs) /\ c = Head(cs)
        OBVIOUS
      <3>2. cs \in Passing(pod, last) /\ cs # <<>> /\ c.call # "savePod"
        BY <2>6, <2>7, <3>1
      <3>3. rest \in Passing(pod, last)
        BY <2>6, <3>1, <3>2, PassingTail
      <3> QED
        BY <2>3, <2>5, <2>7, <3>1, <3>3
    <2>8. calls # <<>> => Head(calls).call \in {"createSwitch", "startAt", "endAt", "createExternalLink", "savePod"}
      <3>1. PICK cs, rest, c : cs = calls /\ rest = Tail(cs) /\ c = Head(cs)
        OBVIOUS
      <3>2. cs # <<>> => c \in TierCalls
        BY <2>3, <2>6, <3>1, PassingTail
      <3> QED
        BY <3>1, <3>2 DEF TierCalls
    <2>9. topology \in Topologies
      BY DEF GeneratorInv, TopologyInv
    <2>10. CASE CreateSwitch \/ StartAtPort \/ EndAtPort
      <3>1. /\ calls # <<>> /\ calls' = Tail(calls) /\ result' = result
            /\ Head(calls).call # "savePod"
            /\ podTopology' = podTopology /\ files' = files
        BY <2>10 DEF CreateSwitch, StartAtPort, EndAtPort, Calling
      <3>2. topology'.links = topology.links
        BY <2>9, <2>10 DEF CreateSwitch, StartAtPort, EndAtPort, Topologies
      <3>3. calls' \in Passing(pod, recipe.pods) /\ (result' = "saved" => calls' = <<>>)
        BY <2>7, <3>1
      <3>4. Reached(pod)'
        BY <2>1, <2>4, <2>6, <3>1, <3>2, <3>3, PodsKept
      <3> QED
        BY <2>1, <2>3, <3>3, <3>4
    <2>11. CASE CreateExternalLink
      <3>1. /\ calls # <<>> /\ calls' = Tail(calls) /\ result' = result
            /\ Head(calls).call # "savePod"
        BY <2>11 DEF CreateExternalLink, Calling
      <3>2. Reached(pod)'
        BY <2>4, <2>6, <2>11, ExternalLinkReaches
      <3> QED
        BY <2>1, <2>3, <2>7, <3>1, <3>2
    <2>12. CASE SavePodTopology
      <3>1. /\ calls # <<>> /\ result' = result
        BY <2>12 DEF SavePodTopology, Calling
      <3>2. Reached(pod + 1)' /\ pod <= last
        BY <2>3, <2>4, <2>6, <2>12, SaveReaches
      <3>3. pod + 1 \in 1..(recipe'.pods + 1)
        BY <2>1, <2>3, <3>2
      <3> QED
        BY <2>5, <3>1, <3>2, <3>3
    <2>13. CASE SaveTopology
      <3>1. /\ calls = <<>> /\ calls' = calls /\ topology' = topology /\ podTopology' = podTopology
            /\ \E t : files' = Put(files, TopologyFile, t)
        BY <2>13 DEF SaveTopology, Save
      <3>2. Reached(pod)'
        BY <2>1, <2>3, <2>4, <2>6, <3>1, PodsKept
      <3> QED
        BY <2>1, <2>3, <3>1, <3>2
    <2>14. CASE UNCHANGED vars
      <3>1. /\ calls' = calls /\ topology' = topology /\ podTopology' = podTopology
            /\ files' = files /\ result' = result
        BY <2>14 DEF vars
      <3>2. Reached(pod)'
        BY <2>1, <2>3, <2>4, <2>6, <3>1, PodsKept
      <3> QED
        BY <2>1, <2>3, <2>5, <3>1, <3>2
    <2>15. ~ CreateLink /\ ~ CreateNIC /\ ~ LatchMinPort
      BY <2>8 DEF CreateLink, CreateNIC, LatchMinPort, Calling
    <2>16. ~ PodNotSaved
      BY DEF PodNotSaved
    <2> QED
      BY <2>10, <2>11, <2>12, <2>13, <2>14, <2>15, <2>16 DEF Next
  <1> QED
    BY <1>1, <1>2, GeneratorInvariant, PTL DEF Spec

\* A tier's own file is saved after the addendum of every pod, each of which is whole and
\* leads back over the links to its pod, and no others, whatever the size of the tier.
THEOREM PodsAreSavedFirst == Spec => []TierComesWithItsPods
  <1>1. GeneratorInv /\ PodsInv => TierComesWithItsPods
    <2> SUFFICES ASSUME GeneratorInv, PodsInv, result = "saved", recipe.kind = "tier", path = "yaml",
                        NEW pod \in 1..recipe.pods
                 PROVE  /\ PodFile(pod) \in DOMAIN files
                        /\ files[PodFile(pod)] # Truncated
                        /\ Elements(files[PodFile(pod)].links) = Back(topology, pod)
      BY DEF TierComesWithItsPods, Saved, Back, To
    <2>1. PICK last \in Nat : last = recipe.pods
      BY DEF GeneratorInv, Buildable
    <2>2. PICK next \in 1..(last + 1) : Reached(next)
      BY <2>1 DEF PodsInv
    <2>3. calls = <<>>
      BY DEF PodsInv
    <2>4. next..last = {}
      <3>1. \A p \in next..last : \E i \in 1..Len(calls) : calls[i] = Saving(p)
        BY <2>1, <2>2 DEF Reached, Passing
      <3>2. 1..Len(calls) = {}
        BY <2>3
      <3> QED
        BY <3>1, <3>2
    <2>5. pod \in 1..(next - 1)
      <3>1. next \notin next..last
        BY <2>4
      <3> QED
        BY <2>1, <3>1
    <2>6. Stored(pod)
      BY <2>2, <2>5 DEF Reached
    <2>7. "truncated" \in DOMAIN Truncated
      BY DEF Truncated
    <2> QED
      BY <2>6, <2>7 DEF Stored
  <1> QED
    BY <1>1, GeneratorInvariant, PodsInvariant, PTL

------------------------------------------------------------------------------
\* The uplinks of a leaf are below its lowest port, and the hosts are not.

\* The ports at which links from spines end, and those that are taken for hosts.
UpPorts(t) == {l.tgt : l \in {l \in Elements(t.links) : l.src.device.kind = "spine"}}
HostPorts(t) == {l.src : l \in {l \in Elements(t.links) : l.tgt.device.kind = "ipu"}}
                \cup {nic.port : nic \in Elements(t.nics)}

\* What a call does to the next and the lowest port of each device, and what it adds.
Dispenses(c) ==
    /\ \A d \in Devices : Takes(c, d) =>
           NextPort(nextPort', d) \in {NextPort(nextPort, d) + 1, Of(minPort, d)}
    /\ \A d \in Devices : Takes(c, d) /\ NextPort(nextPort, d) < PortCount(recipe, d) =>
           NextPort(nextPort', d) = NextPort(nextPort, d) + 1
    /\ \A d \in Devices : ~ Takes(c, d) /\ ~ (c.call = "startAt" /\ c.device = d) =>
           NextPort(nextPort', d) = NextPort(nextPort, d)
    /\ \A d \in Devices : ~ (c.call \in {"createSwitch", "latch"} /\ c.device = d) =>
           Of(minPort', d) = Of(minPort, d)
    /\ c.call = "latch" => Of(minPort', c.device) = NextPort(nextPort, c.device)
    /\ \A p \in UpPorts(topology') :
           p \in UpPorts(topology) \/ (UpCall(c, p.device) /\ p.number = NextPort(nextPort, p.device))
    /\ \A p \in HostPorts(topology') :
           p \in HostPorts(topology) \/ (HostCall(c, p.device) /\ p.number = NextPort(nextPort, p.device))

\* A leaf before its first port is latched, after that, and a device without uplinks.
BeforeLatch(d) ==
    /\ d.kind = "leaf"
    /\ \E n \in Nat : calls \in Latching(d, n) /\ NextPort(nextPort, d) + n <= PortCount(recipe, d)
    /\ \A p \in UpPorts(topology) : p.device = d => p.number \in 1..(NextPort(nextPort, d) - 1)
    /\ \A p \in HostPorts(topology) : p.device # d
AfterLatch(d) ==
    /\ calls \in Seq(After(d))
    /\ Of(minPort, d) \in Nat /\ Of(minPort, d) <= NextPort(nextPort, d)
    /\ \A p \in UpPorts(topology) : p.device = d => p.number \in 1..(Of(minPort, d) - 1)
    /\ \A p \in HostPorts(topology) : p.device = d => p.number \in Nat /\ Of(minPort, d) <= p.number
NoUplinks(d) ==
    /\ calls \in Seq(Lacks(d))
    /\ \A p \in UpPorts(topology) : p.device # d

LatchInv ==
    recipe.kind = "plain" /\ recipe.spines * recipe.spineTrunk < recipe.leafPorts /\ result # "failed" =>
        \A d \in Devices : BeforeLatch(d) \/ AfterLatch(d) \/ NoUplinks(d)

\* After the latch, and without uplinks, it stays so; before it, the call latches or does not.
LEMMA LatchStep ==
    ASSUME GeneratorInv, recipe.kind = "plain", NEW d \in Devices,
           calls # <<>>, calls' = Tail(calls), recipe' = recipe, Dispenses(Head(calls)),
           BeforeLatch(d) \/ AfterLatch(d) \/ NoUplinks(d)
    PROVE  (BeforeLatch(d) \/ AfterLatch(d) \/ NoUplinks(d))'
  <1>1. PICK c : c = Head(calls)
    OBVIOUS
  <1>2. PICK next, nextp, low, lowp :
            /\ next = NextPort(nextPort, d) /\ nextp = NextPort(nextPort', d)
            /\ low = Of(minPort, d) /\ lowp = Of(minPort', d)
    OBVIOUS
  <1>3. PICK ups, upsp, hosts, hostsp :
            /\ ups = UpPorts(topology) /\ upsp = UpPorts(topology')
            /\ hosts = HostPorts(topology) /\ hostsp = HostPorts(topology')
    OBVIOUS
  <1>4. next \in Nat \ {0} /\ PortCount(recipe, d) \in Nat
    <2>1. Own(recipe, d)
      BY DEF Own
    <2> QED
      BY <1>2, <2>1, PortCounts DEF GeneratorInv, MapsInv, Numbered, NextPort
  <1>5. /\ Takes(c, d) => nextp \in {next + 1, low}
        /\ Takes(c, d) /\ next < PortCount(recipe, d) => nextp = next + 1
        /\ ~ Takes(c, d) /\ ~ (c.call = "startAt" /\ c.device = d) => nextp = next
        /\ ~ (c.call \in {"createSwitch", "latch"} /\ c.device = d) => lowp = low
        /\ c.call = "latch" /\ c.device = d => lowp = next
        /\ \A p \in upsp : p.device = d => p \in ups \/ (UpCall(c, d) /\ p.number = next)
        /\ \A p \in hostsp : p.device = d => p \in hosts \/ (HostCall(c, d) /\ p.number = next)
    BY <1>1, <1>2, <1>3 DEF Dispenses
  <1>6. UpCall(c, d) => Takes(c, d)
    BY DEF UpCall, Takes
  <1>7. CASE BeforeLatch(d)
    <2>1. PICK n \in Nat : calls \in Latching(d, n) /\ next + n <= PortCount(recipe, d)
      BY <1>2, <1>7 DEF BeforeLatch
    <2>2. /\ d.kind = "leaf" /\ \A p \in ups : p.device = d => p.number \in 1..(next - 1)
          /\ \A p \in hosts : p.device # d
      BY <1>2, <1>3, <1>7 DEF BeforeLatch
    <2>3. \/ c = [call |-> "latch", device |-> d] /\ calls' \in Seq(After(d))
          \/ /\ c \in Prior(d)
             /\ Takes(c, d) => n > 0 /\ calls' \in Latching(d, n - 1)
             /\ ~ Takes(c, d) => calls' \in Latching(d, n)
      BY <1>1, <2>1, LatchingTail
    <2>4. CASE c = [call |-> "latch", device |-> d] /\ calls' \in Seq(After(d))
      <3>1. /\ c.call = "latch" /\ c.device = d /\ ~ Takes(c, d) /\ ~ UpCall(c, d) /\ ~ HostCall(c, d)
        BY <2>4 DEF Takes, UpCall, HostCall
      <3>2. nextp = next /\ lowp = next
        BY <1>5, <3>1
      <3>3. \A p \in upsp : p.device = d => p.number \in 1..(lowp - 1)
        BY <1>5, <2>2, <3>1, <3>2
      <3>4. \A p \in hostsp : p.device # d
        BY <1>5, <2>2, <3>1
      <3> QED
        BY <1>2, <1>3, <1>4, <2>4, <3>2, <3>3, <3>4 DEF AfterLatch
    <2>5. CASE c \in Prior(d) /\ Takes(c, d) /\ n > 0 /\ calls' \in Latching(d, n - 1)
      <3>1. UpCall(c, d) /\ ~ HostCall(c, d)
        BY <2>2, <2>5 DEF Prior, UpCall, HostCall
      <3>2. next < PortCount(recipe, d) /\ n - 1 \in Nat
        BY <1>4, <2>1, <2>5
      <3>3. nextp = next + 1
        BY <1>5, <2>5, <3>2
      <3>4. \A p \in upsp : p.device = d => p.number \in 1..(nextp - 1)
        BY <1>4, <1>5, <2>2, <3>3
      <3>5. \A p \in hostsp : p.device # d
        BY <1>5, <2>2, <3>1
      <3>6. nextp + (n - 1) <= PortCount(recipe, d)
        BY <1>4, <2>1, <3>3
      <3> QED
        BY <1>2, <1>3, <2>2, <2>5, <3>2, <3>4, <3>5, <3>6 DEF BeforeLatch
    <2>6. CASE c \in Prior(d) /\ ~ Takes(c, d) /\ calls' \in Latching(d, n)
      <3>1. ~ UpCall(c, d) /\ ~ HostCall(c, d) /\ ~ (c.call = "startAt" /\ c.device = d)
        BY <2>6 DEF Prior, Takes, UpCall, HostCall, Sets
      <3>2. nextp = next
        BY <1>5, <2>6, <3>1
      <3>3. \A p \in upsp : p.device = d => p.number \in 1..(nextp - 1)
        BY <1>5, <2>2, <3>1, <3>2
      <3>4. \A p \in hostsp : p.device # d
        BY <1>5, <2>2, <3>1
      <3> QED
        BY <1>2, <1>3, <2>1, <2>2, <2>6, <3>2, <3>3, <3>4 DEF BeforeLatch
    <2> QED
      BY <2>3, <2>4, <2>5, <2>6
  <1>8. CASE AfterLatch(d)
    <2>1. /\ calls \in Seq(After(d)) /\ low \in Nat /\ low <= next
          /\ \A p \in ups : p.device = d => p.number \in 1..(low - 1)
          /\ \A p \in hosts : p.device = d => p.number \in Nat /\ low <= p.number
      BY <1>2, <1>3, <1>8 DEF AfterLatch
    <2>2. c \in After(d) /\ calls' \in Seq(After(d))
      <3> HIDE DEF After
      <3> QED
        BY <1>1, <2>1
    <2>3. ~ UpCall(c, d) /\ ~ (c.call \in {"createSwitch", "latch", "startAt"} /\ c.device = d)
      BY <2>2 DEF After, Sets
    <2>4. lowp = low
      BY <1>5, <2>3
    <2>5. lowp <= nextp
      BY <1>4, <1>5, <2>1, <2>3, <2>4
    <2>6. \A p \in upsp : p.device = d => p.number \in 1..(lowp - 1)
      BY <1>5, <2>1, <2>3, <2>4
    <2>7. \A p \in hostsp : p.device = d => p.number \in Nat /\ lowp <= p.number
      BY <1>4, <1>5, <2>1, <2>4
    <2> QED
      BY <1>2, <1>3, <2>1, <2>2, <2>4, <2>5, <2>6, <2>7 DEF AfterLatch
  <1>9. CASE NoUplinks(d)
    <2>1. c \in Lacks(d) /\ calls' \in Seq(Lacks(d))
      <3>1. calls \in Seq(Lacks(d))
        BY <1>9 DEF NoUplinks
      <3> HIDE DEF Lacks
      <3> QED
        BY <1>1, <3>1
    <2>2. \A p \in upsp : p.device # d
      BY <1>3, <1>5, <1>9, <2>1 DEF Lacks, NoUplinks
    <2> QED
      BY <1>3, <2>1, <2>2 DEF NoUplinks
  <1> QED
    BY <1>7, <1>8, <1>9

\* A device moves on to the next of its ports, or back to the lowest.
LEMMA MovesOnOrBack ==
    ASSUME NEW next, NEW d
    PROVE  NextPort(Reserved(next, d), d) \in {NextPort(next, d) + 1, Of(minPort, d)}
  <1>1. PICK v : v = IF NextPort(next, d) + 1 > Of(maxPort, d) THEN Of(minPort, d)
                     ELSE NextPort(next, d) + 1
    OBVIOUS
  <1>2. Reserved(next, d) = Put(next, d, v)
    BY <1>1 DEF Reserved
  <1>3. d \in DOMAIN Reserved(next, d) /\ Reserved(next, d)[d] = v
    BY <1>2 DEF Put
  <1>4. NextPort(Reserved(next, d), d) = v
    BY <1>3 DEF NextPort
  <1> QED
    BY <1>1, <1>4

LEMMA LinkDispenses ==
    ASSUME GeneratorInv, recipe.kind = "plain", CreateLink
    PROVE  Dispenses(Head(calls))
  <1>1. PICK c : c = Head(calls)
    OBVIOUS
  <1> DEFINE once == Reserved(nextPort, c.src)
             link == [src |-> Port(c.src, NextPort(nextPort, c.src)),
                      tgt |-> Port(c.tgt, NextPort(once, c.tgt)),
                      unidirectional |-> FALSE]
  <1>2. /\ calls # <<>> /\ c.call = "createLink"
        /\ topology' = [topology EXCEPT !.links = Append(@, link)]
        /\ nextPort' = Reserved(once, c.tgt) /\ minPort' = minPort
    BY <1>1 DEF CreateLink, Calling
  <1>3. /\ Asked(c) = {c.src, c.tgt} /\ c.src # c.tgt
        /\ c.src \in DOMAIN maxPort /\ c.tgt \in DOMAIN maxPort
    BY <1>1, <1>2, NextKinds
  <1>4. c.src \in Devices /\ c.tgt \in Devices /\ Own(recipe, c.src) /\ Own(recipe, c.tgt)
    BY <1>3 DEF Asked
  <1>5. /\ Numbered(nextPort) /\ topology \in Topologies /\ c.src \in DOMAIN minPort
    <2>1. There(c.src) \in Done
      BY <1>1, <1>2, NextCall DEF Needs
    <2> QED
      BY <2>1, KnownDevices DEF GeneratorInv, MapsInv, TopologyInv
  <1>6. Numbered(once)
    BY <1>3, <1>4, <1>5, ReservedPorts
  <1>7. /\ NextPort(nextPort, c.src) < PortCount(recipe, c.src) =>
               NextPort(once, c.src) = NextPort(nextPort, c.src) + 1
        /\ NextPort(once, c.src) \in {NextPort(nextPort, c.src) + 1, Of(minPort, c.src)}
        /\ \A e : e # c.src => NextPort(once, e) = NextPort(nextPort, e)
    BY <1>3, <1>4, <1>5, MovesOn, MovesOnOrBack
  <1>8. /\ NextPort(once, c.tgt) < PortCount(recipe, c.tgt) =>
               NextPort(nextPort', c.tgt) = NextPort(once, c.tgt) + 1
        /\ NextPort(nextPort', c.tgt) \in {NextPort(once, c.tgt) + 1, Of(minPort, c.tgt)}
        /\ \A e : e # c.tgt => NextPort(nextPort', e) = NextPort(once, e)
    <2> HIDE DEF once
    <2> QED
      BY <1>2, <1>3, <1>4, <1>6, MovesOn, MovesOnOrBack
  <1>9. /\ link.src.device = c.src /\ link.src.number = NextPort(nextPort, c.src)
        /\ link.tgt.device = c.tgt /\ link.tgt.number = NextPort(nextPort, c.tgt)
    BY <1>3, <1>7 DEF Port
  <1> HIDE DEF once, link
  <1>10. topology'.links = Append(topology.links, link) /\ topology'.nics = topology.nics
    <2> HIDE DEF LinkRecords, DeviceRecords, NicRecords
    <2> QED
      BY <1>2, <1>5 DEF Topologies
  <1>11. Elements(topology'.links) = Elements(topology.links) \cup {link}
    <2>1. topology.links \in Seq(LinkRecords)
      <3> HIDE DEF LinkRecords, DeviceRecords, NicRecords
      <3> QED
        BY <1>5 DEF Topologies
    <2>2. PICK S : S = LinkRecords \cup {link}
      OBVIOUS
    <2>3. topology.links \in Seq(S) /\ link \in S
      BY <2>1, <2>2, SeqSubset
    <2> QED
      BY <1>10, <2>3, AppendElements
  <1>12. \A p \in UpPorts(topology') : \/ p \in UpPorts(topology)
                                       \/ p = link.tgt /\ link.src.device.kind = "spine"
    BY <1>11 DEF UpPorts
  <1>13. \A p \in HostPorts(topology') : \/ p \in HostPorts(topology)
                                         \/ p = link.src /\ link.tgt.device.kind = "ipu"
    BY <1>10, <1>11 DEF HostPorts
  <1>14. \A d : Takes(c, d) <=> d = c.src \/ d = c.tgt
    BY <1>2 DEF Takes
  <1>15. \A d \in Devices : Takes(c, d) =>
             NextPort(nextPort', d) \in {NextPort(nextPort, d) + 1, Of(minPort, d)}
    BY <1>3, <1>7, <1>8, <1>14
  <1>16. \A d \in Devices : Takes(c, d) /\ NextPort(nextPort, d) < PortCount(recipe, d) =>
             NextPort(nextPort', d) = NextPort(nextPort, d) + 1
    BY <1>3, <1>7, <1>8, <1>14
  <1>17. \A d \in Devices : ~ Takes(c, d) => NextPort(nextPort', d) = NextPort(nextPort, d)
    BY <1>7, <1>8, <1>14
  <1>18. \A p \in UpPorts(topology') :
             p \in UpPorts(topology) \/ (UpCall(c, p.device) /\ p.number = NextPort(nextPort, p.device))
    BY <1>2, <1>9, <1>12 DEF UpCall
  <1>19. \A p \in HostPorts(topology') :
             p \in HostPorts(topology) \/ (HostCall(c, p.device) /\ p.number = NextPort(nextPort, p.device))
    BY <1>2, <1>9, <1>13 DEF HostCall
  <1> QED
    BY <1>1, <1>2, <1>15, <1>16, <1>17, <1>18, <1>19 DEF Dispenses

LEMMA NICDispenses ==
    ASSUME GeneratorInv, recipe.kind = "plain", CreateNIC
    PROVE  Dispenses(Head(calls))
  <1>1. PICK c : c = Head(calls)
    OBVIOUS
  <1> DEFINE nic == [host |-> c.host, address |-> <<c.rack, c.leaf, c.hostID>>,
                     port |-> Port(c.device, NextPort(nextPort, c.device))]
  <1>2. /\ calls # <<>> /\ c.call = "createNIC"
        /\ topology' = [topology EXCEPT !.nics = Append(@, nic)]
        /\ nextPort' = Reserved(nextPort, c.device) /\ minPort' = minPort
    BY <1>1 DEF CreateNIC, Calling
  <1>3. Asked(c) = {c.device} /\ c.device \in DOMAIN maxPort
    BY <1>1, <1>2, NextKinds
  <1>4. c.device \in Devices /\ Own(recipe, c.device)
    BY <1>3 DEF Asked
  <1>5. Numbered(nextPort) /\ topology \in Topologies
    BY DEF GeneratorInv, MapsInv, TopologyInv
  <1>6. /\ NextPort(nextPort, c.device) < PortCount(recipe, c.device) =>
               NextPort(nextPort', c.device) = NextPort(nextPort, c.device) + 1
        /\ NextPort(nextPort', c.device) \in {NextPort(nextPort, c.device) + 1, Of(minPort, c.device)}
        /\ \A e : e # c.device => NextPort(nextPort', e) = NextPort(nextPort, e)
    BY <1>2, <1>3, <1>4, <1>5, MovesOn, MovesOnOrBack
  <1>7. nic.port.device = c.device /\ nic.port.number = NextPort(nextPort, c.device)
    BY DEF Port
  <1> HIDE DEF nic
  <1>8. topology'.nics = Append(topology.nics, nic) /\ topology'.links = topology.links
    <2> HIDE DEF LinkRecords, DeviceRecords, NicRecords
    <2> QED
      BY <1>2, <1>5 DEF Topologies
  <1>9. Elements(topology'.nics) = Elements(topology.nics) \cup {nic}
    <2>1. topology.nics \in Seq(NicRecords)
      <3> HIDE DEF LinkRecords, DeviceRecords, NicRecords
      <3> QED
        BY <1>5 DEF Topologies
    <2>2. PICK S : S = NicRecords \cup {nic}
      OBVIOUS
    <2>3. topology.nics \in Seq(S) /\ nic \in S
      BY <2>1, <2>2, SeqSubset
    <2> QED
      BY <1>8, <2>3, AppendElements
  <1>10. UpPorts(topology') = UpPorts(topology)
    BY <1>8 DEF UpPorts
  <1>11. \A p \in HostPorts(topology') : p \in HostPorts(topology) \/ p = nic.port
    BY <1>8, <1>9 DEF HostPorts
  <1>12. \A d : Takes(c, d) <=> d = c.device
    BY <1>2 DEF Takes
  <1>13. \A p \in HostPorts(topology') :
             p \in HostPorts(topology) \/ (HostCall(c, p.device) /\ p.number = NextPort(nextPort, p.device))
    BY <1>2, <1>7, <1>11 DEF HostCall
  <1> QED
    BY <1>1, <1>2, <1>6, <1>10, <1>12, <1>13 DEF Dispenses

\* Calls that take no port.
LEMMA QuietDispenses ==
    ASSUME GeneratorInv, recipe.kind = "plain", CreateSwitch \/ LatchMinPort \/ StartAtPort \/ EndAtPort
    PROVE  Dispenses(Head(calls))
  <1>1. PICK c : c = Head(calls)
    OBVIOUS
  <1>2. /\ calls # <<>> /\ topology \in Topologies
        /\ c.call \in {"createSwitch", "latch", "startAt", "endAt"}
    BY <1>1 DEF CreateSwitch, LatchMinPort, StartAtPort, EndAtPort, Calling, GeneratorInv, TopologyInv
  <1>3. topology'.links = topology.links /\ topology'.nics = topology.nics
    <2>1. CASE CreateSwitch
      <3> DEFINE new == [id |-> c.device, agentPort |-> 20000 + agentPort, ports |-> c.portCount]
      <3>1. topology' = [topology EXCEPT !.devices = Append(@, new)]
        BY <1>1, <2>1 DEF CreateSwitch
      <3> HIDE DEF new
      <3>2. \A t \in Topologies : DOMAIN t = {"devices", "links", "nics"}
        BY DEF Topologies
      <3> QED
        BY <1>2, <3>1, <3>2
    <2>2. CASE ~ CreateSwitch
      BY <2>2 DEF LatchMinPort, StartAtPort, EndAtPort
    <2> QED
      BY <2>1, <2>2
  <1>4. UpPorts(topology') = UpPorts(topology) /\ HostPorts(topology') = HostPorts(topology)
    BY <1>3 DEF UpPorts, HostPorts
  <1>5. \A d : ~ Takes(c, d)
    BY <1>2 DEF Takes
  <1>6. \A d : ~ (c.call = "startAt" /\ c.device = d) => NextPort(nextPort', d) = NextPort(nextPort, d)
    <2>1. CASE StartAtPort
      <3>1. c.call = "startAt"
        BY <1>1, <2>1 DEF StartAtPort, Calling
      <3> QED
        BY <1>1, <2>1, <3>1, StartAtMoves
    <2>2. CASE ~ StartAtPort
      <3>1. nextPort' = nextPort
        BY <2>2 DEF CreateSwitch, LatchMinPort, EndAtPort
      <3> QED
        BY <3>1
    <2> QED
      BY <2>1, <2>2
  <1>7. \A d : ~ (c.call \in {"createSwitch", "latch"} /\ c.device = d) => Of(minPort', d) = Of(minPort, d)
    <2>1. CASE CreateSwitch \/ LatchMinPort
      <3>1. c.call \in {"createSwitch", "latch"} /\ \E v : minPort' = Put(minPort, c.device, v)
        BY <1>1, <2>1 DEF CreateSwitch, LatchMinPort, Calling
      <3> QED
        BY <3>1 DEF Put, Of
    <2>2. CASE ~ (CreateSwitch \/ LatchMinPort)
      <3>1. minPort' = minPort
        BY <2>2 DEF StartAtPort, EndAtPort
      <3> QED
        BY <3>1
    <2> QED
      BY <2>1, <2>2
  <1>8. c.call = "latch" => Of(minPort', c.device) = NextPort(nextPort, c.device)
    <2> SUFFICES ASSUME c.call = "latch"
                 PROVE  Of(minPort', c.device) = NextPort(nextPort, c.device)
      OBVIOUS
    <2>1. minPort' = Put(minPort, c.device, Of(nextPort, c.device))
      BY <1>1 DEF CreateSwitch, LatchMinPort, StartAtPort, EndAtPort, Calling
    <2>2. Of(minPort', c.device) = Of(nextPort, c.device)
      BY <2>1 DEF Put, Of
    <2>3. Linked(c.device) \in Done
      BY <1>1, <1>2, NextCall DEF Needs
    <2>4. c.device \in DOMAIN nextPort
      BY <2>3 DEF Done, There, Linked
    <2> QED
      BY <2>2, <2>4 DEF Of, NextPort
  <1> QED
    BY <1>1, <1>4, <1>5, <1>6, <1>7, <1>8 DEF Dispenses

LEMMA LatchInvariant == Spec => []LatchInv
  <1>1. Init => LatchInv
    <2> SUFFICES ASSUME Init, recipe.kind = "plain",
                        recipe.spines * recipe.spineTrunk < recipe.leafPorts, NEW d \in Devices
                 PROVE  BeforeLatch(d) \/ NoUplinks(d)
      BY DEF LatchInv
    <2>1. Buildable(recipe) /\ calls = PlainFabric(recipe)
      BY RecipesAssumption DEF Init, GeneratorCalls
    <2>2. PICK n \in Nat, m \in Nat : n = recipe.spines * recipe.spineTrunk /\ m = recipe.leafPorts
      <3>1. recipe.spines \in Nat /\ recipe.spineTrunk \in Nat /\ recipe.leafPorts \in Nat
        BY <2>1 DEF Buildable
      <3> QED
        BY <3>1
    <2>3. UpPorts(topology) = {} /\ HostPorts(topology) = {}
      <3>1. Elements(topology.links) = {} /\ Elements(topology.nics) = {}
        BY DEF Init, Nothing, Elements
      <3> QED
        BY <3>1 DEF UpPorts, HostPorts
    <2>4. CASE d.kind = "leaf" /\ calls \in Latching(d, n)
      <3>1. NextPort(nextPort, d) = 1
        BY DEF Init, None, NextPort
      <3>2. PortCount(recipe, d) = m
        BY <2>2, <2>4 DEF PortCount
      <3>3. NextPort(nextPort, d) + n <= PortCount(recipe, d)
        BY <2>2, <3>1, <3>2
      <3> QED
        BY <2>3, <2>4, <3>3 DEF BeforeLatch
    <2>5. CASE calls \in Seq(Lacks(d))
      BY <2>3, <2>5 DEF NoUplinks
    <2> QED
      BY <2>1, <2>2, <2>4, <2>5, PlainFabricLatches
  <1>2. LatchInv /\ GeneratorInv /\ [Next]_vars => LatchInv'
    <2> SUFFICES ASSUME LatchInv, GeneratorInv, [Next]_vars, recipe'.kind = "plain",
                        recipe'.spines * recipe'.spineTrunk < recipe'.leafPorts, result' # "failed",
                        NEW d \in Devices
                 PROVE  (BeforeLatch(d) \/ AfterLatch(d) \/ NoUplinks(d))'
      BY DEF LatchInv
    <2>1. recipe' = recipe
      BY DEF Next, vars, CreateSwitch, CreateLink, CreateExternalLink, CreateNIC, LatchMinPort,
             StartAtPort, EndAtPort, SavePodTopology, PodNotSaved, SaveTopology, Calling
    <2>2. result # "failed"
      BY DEF Next, vars, CreateSwitch, CreateLink, CreateExternalLink, CreateNIC, LatchMinPort,
             StartAtPort, EndAtPort, SavePodTopology, PodNotSaved, SaveTopology, Calling
    <2>3. recipe.kind = "plain" /\ (BeforeLatch(d) \/ AfterLatch(d) \/ NoUplinks(d))
      BY <2>1, <2>2 DEF LatchInv
    <2>4. ASSUME calls # <<>>, calls' = Tail(calls), Dispenses(Head(calls))
          PROVE  (BeforeLatch(d) \/ AfterLatch(d) \/ NoUplinks(d))'
      BY <2>1, <2>3, <2>4, LatchStep
    <2>5. ASSUME topology' = topology, builderVars' = builderVars,
                 calls' = calls
          PROVE  (BeforeLatch(d) \/ AfterLatch(d) \/ NoUplinks(d))'
      BY <2>1, <2>3, <2>5 DEF BeforeLatch, AfterLatch, NoUplinks, builderVars
    <2>6. CASE CreateLink
      BY <2>3, <2>4, <2>6, LinkDispenses DEF CreateLink, Calling
    <2>7. CASE CreateNIC
      BY <2>3, <2>4, <2>7, NICDispenses DEF CreateNIC, Calling
    <2>8. CASE CreateSwitch \/ LatchMinPort \/ StartAtPort \/ EndAtPort
      <3>1. calls # <<>> /\ calls' = Tail(calls)
        BY <2>8 DEF CreateSwitch, LatchMinPort, StartAtPort, EndAtPort, Calling
      <3> QED
        BY <2>3, <2>4, <2>8, <3>1, QuietDispenses
    <2>9. CASE CreateExternalLink
      <3>1. calls # <<>> /\ Head(calls).call = "createExternalLink"
        BY <2>9 DEF CreateExternalLink, Calling
      <3>2. Head(calls).d2 \in Devices /\ ~ Own(recipe, Head(calls).d2)
        BY <3>1, NextKinds
      <3> QED
        BY <2>3, <3>2 DEF Own
    <2>10. CASE SavePodTopology
      <3>1. calls # <<>> /\ Head(calls).call = "savePod" /\ calls' = Tail(calls)
            /\ topology' = topology /\ builderVars' = builderVars
        BY <2>10 DEF SavePodTopology, Calling
      <3>2. Dispenses(Head(calls))
        BY <3>1 DEF Dispenses, Takes, builderVars
      <3> QED
        BY <2>4, <3>1, <3>2
    <2>11. CASE SaveTopology
      BY <2>5, <2>11 DEF SaveTopology, builderVars
    <2>12. CASE PodNotSaved
      BY <2>12 DEF PodNotSaved
    <2>13. CASE UNCHANGED vars
      BY <2>5, <2>13 DEF vars, builderVars
    <2> QED
      BY <2>6, <2>7, <2>8, <2>9, <2>10, <2>11, <2>12, <2>13 DEF Next
  <1> QED
    BY <1>1, <1>2, GeneratorInvariant, PTL DEF Spec

\* NextDevicePortID wraps round to the port that was latched after the uplinks, so that in a
\* plain fabric no host is on the port of an uplink, however many hosts a rack has.
THEOREM HostsStayOffTheUplinks == Spec => []HostsSpareTheUplinks
  <1>1. LatchInv /\ GeneratorInv => HostsSpareTheUplinks
    <2> SUFFICES ASSUME LatchInv, GeneratorInv, result = "saved", recipe.kind = "plain",
                        recipe.spines * recipe.spineTrunk < recipe.leafPorts
                 PROVE  UpPorts(topology) \cap HostPorts(topology) = {}
      BY DEF HostsSpareTheUplinks, UpPorts, HostPorts, Saved
    <2> SUFFICES ASSUME NEW p, p \in UpPorts(topology), p \in HostPorts(topology)
                 PROVE  FALSE
      OBVIOUS
    <2>1. p.device \in Devices
      <3>1. /\ \A l \in Elements(topology.links) : Made(l.src)
            /\ \A nic \in Elements(topology.nics) : Made(nic.port)
        BY DEF GeneratorInv, TopologyInv
      <3>2. Made(p)
        BY <3>1 DEF HostPorts
      <3>3. p.device \in DOMAIN minPort
        BY <3>2 DEF Made, GeneratorInv, MapsInv
      <3> QED
        BY <3>3 DEF GeneratorInv, MapsInv
    <2>2. PICK d : d = p.device
      OBVIOUS
    <2>3. BeforeLatch(d) \/ AfterLatch(d) \/ NoUplinks(d)
      BY <2>1, <2>2 DEF LatchInv
    <2>4. ~ BeforeLatch(d) /\ ~ NoUplinks(d)
      BY <2>2 DEF BeforeLatch, NoUplinks
    <2>5. ~ AfterLatch(d)
      BY <2>2 DEF AfterLatch
    <2> QED
      BY <2>3, <2>4, <2>5
  <1> QED
    BY <1>1, LatchInvariant, GeneratorInvariant, PTL

------------------------------------------------------------------------------
\* The ports that are reserved on a spine stay free.

\* A spine is asked for nothing more, or is past the ports that are reserved, or is yet to
\* be started there; and nothing was put on the ports that are reserved.
Reserving(d) ==
    Uses(calls, d) = 0 \/ NextPort(nextPort, d) > recipe.reserved \/ Start(recipe, d) \in Elements(calls)
ReserveInv ==
    Fits(recipe) /\ recipe.kind = "plain" =>
        /\ \A d \in Devices : d.kind = "spine" => Reserving(d)
        /\ \A end \in LocalEnds(topology) : PortAt(topology, end).device.kind = "spine" =>
                                                PortAt(topology, end).number > recipe.reserved

\* Once the spines have been started, a call moves on the counters of those it asks.
LEMMA RunningReserves ==
    ASSUME GeneratorInv, GeneratorInv', ReserveInv, Fits(recipe), recipe.kind = "plain",
           Running, calls # <<>>, calls' = Tail(calls), recipe' = recipe, Hands(Head(calls))
    PROVE  ReserveInv'
  <1>1. PICK c : c = Head(calls)
    OBVIOUS
  <1>2. /\ calls \in Seq(Later(recipe)) /\ calls' \in Seq(Later(recipe))
        /\ \A d : /\ Uses(calls, d) \in Nat /\ Uses(calls', d) \in Nat
                  /\ Takes(c, d) => Uses(calls, d) = Uses(calls', d) + 1
                  /\ ~ Takes(c, d) => Uses(calls, d) = Uses(calls', d)
    BY <1>1, OneCallLess DEF Running
  <1>3. \A d \in Devices : Own(recipe, d)
    BY DEF Own
  <1>4. recipe.reserved \in Nat
    BY DEF GeneratorInv, Buildable
  <1>5. \A d \in Devices : NextPort(nextPort, d) \in Nat /\ PortCount(recipe, d) \in Nat
    <2>1. Buildable(recipe) /\ MapsInv
      BY DEF GeneratorInv
    <2> QED
      BY <1>3, <2>1, PortCounts DEF NextPort, MapsInv, Numbered
  <1>6. ASSUME NEW d \in Devices, d.kind = "spine", Uses(calls, d) # 0
        PROVE  NextPort(nextPort, d) > recipe.reserved /\ Spare(d)
    <2>1. Start(recipe, d) \notin Elements(calls)
      <3>1. Start(recipe, d) \notin Later(recipe)
        BY <1>3 DEF Start, Later, OwnStart
      <3>2. \A i \in 1..Len(calls) : calls[i] \in Later(recipe)
        <4> HIDE DEF Later
        <4> QED
          BY <1>2
      <3> QED
        BY <3>1, <3>2 DEF Elements
    <2> QED
      BY <1>3, <1>6, <2>1 DEF ReserveInv, Reserving, Running
  <1>7. ASSUME NEW d \in Devices, d.kind = "spine"
        PROVE  Reserving(d)'
    <2>1. CASE d \in Asked(c)
      <3>1. Uses(calls, d) = Uses(calls', d) + 1
        BY <1>2, <2>1 DEF Asked
      <3>2. NextPort(nextPort, d) > recipe.reserved /\ Spare(d)
        BY <1>2, <1>6, <1>7, <3>1
      <3>3. CASE NextPort(nextPort, d) < PortCount(recipe, d)
        <4>1. NextPort(nextPort', d) = NextPort(nextPort, d) + 1
          BY <1>1, <2>1, <3>3 DEF Hands
        <4>2. NextPort(nextPort', d) > recipe.reserved
          BY <1>4, <1>5, <1>7, <3>2, <4>1
        <4> QED
          BY <4>2 DEF Reserving
      <3>4. CASE ~ (NextPort(nextPort, d) < PortCount(recipe, d))
        <4>1. Uses(calls', d) = 0
          BY <1>2, <1>5, <1>7, <3>1, <3>2, <3>4 DEF Spare
        <4> QED
          BY <4>1 DEF Reserving
      <3> QED
        BY <3>3, <3>4
    <2>2. CASE d \notin Asked(c)
      <3>1. ~ Takes(c, d)
        BY <1>3, <1>7, <2>2 DEF Asked
      <3>2. Uses(calls', d) = Uses(calls, d) /\ NextPort(nextPort', d) = NextPort(nextPort, d)
        BY <1>1, <1>2, <1>3, <1>7, <2>2, <3>1 DEF Hands
      <3>3. Uses(calls', d) = 0 \/ NextPort(nextPort', d) > recipe.reserved
        BY <1>6, <1>7, <3>2
      <3> QED
        BY <3>3 DEF Reserving
    <2> QED
      BY <2>1, <2>2
  <1>8. ASSUME NEW end \in LocalEnds(topology'), PortAt(topology', end).device.kind = "spine"
        PROVE  PortAt(topology', end).number > recipe.reserved
    <2>1. CASE end \in LocalEnds(topology)
      BY <1>1, <1>8, <2>1 DEF Hands, ReserveInv
    <2>2. CASE end \notin LocalEnds(topology)
      <3>1. PICK d : d = PortAt(topology', end).device
        OBVIOUS
      <3>2. d \in Asked(c) /\ PortAt(topology', end).number = NextPort(nextPort, d)
        BY <1>1, <2>2, <3>1 DEF Hands
      <3>3. d \in Devices /\ Uses(calls, d) = Uses(calls', d) + 1
        BY <1>2, <3>2 DEF Asked
      <3> QED
        BY <1>2, <1>6, <1>8, <3>1, <3>2, <3>3
    <2> QED
      BY <2>1, <2>2
  <1> QED
    BY <1>7, <1>8 DEF ReserveInv

\* The early calls set the first ports, and take none.
LEMMA StartingReserves ==
    ASSUME GeneratorInv, ReserveInv, Fits(recipe), recipe.kind = "plain",
           Starting, ~ Running, Next, calls # <<>>, Starting'
    PROVE  ReserveInv'
  <1>1. PICK c : c = Head(calls)
    OBVIOUS
  <1>2. /\ CreateSwitch \/ StartAtPort
        /\ c \in Early(recipe)
    BY <1>1, StartingCall
  <1>3. calls' = Tail(calls) /\ recipe' = recipe
    BY <1>2 DEF CreateSwitch, StartAtPort, Calling
  <1>4. ~ Takes(c, c.device) /\ \A d : ~ Takes(c, d)
    BY <1>2 DEF Early, OwnStart, Takes
  <1>5. \A d : Uses(calls', d) = Uses(calls, d)
    <2>1. calls \in Seq(Calls)
      BY DEF Starting, Fitting
    <2>2. \A P : Cardinality(Places(calls, P)) =
                 (IF c \in P THEN 1 ELSE 0) + Cardinality(Places(Tail(calls), P))
      BY <1>1, <2>1, TailPlaces
    <2>3. ASSUME NEW d
          PROVE  Uses(calls', d) = Uses(calls, d)
      <3>1. c \notin Taking(d)
        BY <1>4 DEF Taking
      <3>2. Tail(calls) \in Seq(Calls)
        <4> HIDE DEF Calls
        <4> QED
          BY <2>1
      <3>3. Cardinality(Places(Tail(calls), Taking(d))) \in Nat
        BY <3>2, PlacesFinite
      <3> QED
        BY <1>3, <2>2, <3>1, <3>3 DEF Uses
    <2> QED
      BY <2>3
  <1>6. \A e \in Elements(calls) : e = c \/ e \in Elements(calls')
    <2>1. PICK S : S = Calls
      OBVIOUS
    <2>2. calls \in Seq(S)
      BY <2>1 DEF Starting, Fitting
    <2>3. ASSUME NEW i \in 1..Len(calls), i # 1
          PROVE  i - 1 \in 1..Len(calls') /\ calls'[i - 1] = calls[i]
      BY <1>3, <2>2, <2>3
    <2>4. c = calls[1]
      BY <1>1, <2>2
    <2> QED
      BY <2>3, <2>4 DEF Elements
  <1>7. ASSUME NEW d \in Devices, d.kind = "spine"
        PROVE  Reserving(d)'
    <2>1. Reserving(d)
      BY <1>7 DEF ReserveInv
    <2>2. First(recipe, d) = recipe.reserved + 1 /\ recipe.reserved \in Nat
      BY <1>7 DEF First, GeneratorInv, Buildable
    <2>3. CASE c.call = "startAt" /\ c.device = d
      <3>1. StartAtPort
        BY <1>1, <1>2, <2>3 DEF CreateSwitch, Calling
      <3>2. c.port = First(recipe, d)
        BY <1>2, <2>3 DEF Early
      <3>3. NextPort(nextPort', d) = c.port
        BY <1>1, <2>3, <3>1, StartAtMoves
      <3>4. NextPort(nextPort', d) > recipe.reserved
        BY <2>2, <3>2, <3>3
      <3> QED
        BY <1>3, <3>4 DEF Reserving
    <2>4. CASE ~ (c.call = "startAt" /\ c.device = d)
      <3>1. NextPort(nextPort', d) = NextPort(nextPort, d)
        <4>1. CASE CreateSwitch
          BY <4>1 DEF CreateSwitch
        <4>2. CASE StartAtPort
          <5>1. c.call = "startAt"
            BY <1>1, <4>2 DEF StartAtPort, Calling
          <5> QED
            BY <1>1, <2>4, <4>2, <5>1, StartAtMoves
        <4> QED
          BY <1>2, <4>1, <4>2
      <3>2. Start(recipe, d) # c
        BY <2>4 DEF Start
      <3>3. Start(recipe, d) \in Elements(calls) => Start(recipe, d) \in Elements(calls')
        BY <1>6, <3>2
      <3> QED
        BY <1>3, <1>5, <2>1, <3>1, <3>3 DEF Reserving, Start
    <2> QED
      BY <2>3, <2>4
  <1>8. LocalEnds(topology') = {}
    <2>1. Len(topology'.links) = 0 /\ Len(topology'.nics) = 0
      BY DEF Starting
    <2>2. 1..0 = {}
      OBVIOUS
    <2> QED
      BY <2>1, <2>2 DEF LocalEnds, Ends
  <1> QED
    BY <1>7, <1>8 DEF ReserveInv

LEMMA ReserveInvariant == Spec => []ReserveInv
  <1>1. Init => ReserveInv
    <2> SUFFICES ASSUME Init, Fits(recipe), recipe.kind = "plain"
                 PROVE  ReserveInv
      BY DEF ReserveInv
    <2>1. Buildable(recipe) /\ calls = PlainFabric(recipe)
      BY RecipesAssumption DEF Init, GeneratorCalls
    <2>2. \A d \in Devices : d.kind = "spine" => Reserving(d)
      BY <2>1, PlainReserves DEF Reserving
    <2>3. LocalEnds(topology) = {}
      <3>1. Len(topology.links) = 0 /\ Len(topology.nics) = 0
        BY DEF Init, Nothing
      <3>2. 1..0 = {}
        OBVIOUS
      <3> QED
        BY <3>1, <3>2 DEF LocalEnds, Ends
    <2> QED
      BY <2>2, <2>3 DEF ReserveInv
  <1>2. ReserveInv /\ FitInv /\ FitInv' /\ GeneratorInv /\ GeneratorInv' /\ [Next]_vars => ReserveInv'
    <2> SUFFICES ASSUME ReserveInv, FitInv, FitInv', GeneratorInv, GeneratorInv', [Next]_vars,
                        Fits(recipe'), recipe'.kind = "plain"
                 PROVE  ReserveInv'
      BY DEF ReserveInv
    <2>1. recipe' = recipe
      BY DEF Next, vars, CreateSwitch, CreateLink, CreateExternalLink, CreateNIC, LatchMinPort,
             StartAtPort, EndAtPort, SavePodTopology, PodNotSaved, SaveTopology, Calling
    <2>2. Fits(recipe) /\ recipe.kind = "plain" /\ (Starting \/ Running)
      BY <2>1 DEF FitInv
    <2>3. ASSUME topology' = topology, nextPort' = nextPort, calls' = calls
          PROVE  ReserveInv'
      BY <2>1, <2>3 DEF ReserveInv, Reserving
    <2>4. ASSUME topology' = topology, calls' = <<>>
          PROVE  ReserveInv'
      <3>1. ASSUME NEW d
            PROVE  Uses(calls', d) = 0
        <4>1. <<>> \in Within(recipe, d, 0)
          BY WithinNothing
        <4>2. Uses(calls', d) <= 0 /\ Uses(calls', d) \in Nat
          BY <2>4, <4>1, PlacesFinite DEF Within, Uses
        <4> QED
          BY <4>2
      <3> QED
        BY <2>1, <2>4, <3>1 DEF ReserveInv, Reserving
    <2>5. CASE PodNotSaved \/ SaveTopology \/ UNCHANGED vars
      <3>1. topology' = topology /\ nextPort' = nextPort /\ (calls' = <<>> \/ calls' = calls)
        BY <2>5 DEF PodNotSaved, SaveTopology, builderVars, vars
      <3> QED
        BY <2>3, <2>4, <3>1
    <2>6. CASE Next /\ ~ PodNotSaved /\ ~ SaveTopology
      <3>1. calls # <<>> /\ calls' = Tail(calls)
        BY <2>6 DEF Next, CreateSwitch, CreateLink, CreateExternalLink, CreateNIC, LatchMinPort,
                    StartAtPort, EndAtPort, SavePodTopology, Calling
      <3>2. CASE Running
        <4>1. Hands(Head(calls))
          BY <2>6, <3>2, RunningHands DEF Next
        <4> QED
          BY <2>1, <2>2, <3>1, <3>2, <4>1, RunningReserves
      <3>3. CASE ~ Running
        <4>1. Starting'
          BY <2>2, <2>6, <3>1, <3>3, StartingKeeps
        <4> QED
          BY <2>2, <2>6, <3>1, <3>3, <4>1, StartingReserves
      <3> QED
        BY <3>2, <3>3
    <2> QED
      BY <2>5, <2>6
  <1> QED
    BY <1>1, <1>2, GeneratorInvariant, FitInvariant, PTL DEF Spec

\* In a plain fabric that fits, links leave spines above the ports that are reserved.
LEMMA LinksSpareTheReserved ==
    ASSUME GeneratorInv, ReserveInv, Fits(recipe), recipe.kind = "plain", NEW i \in 1..Len(topology.links),
           topology.links[i].src.device.kind = "spine"
    PROVE  topology.links[i].src.number > recipe.reserved
  <1>1. PICK end : end = <<"src", i>>
    OBVIOUS
  <1>2. end \in Ends(topology) /\ PortAt(topology, end) = topology.links[i].src
    BY <1>1 DEF Ends, PortAt
  <1>3. IsLocal(topology.links[i].src)
    <2>1. topology.links \in Seq(LinkRecords)
      <3> HIDE DEF LinkRecords, DeviceRecords, NicRecords
      <3> QED
        BY DEF GeneratorInv, TopologyInv, Topologies
    <2>2. topology.links[i] \in LinkRecords
      <3> HIDE DEF LinkRecords
      <3> QED
        BY <2>1
    <2>3. topology.links[i].src \in Ports
      <3> HIDE DEF Ports, FarPorts
      <3> QED
        BY <2>2 DEF LinkRecords
    <2> QED
      BY <2>3 DEF Ports, IsLocal, Devices
  <1>4. end \in LocalEnds(topology)
    BY <1>2, <1>3 DEF LocalEnds
  <1> QED
    BY <1>2, <1>4 DEF ReserveInv

------------------------------------------------------------------------------
\* What a tier attaches to a spine of a pod.

\* The links of the topology that lead to a device of a pod, and the ports they take there.
At(pod, d) == [domain |-> pod, id |-> d]
Attached(t, pod, d) == {i \in 1..Len(t.links) : t.links[i].tgt.device = At(pod, d)}
Numbers(t, pod, d) == {t.links[i].tgt.number : i \in Attached(t, pod, d)}

LEMMA SameAttached ==
    ASSUME NEW t, NEW u, u.links = t.links, NEW pod, NEW d
    PROVE  Attached(u, pod, d) = Attached(t, pod, d) /\ Numbers(u, pod, d) = Numbers(t, pod, d)
  BY DEF Attached, Numbers

LEMMA OneMoreAttached ==
    ASSUME NEW S, NEW t, NEW u, NEW link \in S, t.links \in Seq(S), u.links = Append(t.links, link),
           NEW pod, NEW d
    PROVE  /\ link.tgt.device # At(pod, d) =>
                  Attached(u, pod, d) = Attached(t, pod, d) /\ Numbers(u, pod, d) = Numbers(t, pod, d)
           /\ link.tgt.device = At(pod, d) =>
                  /\ Len(t.links) + 1 \notin Attached(t, pod, d)
                  /\ Attached(u, pod, d) = Attached(t, pod, d) \cup {Len(t.links) + 1}
                  /\ Numbers(u, pod, d) = Numbers(t, pod, d) \cup {link.tgt.number}
  <1>1. PICK a, b, n : a = t.links /\ b = u.links /\ n = Len(a)
    OBVIOUS
  <1>2. /\ a \in Seq(S) /\ n \in Nat /\ Len(b) = n + 1 /\ b[n + 1] = link
        /\ \A i \in 1..n : b[i] = a[i]
    BY <1>1
  <1>3. PICK far : far = At(pod, d)
    OBVIOUS
  <1>4. /\ Attached(t, pod, d) = {i \in 1..n : a[i].tgt.device = far}
        /\ Attached(u, pod, d) = {i \in 1..(n + 1) : b[i].tgt.device = far}
    BY <1>1, <1>2, <1>3 DEF Attached
  <1>5. \A i \in 1..(n + 1) : i \in 1..n \/ i = n + 1
    BY <1>2
  <1>6. n + 1 \notin 1..n /\ n + 1 \in 1..(n + 1) /\ \A i \in 1..n : i \in 1..(n + 1)
    BY <1>2
  <1>7. CASE link.tgt.device # far
    <2>1. Attached(u, pod, d) = Attached(t, pod, d)
      BY <1>2, <1>4, <1>5, <1>6, <1>7
    <2>2. \A i \in Attached(t, pod, d) : u.links[i] = t.links[i]
      BY <1>1, <1>2, <1>4
    <2>3. Numbers(u, pod, d) = Numbers(t, pod, d)
      BY <2>1, <2>2 DEF Numbers
    <2> QED
      BY <1>3, <1>7, <2>1, <2>3
  <1>8. CASE link.tgt.device = far
    <2>1. Attached(u, pod, d) = Attached(t, pod, d) \cup {n + 1} /\ n + 1 \notin Attached(t, pod, d)
      BY <1>2, <1>4, <1>5, <1>6, <1>8
    <2>2. \A i \in Attached(t, pod, d) : u.links[i] = t.links[i]
      BY <1>1, <1>2, <1>4
    <2>3. u.links[n + 1] = link
      BY <1>1, <1>2
    <2>4. Numbers(u, pod, d) = Numbers(t, pod, d) \cup {link.tgt.number}
      BY <2>1, <2>2, <2>3 DEF Numbers
    <2> QED
      BY <1>1, <1>3, <1>8, <2>1, <2>4
  <1> QED
    BY <1>3, <1>7, <1>8

\* A device that is not past its last port moves on, and no other does.
LEMMA ReservedMoves ==
    ASSUME NEW next, NEW d
    PROVE  /\ NextPort(next, d) \in Nat /\ Of(maxPort, d) \in Nat /\ NextPort(next, d) < Of(maxPort, d) =>
                  NextPort(Reserved(next, d), d) = NextPort(next, d) + 1
           /\ \A e : e # d => NextPort(Reserved(next, d), e) = NextPort(next, e)
  <1>1. PICK v : v = IF NextPort(next, d) + 1 > Of(maxPort, d) THEN Of(minPort, d)
                     ELSE NextPort(next, d) + 1
    OBVIOUS
  <1>2. Reserved(next, d) = Put(next, d, v)
    BY <1>1 DEF Reserved
  <1>3. /\ DOMAIN Reserved(next, d) = DOMAIN next \cup {d}
        /\ \A e \in DOMAIN next \cup {d} : Reserved(next, d)[e] = IF e = d THEN v ELSE next[e]
    BY <1>2 DEF Put
  <1>4. NextPort(Reserved(next, d), d) = v
    BY <1>3 DEF NextPort
  <1>5. \A e : e # d => NextPort(Reserved(next, d), e) = NextPort(next, e)
    BY <1>3 DEF NextPort
  <1>6. NextPort(next, d) \in Nat /\ Of(maxPort, d) \in Nat /\ NextPort(next, d) < Of(maxPort, d) =>
            v = NextPort(next, d) + 1
    BY <1>1
  <1> QED
    BY <1>4, <1>5, <1>6

\* What a call does to a spine of a pod.
Attaches(c, pod, d) ==
    /\ c \notin Onto(pod, d) =>
           /\ Attached(topology', pod, d) = Attached(topology, pod, d)
           /\ Numbers(topology', pod, d) = Numbers(topology, pod, d)
    /\ c.call = "startAt" /\ c.device = d => NextPort(nextPort', d) = c.port
    /\ c.call = "endAt" /\ c.device = d => Of(maxPort', d) = c.port /\ nextPort' = nextPort
    /\ c \in Onto(pod, d) =>
           /\ Len(topology.links) + 1 \notin Attached(topology, pod, d)
           /\ Attached(topology', pod, d) = Attached(topology, pod, d) \cup {Len(topology.links) + 1}
           /\ Numbers(topology', pod, d) = Numbers(topology, pod, d) \cup {NextPort(nextPort, d)}
           /\ NextPort(nextPort, d) \in Nat /\ Of(maxPort, d) \in Nat
              /\ NextPort(nextPort, d) < Of(maxPort, d) =>
                  NextPort(nextPort', d) = NextPort(nextPort, d) + 1
           /\ maxPort' = maxPort

LEMMA ExternalLinkAttaches ==
    ASSUME GeneratorInv, CreateExternalLink, NEW c, c = Head(calls), c \in TierCalls,
           NEW pod \in Nat, NEW d \in Devices
    PROVE  Attaches(c, pod, d)
  <1>1. PICK p1, p2 : /\ p1 = Port(c.d1, NextPort(nextPort, c.d1))
                      /\ p2 = Port(c.d2, NextPort(nextPort, c.d2))
    OBVIOUS
  <1>2. PICK link : link = ExternalLink(p1, c.pod, p2)
    OBVIOUS
  <1>3. /\ calls # <<>> /\ c.call = "createExternalLink"
        /\ topology' = [topology EXCEPT !.links = Append(@, link)]
        /\ nextPort' = Reserved(Reserved(nextPort, c.d1), c.d2)
        /\ maxPort' = maxPort
    BY <1>1, <1>2 DEF CreateExternalLink, Calling
  <1>4. Asked(c) = {c.d1} /\ c.d2 \in Devices /\ ~ Own(recipe, c.d2)
    BY <1>3, NextKinds
  <1>5. c.d1 # c.d2
    BY <1>4 DEF Asked
  <1>6. /\ link.tgt.device = At(c.pod, c.d2)
        /\ link.tgt.number = NextPort(nextPort, c.d2)
    BY <1>1, <1>2 DEF At, ExternalLink, Elsewhere, Port
  <1>7. topology'.links = Append(topology.links, link) /\ topology.links \in Seq(LinkRecords)
    BY <1>3 DEF GeneratorInv, TopologyInv, Topologies
  <1>8. PICK S : S = LinkRecords \cup {link}
    OBVIOUS
  <1>9. topology.links \in Seq(S) /\ link \in S
    BY <1>7, <1>8, SeqSubset
  <1>10. /\ link.tgt.device # At(pod, d) =>
                /\ Attached(topology', pod, d) = Attached(topology, pod, d)
                /\ Numbers(topology', pod, d) = Numbers(topology, pod, d)
         /\ link.tgt.device = At(pod, d) =>
                /\ Len(topology.links) + 1 \notin Attached(topology, pod, d)
                /\ Attached(topology', pod, d) = Attached(topology, pod, d) \cup {Len(topology.links) + 1}
                /\ Numbers(topology', pod, d) = Numbers(topology, pod, d) \cup {link.tgt.number}
    <2>1. PICK t, u : t = topology /\ u = topology'
      OBVIOUS
    <2>2. link \in S /\ t.links \in Seq(S) /\ u.links = Append(t.links, link)
      BY <1>7, <1>9, <2>1
    <2>3. /\ link.tgt.device # At(pod, d) =>
                 Attached(u, pod, d) = Attached(t, pod, d) /\ Numbers(u, pod, d) = Numbers(t, pod, d)
          /\ link.tgt.device = At(pod, d) =>
                 /\ Len(t.links) + 1 \notin Attached(t, pod, d)
                 /\ Attached(u, pod, d) = Attached(t, pod, d) \cup {Len(t.links) + 1}
                 /\ Numbers(u, pod, d) = Numbers(t, pod, d) \cup {link.tgt.number}
      <3>1. ASSUME link.tgt.device # At(pod, d)
            PROVE  Attached(u, pod, d) = Attached(t, pod, d) /\ Numbers(u, pod, d) = Numbers(t, pod, d)
        <4>1. Attached(u, pod, d) = Attached(t, pod, d)
          BY <2>2, <3>1, OneMoreAttached
        <4>2. Numbers(u, pod, d) = Numbers(t, pod, d)
          BY <2>2, <3>1, OneMoreAttached
        <4> QED
          BY <4>1, <4>2
      <3>2. ASSUME link.tgt.device = At(pod, d)
            PROVE  /\ Len(t.links) + 1 \notin Attached(t, pod, d)
                   /\ Attached(u, pod, d) = Attached(t, pod, d) \cup {Len(t.links) + 1}
                   /\ Numbers(u, pod, d) = Numbers(t, pod, d) \cup {link.tgt.number}
        BY <2>2, <3>2, OneMoreAttached
      <3> QED
        BY <3>1, <3>2
    <2> QED
      BY <2>1, <2>3
  <1>11. c \in Onto(pod, d) <=> link.tgt.device = At(pod, d)
    <2>1. At(c.pod, c.d2) = At(pod, d) <=> c.pod = pod /\ c.d2 = d
      <3>1. PICK f, g : f = At(c.pod, c.d2) /\ g = At(pod, d)
        OBVIOUS
      <3>2. f.domain = c.pod /\ f.id = c.d2 /\ g.domain = pod /\ g.id = d
        BY <3>1 DEF At
      <3>3. f = g => c.pod = pod /\ c.d2 = d
        BY <3>2
      <3> QED
        BY <3>1, <3>3
    <2> QED
      BY <1>3, <1>6, <2>1 DEF Onto
  <1>12. ASSUME c \in Onto(pod, d), NextPort(nextPort, d) \in Nat, Of(maxPort, d) \in Nat,
                NextPort(nextPort, d) < Of(maxPort, d)
         PROVE  NextPort(nextPort', d) = NextPort(nextPort, d) + 1
    <2>1. c.d2 = d /\ d # c.d1
      BY <1>5, <1>12 DEF Onto
    <2>2. PICK next : next = Reserved(nextPort, c.d1)
      OBVIOUS
    <2>3. NextPort(next, d) = NextPort(nextPort, d)
      BY <2>1, <2>2, ReservedMoves
    <2>4. NextPort(Reserved(next, d), d) = NextPort(next, d) + 1
      BY <1>12, <2>3, ReservedMoves
    <2> QED
      BY <1>3, <2>1, <2>2, <2>3, <2>4
  <1>13. c \in Onto(pod, d) => c.d2 = d
    BY DEF Onto
  <1> QED
    BY <1>3, <1>6, <1>10, <1>11, <1>12, <1>13 DEF Attaches

LEMMA OtherCallsAttach ==
    ASSUME GeneratorInv, CreateSwitch \/ StartAtPort \/ EndAtPort \/ SavePodTopology,
           NEW c, c = Head(calls), NEW pod \in Nat, NEW d \in Devices
    PROVE  Attaches(c, pod, d)
  <1>1. topology \in Topologies
    BY DEF GeneratorInv, TopologyInv
  <1>2. topology'.links = topology.links
    BY <1>1 DEF CreateSwitch, StartAtPort, EndAtPort, SavePodTopology, Topologies
  <1>3. c.call \in {"createSwitch", "startAt", "endAt", "savePod"}
    BY DEF CreateSwitch, StartAtPort, EndAtPort, SavePodTopology, Calling
  <1>4. c \notin Onto(pod, d)
    BY <1>3 DEF Onto
  <1>5. ASSUME c.call = "startAt", c.device = d
        PROVE  NextPort(nextPort', d) = c.port
    <2>1. StartAtPort
      BY <1>5 DEF CreateSwitch, StartAtPort, EndAtPort, SavePodTopology, Calling
    <2> QED
      BY <1>5, <2>1, StartAtMoves
  <1>6. ASSUME c.call = "endAt", c.device = d
        PROVE  Of(maxPort', d) = c.port /\ nextPort' = nextPort
    <2>1. EndAtPort
      BY <1>6 DEF CreateSwitch, StartAtPort, EndAtPort, SavePodTopology, Calling
    <2>2. maxPort' = Put(maxPort, d, c.port) /\ nextPort' = nextPort
      BY <1>6, <2>1 DEF EndAtPort
    <2>3. d \in DOMAIN maxPort' /\ maxPort'[d] = c.port
      BY <2>2, PutEffect
    <2> QED
      BY <2>2, <2>3 DEF Of
  <1>7. /\ Attached(topology', pod, d) = Attached(topology, pod, d)
        /\ Numbers(topology', pod, d) = Numbers(topology, pod, d)
    BY <1>2, SameAttached
  <1> QED
    BY <1>4, <1>5, <1>6, <1>7 DEF Attaches

\* A spine of a pod, until the links to it begin, once its first port is set, and when k of
\* the n links to it are there, on its first k ports.
Awaiting(pod, d, n, ports) ==
    /\ calls \in Surrounded(Beside(pod, d), Attachment(pod, d, n, ports))
    /\ Attached(topology, pod, d) = {}
Opening(pod, d, n, ports) ==
    /\ calls \in Begun(pod, d, n, ports)
    /\ NextPort(nextPort, d) = 1
    /\ Attached(topology, pod, d) = {}
Counting(pod, d, n, ports, k) ==
    /\ calls \in Rest(pod, d, n - k)
    /\ k < n => NextPort(nextPort, d) = k + 1 /\ Of(maxPort, d) = ports
    /\ Numbers(topology, pod, d) = 1..k
    /\ IsFiniteSet(Attached(topology, pod, d)) /\ Cardinality(Attached(topology, pod, d)) = k
Joining(pod, d, n, ports) ==
    \/ Awaiting(pod, d, n, ports)
    \/ Opening(pod, d, n, ports)
    \/ \E k \in 0..n : Counting(pod, d, n, ports, k)

LEMMA JoiningGoesOn ==
    ASSUME NEW pod \in Nat, NEW d \in Devices, NEW n \in Nat, NEW ports \in Nat, n <= ports,
           Joining(pod, d, n, ports), calls # <<>>, calls' = Tail(calls),
           NEW c, c = Head(calls), Attaches(c, pod, d)
    PROVE  Joining(pod, d, n, ports)'
  <1>1. CASE Awaiting(pod, d, n, ports)
    <2>1. PICK cs : cs = calls
      OBVIOUS
    <2>2. cs \in Surrounded(Beside(pod, d), Attachment(pod, d, n, ports)) /\ c = Head(cs)
      BY <1>1, <2>1 DEF Awaiting
    <2>3. \/ /\ c \in Beside(pod, d)
             /\ Tail(cs) \in Surrounded(Beside(pod, d), Attachment(pod, d, n, ports))
          \/ /\ c = [call |-> "startAt", device |-> d, port |-> 1]
             /\ Tail(cs) \in Begun(pod, d, n, ports)
      BY <2>2, SurroundedTail
    <2>4. CASE c \in Beside(pod, d) /\ Tail(cs) \in Surrounded(Beside(pod, d), Attachment(pod, d, n, ports))
      <3>1. Attached(topology', pod, d) = {}
        BY <1>1, <2>4 DEF Awaiting, Attaches, Beside
      <3> QED
        BY <2>1, <2>4, <3>1 DEF Joining, Awaiting
    <2>5. CASE c = [call |-> "startAt", device |-> d, port |-> 1] /\ Tail(cs) \in Begun(pod, d, n, ports)
      <3>1. c.call = "startAt" /\ c.device = d /\ c.port = 1
        BY <2>5
      <3>2. c \notin Onto(pod, d)
        BY <3>1 DEF Onto
      <3>3. NextPort(nextPort', d) = 1 /\ Attached(topology', pod, d) = {}
        BY <1>1, <3>1, <3>2 DEF Awaiting, Attaches
      <3> QED
        BY <2>1, <2>5, <3>3 DEF Joining, Opening
    <2> QED
      BY <2>3, <2>4, <2>5
  <1>2. CASE Opening(pod, d, n, ports)
    <2>1. PICK cs : cs = calls
      OBVIOUS
    <2>2. c = [call |-> "endAt", device |-> d, port |-> ports] /\ Tail(cs) \in Rest(pod, d, n)
      <3>1. cs \in Begun(pod, d, n, ports) /\ c = Head(cs)
        BY <1>2, <2>1 DEF Opening
      <3> QED
        BY <3>1, BegunTail
    <2>3. c.call = "endAt" /\ c.device = d /\ c.port = ports
      BY <2>2
    <2>4. c \notin Onto(pod, d)
      BY <2>3 DEF Onto
    <2>5. /\ NextPort(nextPort', d) = 1 /\ Of(maxPort', d) = ports
          /\ Attached(topology', pod, d) = {}
      BY <1>2, <2>3, <2>4 DEF Opening, Attaches
    <2>6. Numbers(topology', pod, d) = {} /\ 1..0 = {} /\ n - 0 = n /\ 0 \in 0..n /\ 0 + 1 = 1
      BY <2>5 DEF Numbers
    <2>7. IsFiniteSet({}) /\ Cardinality({}) = 0
      BY FS_EmptySet
    <2>8. Counting(pod, d, n, ports, 0)'
      BY <2>1, <2>2, <2>5, <2>6, <2>7 DEF Counting
    <2> QED
      BY <2>6, <2>8 DEF Joining
  <1>3. CASE \E k \in 0..n : Counting(pod, d, n, ports, k)
    <2>1. PICK k \in 0..n : Counting(pod, d, n, ports, k)
      BY <1>3
    <2>2. PICK cs, m : cs = calls /\ m = n - k
      OBVIOUS
    <2>3. m \in Nat /\ cs \in Rest(pod, d, m) /\ cs # <<>> /\ c = Head(cs)
      BY <2>1, <2>2 DEF Counting
    <2>4. /\ m = 0 => c \in Beside(pod, d) /\ Tail(cs) \in Rest(pod, d, m)
          /\ m # 0 => c \in Onto(pod, d) /\ Tail(cs) \in Rest(pod, d, m - 1)
      BY <2>3, RestTail
    <2>5. CASE m = 0
      <3>1. ~ (k < n)
        BY <2>2, <2>5
      <3>2. /\ Numbers(topology', pod, d) = Numbers(topology, pod, d)
            /\ Attached(topology', pod, d) = Attached(topology, pod, d)
        BY <2>4, <2>5 DEF Attaches, Beside
      <3>3. Counting(pod, d, n, ports, k)'
        BY <2>1, <2>2, <2>4, <2>5, <3>1, <3>2 DEF Counting
      <3> QED
        BY <3>3 DEF Joining
    <2>6. CASE m # 0
      <3>1. k < n /\ k \in Nat /\ k + 1 \in 0..n /\ m - 1 = n - (k + 1)
        BY <2>2, <2>6
      <3>2. NextPort(nextPort, d) = k + 1 /\ Of(maxPort, d) = ports
        BY <2>1, <3>1 DEF Counting
      <3>3. PICK i : /\ i = Len(topology.links) + 1 /\ i \notin Attached(topology, pod, d)
                     /\ Attached(topology', pod, d) = Attached(topology, pod, d) \cup {i}
        BY <2>4, <2>6 DEF Attaches
      <3>4. IsFiniteSet(Attached(topology', pod, d)) /\ Cardinality(Attached(topology', pod, d)) = k + 1
        <4>1. IsFiniteSet(Attached(topology, pod, d)) /\ Cardinality(Attached(topology, pod, d)) = k
          BY <2>1 DEF Counting
        <4>2. PICK A : A = Attached(topology, pod, d)
          OBVIOUS
        <4>3. IsFiniteSet(A \cup {i}) /\ Cardinality(A \cup {i}) = Cardinality(A) + 1
          BY <3>3, <4>1, <4>2, FS_AddElement
        <4> QED
          BY <3>3, <4>1, <4>2, <4>3
      <3>5. Numbers(topology', pod, d) = 1..(k + 1)
        <4>1. Numbers(topology', pod, d) = 1..k \cup {k + 1}
          BY <2>1, <2>4, <2>6, <3>2 DEF Attaches, Counting
        <4>2. 1..k \cup {k + 1} = 1..(k + 1)
          BY <3>1
        <4> QED
          BY <4>1, <4>2
      <3>6. Of(maxPort', d) = ports
        BY <2>4, <2>6, <3>2 DEF Attaches, Of
      <3>7. ASSUME k + 1 < n
            PROVE  NextPort(nextPort', d) = (k + 1) + 1
        <4>1. NextPort(nextPort, d) \in Nat /\ Of(maxPort, d) \in Nat /\ NextPort(nextPort, d) < Of(maxPort, d)
          BY <3>1, <3>2, <3>7
        <4>2. NextPort(nextPort', d) = NextPort(nextPort, d) + 1
          BY <2>4, <2>6, <4>1 DEF Attaches
        <4> QED
          BY <3>2, <4>2
      <3>8. calls' \in Rest(pod, d, n - (k + 1))
        BY <2>2, <2>4, <2>6, <3>1
      <3>9. Counting(pod, d, n, ports, k + 1)'
        BY <3>4, <3>5, <3>6, <3>7, <3>8 DEF Counting
      <3> QED
        BY <3>1, <3>9 DEF Joining
    <2> QED
      BY <2>5, <2>6
  <1> QED
    BY <1>1, <1>2, <1>3 DEF Joining

\* With no call left, each of the links is on a port of its own.
LEMMA AllAttached ==
    ASSUME NEW pod \in Nat, NEW d \in Devices, NEW n \in Nat, NEW ports \in Nat,
           Joining(pod, d, n, ports), calls = <<>>
    PROVE  Numbers(topology, pod, d) = 1..n /\ Cardinality(Attached(topology, pod, d)) = n
  <1>1. PICK cs : cs = calls
    OBVIOUS
  <1>2. cs \notin Surrounded(Beside(pod, d), Attachment(pod, d, n, ports))
    BY <1>1, SurroundedTail
  <1>3. cs \notin Begun(pod, d, n, ports)
    BY <1>1, BegunTail
  <1>4. PICK k \in 0..n : Counting(pod, d, n, ports, k)
    BY <1>1, <1>2, <1>3 DEF Joining, Awaiting, Opening
  <1>5. PICK run, y : /\ run \in Seq(Onto(pod, d)) /\ y \in Seq(Beside(pod, d))
                      /\ Len(run) = n - k /\ cs = run \o y
    BY <1>1, <1>4 DEF Counting, Rest
  <1>6. PICK T : T = TierCalls
    OBVIOUS
  <1>7. run \in Seq(T) /\ y \in Seq(T)
    <2>1. Onto(pod, d) \subseteq T /\ Beside(pod, d) \subseteq T
      BY <1>6 DEF Onto, Beside
    <2> QED
      BY <1>5, <2>1, SeqSubset
  <1>8. Len(run \o y) = Len(run) + Len(y) /\ Len(y) \in Nat
    BY <1>7, ConcatLength
  <1>9. Len(cs) = 0
    BY <1>1
  <1>10. k = n
    BY <1>5, <1>8, <1>9
  <1> QED
    BY <1>4, <1>10 DEF Counting

\* Of a tier that fits: every spine of every pod is attached to, or is yet to be, and when
\* the tier is saved no call is left.
AllJoin(r) ==
    \A pod \in 1..r.pods, s \in 1..r.podSpines :
        Joining(pod, Spine(s), 2 * r.superspines, r.superspinePorts)
TierInv ==
    recipe.kind = "tier" /\ Fits(recipe) /\ result # "failed" =>
        /\ calls \in Seq(TierCalls)
        /\ AllJoin(recipe)
        /\ result = "saved" => calls = <<>>

\* A call that is made leaves a sequence of such calls, and goes on with every spine.
LEMMA TierCallJoins ==
    ASSUME GeneratorInv, TierInv, recipe.kind = "tier", Fits(recipe), result # "failed",
           Next, calls # <<>>, ~ PodNotSaved
    PROVE  /\ calls' \in Seq(TierCalls) /\ recipe' = recipe /\ result' = result
           /\ AllJoin(recipe)'
  <1>1. PICK c : c = Head(calls)
    OBVIOUS
  <1>2. calls \in Seq(TierCalls) /\ AllJoin(recipe)
    BY DEF TierInv
  <1>3. c \in TierCalls /\ Tail(calls) \in Seq(TierCalls)
    <2>1. PICK T : T = TierCalls
      OBVIOUS
    <2> QED
      BY <1>1, <1>2, <2>1
  <1>4. c.call \in {"createSwitch", "startAt", "endAt", "createExternalLink", "savePod"}
    BY <1>3 DEF TierCalls
  <1>5. CreateSwitch \/ CreateExternalLink \/ StartAtPort \/ EndAtPort \/ SavePodTopology
    BY <1>1, <1>4 DEF Next, CreateLink, CreateNIC, LatchMinPort, SaveTopology, Calling
  <1>6. calls' = Tail(calls) /\ recipe' = recipe /\ result' = result
    BY <1>5 DEF CreateSwitch, CreateExternalLink, StartAtPort, EndAtPort, SavePodTopology, Calling
  <1>7. PICK n \in Nat, m \in Nat, spines \in Nat, ports \in Nat :
            /\ n = 2 * recipe.superspines /\ m = recipe.pods /\ spines = recipe.podSpines
            /\ ports = recipe.superspinePorts
    BY DEF GeneratorInv, Buildable
  <1>8. n <= ports
    <2>1. recipe.superspines * 2 <= recipe.superspinePorts /\ recipe.superspines \in Nat
      BY DEF Fits, GeneratorInv, Buildable
    <2> QED
      BY <1>7, <2>1
  <1>9. ASSUME NEW pod \in 1..m, NEW s \in 1..spines
        PROVE  Joining(pod, Spine(s), n, ports)'
    <2>1. PICK d \in Devices : d = Spine(s)
      BY NamedDevices
    <2>2. pod \in Nat /\ Joining(pod, d, n, ports)
      BY <1>2, <1>7, <2>1 DEF AllJoin
    <2>3. Attaches(c, pod, d)
      BY <1>1, <1>3, <1>5, <2>2, ExternalLinkAttaches, OtherCallsAttach
    <2> QED
      BY <1>1, <1>6, <1>8, <2>1, <2>2, <2>3, JoiningGoesOn
  <1> QED
    BY <1>3, <1>6, <1>7, <1>9 DEF AllJoin

LEMMA TierInvariant == Spec => []TierInv
  <1>1. Init => TierInv
    <2> SUFFICES ASSUME Init, recipe.kind = "tier"
                 PROVE  calls \in Seq(TierCalls) /\ AllJoin(recipe) /\ result # "saved"
      BY DEF TierInv
    <2>1. Buildable(recipe) /\ calls = SuperSpineTier(recipe) /\ recipe.pods \in Nat
      BY RecipesAssumption DEF Init, GeneratorCalls, Buildable
    <2>2. calls \in Seq(TierCalls)
      BY <2>1, TierPasses DEF Passing
    <2>3. ASSUME NEW pod \in 1..recipe.pods, NEW s \in 1..recipe.podSpines
          PROVE  Joining(pod, Spine(s), 2 * recipe.superspines, recipe.superspinePorts)
      <3>1. calls \in Surrounded(Beside(pod, Spine(s)),
                                 Attachment(pod, Spine(s), 2 * recipe.superspines, recipe.superspinePorts))
        BY <2>1, TierAttaches
      <3>2. Len(topology.links) = 0 /\ 1..0 = {}
        BY DEF Init, Nothing
      <3>3. Attached(topology, pod, Spine(s)) = {}
        BY <3>2 DEF Attached
      <3> QED
        BY <3>1, <3>3 DEF Joining, Awaiting
    <2> QED
      BY <2>2, <2>3 DEF AllJoin, Init
  <1>2. TierInv /\ GeneratorInv /\ [Next]_vars => TierInv'
    <2> SUFFICES ASSUME TierInv, GeneratorInv, [Next]_vars,
                        recipe'.kind = "tier", Fits(recipe'), result' # "failed"
                 PROVE  /\ calls' \in Seq(TierCalls)
                        /\ AllJoin(recipe)'
                        /\ result' = "saved" => calls' = <<>>
      BY DEF TierInv
    <2>1. recipe' = recipe
      BY DEF Next, vars, CreateSwitch, CreateLink, CreateExternalLink, CreateNIC, LatchMinPort,
             StartAtPort, EndAtPort, SavePodTopology, PodNotSaved, SaveTopology, Calling
    <2>2. result # "failed"
      BY DEF Next, vars, CreateSwitch, CreateLink, CreateExternalLink, CreateNIC, LatchMinPort,
             StartAtPort, EndAtPort, SavePodTopology, PodNotSaved, SaveTopology, Calling
    <2>3. ~ PodNotSaved
      BY DEF PodNotSaved
    <2>4. CASE Next /\ calls # <<>>
      BY <2>1, <2>2, <2>3, <2>4, TierCallJoins DEF TierInv
    <2>5. CASE SaveTopology \/ UNCHANGED vars
      <3>1. /\ calls' = calls /\ topology' = topology /\ nextPort' = nextPort /\ maxPort' = maxPort
            /\ (result' = result \/ calls = <<>>)
        BY <2>5 DEF SaveTopology, builderVars, vars
      <3>2. /\ calls \in Seq(TierCalls) /\ AllJoin(recipe)
            /\ result = "saved" => calls = <<>>
        BY <2>1, <2>2 DEF TierInv
      <3>3. AllJoin(recipe)'
        BY <2>1, <3>1, <3>2 DEF AllJoin, Joining, Awaiting, Opening, Counting
      <3> QED
        BY <3>1, <3>2, <3>3
    <2>6. Next /\ calls = <<>> => SaveTopology
      BY DEF Next, CreateSwitch, CreateLink, CreateExternalLink, CreateNIC, LatchMinPort,
             StartAtPort, EndAtPort, SavePodTopology, PodNotSaved, Calling
    <2> QED
      BY <2>4, <2>5, <2>6
  <1> QED
    BY <1>1, <1>2, GeneratorInvariant, PTL DEF Spec

\* In a topology that fits, links leave the spines of a plain fabric above the ports that
\* are kept for the superspines; and what a tier attaches to a spine of a pod is on its
\* first ports, from 1 on, each of them once, whatever the size of the fabric or the tier.
THEOREM UplinksStayReserved == Spec => []UplinksAreReserved
  <1>1. GeneratorInv /\ ReserveInv /\ TierInv => UplinksAreReserved
    <2> SUFFICES ASSUME GeneratorInv, ReserveInv, TierInv, Saved, Fits(recipe)
                 PROVE  /\ recipe.kind = "plain" =>
                               \A i \in 1..Len(topology.links) :
                                   LET end == topology.links[i].src
                                   IN  end.device.kind = "spine" => end.number > recipe.reserved
                        /\ recipe.kind = "tier" =>
                               \A pod \in 1..recipe.pods, s \in 1..recipe.podSpines :
                                   LET taken == {i \in 1..Len(topology.links) :
                                                    topology.links[i].tgt.device = [domain |-> pod, id |-> Spine(s)]}
                                   IN  /\ {topology.links[i].tgt.number : i \in taken} = 1..(2 * recipe.superspines)
                                       /\ Cardinality(taken) = 2 * recipe.superspines
      BY DEF UplinksAreReserved
    <2>1. CASE recipe.kind = "plain"
      BY <2>1, LinksSpareTheReserved
    <2>2. CASE recipe.kind = "tier"
      <3>1. AllJoin(recipe) /\ calls = <<>>
        BY <2>2 DEF TierInv, Saved
      <3>2. PICK n \in Nat, ports \in Nat : n = 2 * recipe.superspines /\ ports = recipe.superspinePorts
        BY <2>2 DEF GeneratorInv, Buildable
      <3>3. recipe.pods \in Nat /\ recipe.podSpines \in Nat
        BY <2>2 DEF GeneratorInv, Buildable
      <3>4. ASSUME NEW pod \in 1..recipe.pods, NEW s \in 1..recipe.podSpines
            PROVE  /\ Numbers(topology, pod, Spine(s)) = 1..n
                   /\ Cardinality(Attached(topology, pod, Spine(s))) = n
        <4>1. PICK d \in Devices : d = Spine(s)
          BY NamedDevices
        <4>2. pod \in Nat /\ Joining(pod, d, n, ports)
          BY <3>1, <3>2, <3>3, <4>1 DEF AllJoin
        <4> QED
          BY <3>1, <4>1, <4>2, AllAttached
      <3> QED
        BY <2>2, <3>2, <3>4 DEF Numbers, Attached, At
    <2> QED
      BY <2>1, <2>2
  <1> QED
    BY <1>1, GeneratorInvariant, ReserveInvariant, TierInvariant, PTL

==============================================================================
