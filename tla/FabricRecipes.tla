---------------------------- MODULE FabricRecipes ----------------------------
(***************************************************************************)
(* The recipes of fabric-sim-topo (src/pkg/topo/*_fabric.go,               *)
(* superspine_tier.go): each generator is a fixed sequence of calls on the *)
(* Builder, determined by its recipe.  A call is a record whose "call"     *)
(* field names the step of TopologyGenerator that carries it out.  Grid    *)
(* positions, port speeds and the text of names are left out: a device is  *)
(* its kind with the number printed in its name.                           *)
(***************************************************************************)
EXTENDS Naturals, Sequences, SequencesExt

Device(kind, index) == [kind |-> kind, index |-> index]
Superspine(i) == Device("superspine", i)
Spine(i)      == Device("spine", i)
Leaf(i)       == Device("leaf", i)
IPU(rack, host) == Device("ipu", 100 * rack + host)   \* "ipu%02d%02d"
NoLeaf        == Device("none", 0)                     \* leaf2 == ""

ForEach(n, Calls(_)) == FlattenSeq([i \in 1..n |-> Calls(i)])

----------------------------------------------------------------------------
Switch(device, portCount) ==
    <<[call |-> "createSwitch", device |-> device, portCount |-> portCount]>>

Trunk(src, tgt, count) ==
    [i \in 1..count |-> [call |-> "createLink", src |-> src, tgt |-> tgt]]

\* d2 lies in the simulation of the pod.
ExternalTrunk(d1, d2, pod, count) ==
    [i \in 1..count |->
        [call |-> "createExternalLink", d1 |-> d1, d2 |-> d2, pod |-> pod]]

\* The port the device hands out next is the first it may reuse later.
Latch(device) == <<[call |-> "latch", device |-> device]>>

StartAt(device, port) == <<[call |-> "startAt", device |-> device, port |-> port]>>
EndAt(device, port)   == <<[call |-> "endAt", device |-> device, port |-> port]>>

SavePod(pod) == <<[call |-> "savePod", pod |-> pod]>>

\* A network interface; leaf is the number its addresses hold in third place.
Nic(host, rack, hostID, leaf, device) ==
    <<[call |-> "createNIC", host |-> host, rack |-> rack, leaf |-> leaf,
       hostID |-> hostID, device |-> device]>>

\* Mutant: the interfaces of virtual machines are numbered from 1.
VMsFromOne(rack, host, leaf1, leaf2, vms) ==
    Switch(IPU(rack, host), 2 + 1 + vms)
    \o Trunk(leaf1, IPU(rack, host), 1)
    \o Trunk(IF leaf2 = NoLeaf THEN leaf1 ELSE leaf2, IPU(rack, host), 1)
    \o Nic(<<"host", rack, host>>, rack, host, 1, IPU(rack, host))
    \o ForEach(vms, LAMBDA i :
                  Nic(<<"vm", rack, host, i>>, rack, host, i, IPU(rack, host)))

ServerIPUAndVMs(rack, host, leaf1, leaf2, vms) ==
    Switch(IPU(rack, host), 2 + 1 + vms)
    \o Trunk(leaf1, IPU(rack, host), 1)
    \o Trunk(IF leaf2 = NoLeaf THEN leaf1 ELSE leaf2, IPU(rack, host), 1)
    \o Nic(<<"host", rack, host>>, rack, host, 1, IPU(rack, host))
    \o ForEach(vms, LAMBDA i :
                  Nic(<<"vm", rack, host, i>>, rack, host, 10 + i, IPU(rack, host)))

RackHost(rack, host, leaf1, leaf2, haveIPU, vms) ==
    IF haveIPU
    THEN ServerIPUAndVMs(rack, host, leaf1, leaf2, vms)
    ELSE Nic(<<"host", rack, host>>, rack, host, 1, leaf1)
         \o IF leaf2 = NoLeaf THEN <<>>
            ELSE Nic(<<"host", rack, host>>, rack, host, 2, leaf2)

RackHosts(rack, leaf1, leaf2, count, haveIPU, vms) ==
    ForEach(count, LAMBDA h : RackHost(rack, h, leaf1, leaf2, haveIPU, vms))

----------------------------------------------------------------------------
\* Mutant: the uplinks reserved for superspines are not skipped.
NoReserve(r) ==
    ForEach(r.spines, LAMBDA s : Switch(Spine(s), r.spinePorts))

PlainSpines(r) ==
    ForEach(r.spines, LAMBDA s :
        StartAt(Spine(s), r.reserved + 1) \o Switch(Spine(s), r.spinePorts))

\* Mutant: the hosts' first port is not latched after the uplinks.
NoLatch(r, i) ==
    Switch(Leaf(i), r.leafPorts)
    \o ForEach(r.spines, LAMBDA s : Trunk(Spine(s), Leaf(i), r.spineTrunk))
    \o RackHosts(i, Leaf(i), NoLeaf, r.hosts, r.haveIPU, r.vms)

PlainLeaf(r, i) ==
    Switch(Leaf(i), r.leafPorts)
    \o ForEach(r.spines, LAMBDA s : Trunk(Spine(s), Leaf(i), r.spineTrunk))
    \o Latch(Leaf(i))
    \o RackHosts(i, Leaf(i), NoLeaf, r.hosts, r.haveIPU, r.vms)

PlainFabric(r) == PlainSpines(r) \o ForEach(r.leaves, LAMBDA i : PlainLeaf(r, i))

AccessFabric(r) ==
    ForEach(r.spines, LAMBDA s : Switch(Spine(s), r.spinePorts))
    \o ForEach(r.pairs, LAMBDA p :
          LET leaf1 == Leaf(10 * p + 1)
              leaf2 == Leaf(10 * p + 2)
          IN  Switch(leaf1, r.leafPorts) \o Switch(leaf2, r.leafPorts)
              \o ForEach(r.spines, LAMBDA s :
                    Trunk(Spine(s), leaf1, r.spineTrunk) \o Trunk(Spine(s), leaf2, r.spineTrunk))
              \o Trunk(leaf1, leaf2, r.pairTrunk)
              \o Latch(leaf1) \o Latch(leaf2)
              \o RackHosts(p, leaf1, leaf2, r.hosts, r.haveIPU, r.vms))

RackPair(rack) ==
    LET leaf(i, k) == Leaf(10 * (rack + i) + k)
        Leaves     == <<leaf(0, 1), leaf(0, 2), leaf(1, 1), leaf(1, 2)>>
        Both       == <<Spine(rack), Spine(rack + 1)>>
    IN  ForEach(2, LAMBDA s : Switch(Both[s], 32))
        \o ForEach(2, LAMBDA s : ForEach(2, LAMBDA t : Trunk(Both[s], Superspine(t), 8)))
        \o ForEach(4, LAMBDA l : Switch(Leaves[l], 32))
        \o ForEach(4, LAMBDA l : ForEach(2, LAMBDA s : Trunk(Leaves[l], Both[s], 4)))
        \o Trunk(Leaves[1], Leaves[2], 2) \o Trunk(Leaves[3], Leaves[4], 2)
        \o ForEach(4, LAMBDA l : Latch(Leaves[l]))
        \o RackHosts(rack, Leaves[1], Leaves[2], 10, FALSE, 0)
        \o RackHosts(rack + 1, Leaves[3], Leaves[4], 10, FALSE, 0)

\* Its superspines are named sspine1 and sspine2.
FixedFabric ==
    ForEach(2, LAMBDA t : Switch(Superspine(t), 32)) \o RackPair(1) \o RackPair(3)

\* Mutant: the spines of a pod go on where those of the last pod ended.
NoRestart(r, pod) ==
    ForEach(r.podSpines, LAMBDA s :
        ForEach(r.superspines, LAMBDA t : ExternalTrunk(Superspine(t), Spine(s), pod, 2)))
    \o SavePod(pod)

Pod(r, pod) ==
    ForEach(r.podSpines, LAMBDA s :
        StartAt(Spine(s), 1) \o EndAt(Spine(s), r.superspinePorts)
        \o ForEach(r.superspines, LAMBDA t : ExternalTrunk(Superspine(t), Spine(s), pod, 2)))
    \o SavePod(pod)

SuperSpineTier(r) ==
    ForEach(r.superspines, LAMBDA t : Switch(Superspine(t), r.superspinePorts))
    \o ForEach(r.pods, LAMBDA pod : Pod(r, pod))

\* The order in which GenerateTopology looks for a recipe is the kinds' order.
GeneratorCalls(r) ==
    CASE r.kind = "fixed"  -> FixedFabric
      [] r.kind = "tier"   -> SuperSpineTier(r)
      [] r.kind = "access" -> AccessFabric(r)
      [] r.kind = "plain"  -> PlainFabric(r)

----------------------------------------------------------------------------
\* There is at least one port to give out of each kind of device, the ports that
\* are reserved leave one over, and what is latched has been linked before:
\* LatchMinPort takes the next port of the map, which is 0 for a device without
\* links, and NextDevicePortID wraps round to it.
Buildable(r) ==
    \/ r.kind = "fixed"
    \/ /\ r.kind = "tier"
       /\ r.superspines \in Nat /\ r.pods \in Nat /\ r.podSpines \in Nat
       /\ r.superspinePorts \in Nat \ {0}
    \/ /\ r.kind = "access"
       /\ r.spines \in Nat /\ r.pairs \in Nat /\ r.hosts \in Nat /\ r.vms \in Nat
       /\ r.spinePorts \in Nat \ {0} /\ r.leafPorts \in Nat \ {0}
       /\ r.spineTrunk \in Nat /\ r.pairTrunk \in Nat \ {0}
       /\ r.haveIPU \in BOOLEAN
    \/ /\ r.kind = "plain"
       /\ r.spines \in Nat \ {0} /\ r.leaves \in Nat /\ r.hosts \in Nat /\ r.vms \in Nat
       /\ r.spinePorts \in Nat \ {0} /\ r.leafPorts \in Nat \ {0}
       /\ r.spineTrunk \in Nat \ {0} /\ r.reserved \in Nat /\ r.reserved < r.spinePorts
       /\ r.haveIPU \in BOOLEAN
=============================================================================
