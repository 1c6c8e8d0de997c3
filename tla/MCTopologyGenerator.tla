------------------------- MODULE MCTopologyGenerator -------------------------
(***************************************************************************)
(* The recipes to generate: those of src/topologies but max (10800 calls), *)
(* and small ones that ask a switch for all its ports, or for more.        *)
(***************************************************************************)
EXTENDS TopologyGenerator

Plain(spines, spinePorts, reserved, leaves, leafPorts, trunk, hosts, vms) ==
    [kind |-> "plain", spines |-> spines, spinePorts |-> spinePorts, reserved |-> reserved,
     leaves |-> leaves, leafPorts |-> leafPorts, spineTrunk |-> trunk, hosts |-> hosts,
     haveIPU |-> vms > 0, vms |-> vms]

Access(spines, spinePorts, pairs, leafPorts, trunk, pairTrunk, hosts, vms) ==
    [kind |-> "access", spines |-> spines, spinePorts |-> spinePorts, pairs |-> pairs,
     leafPorts |-> leafPorts, spineTrunk |-> trunk, pairTrunk |-> pairTrunk, hosts |-> hosts,
     haveIPU |-> vms > 0, vms |-> vms]

Tier(superspines, ports, pods, podSpines) ==
    [kind |-> "tier", superspines |-> superspines, superspinePorts |-> ports, pods |-> pods,
     podSpines |-> podSpines]

Shipped ==
    {[kind |-> "fixed"],
     Access(2, 32, 2, 32, 3, 2, 20, 0), Access(3, 32, 3, 32, 3, 2, 20, 0),
     Plain(2, 32, 0, 4, 32, 3, 20, 0), Plain(4, 64, 0, 8, 64, 3, 50, 0),
     Plain(2, 64, 4, 6, 32, 4, 3, 10), Plain(2, 64, 8, 6, 32, 4, 12, 20),
     Plain(4, 64, 0, 60, 32, 1, 15, 0),
     Tier(2, 64, 2, 2), Tier(4, 64, 16, 2)}

AtTheLimit ==
    {Plain(2, 5, 1, 2, 6, 2, hosts, vms) : hosts \in 1..4, vms \in 0..1}
    \cup {Plain(1, 4, 1, 2, 3, 2, 3, 0), Plain(1, 2, 1, 2, 2, 2, 1, 0)}
    \cup {Access(1, 4, 2, 3, 1, 1, hosts, vms) : hosts \in 1..3, vms \in 0..1}
    \cup {Tier(2, ports, 2, 1) : ports \in {3, 4, 8}}
    \cup {Plain(1, 12, 0, 12, 3, 1, 1, 2), Plain(1, 4, 0, 2, 3, 1, 1, 95)}

MCRecipes == Shipped \cup AtTheLimit
MCTenants == <<11, 12, 11>>
=============================================================================
