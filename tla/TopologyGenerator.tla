-------------------------- MODULE TopologyGenerator --------------------------
(***************************************************************************)
(* Generation of a topology from a recipe (src/pkg/topo/generator.go): the *)
(* Builder hands out agent ports and the ports of every device, wrapping   *)
(* round when a device has no more; links, switches and hosts are appended *)
(* to the topology; the superspine tier saves one addendum per pod before  *)
(* its own file, and any save may fail.  The generator has one thread, so  *)
(* a behaviour differs from another only by its recipe, its output path    *)
(* and the saves that fail.                                                *)
(***************************************************************************)
EXTENDS FabricRecipes, TopologyExports, FiniteSets

CONSTANTS
    Recipes,   \* the recipes that are generated
    Tenants,   \* the tenants the netcfg command is given
    Paths      \* the output paths: "yaml", which contains .yaml, or "bare"

ASSUME RecipesAssumption == \A r \in Recipes : Buildable(r)

VARIABLES
    recipe, path,
    calls,              \* the calls the generator has yet to make
    agentPort,          \* Builder.agentPort
    nextPort, minPort, maxPort,
    topology,           \* the topology being generated
    podTopology,        \* the addendum of the pod being generated
    files,              \* file name -> the topology saved there
    result              \* "generating", "saved" or "failed"

builderVars == <<nextPort, minPort, maxPort>>
vars == <<recipe, path, calls, agentPort, nextPort, minPort, maxPort,
          topology, podTopology, files, result>>

None      == [x \in {} |-> 0]
Nothing   == [devices |-> <<>>, links |-> <<>>, nics |-> <<>>]
Truncated == [devices |-> <<>>, links |-> <<>>, nics |-> <<>>, truncated |-> TRUE]

Init ==
    /\ recipe \in Recipes
    /\ path \in Paths
    /\ calls = GeneratorCalls(recipe)
    /\ agentPort = 0
    /\ nextPort = None /\ minPort = None /\ maxPort = None
    /\ topology = Nothing /\ podTopology = Nothing
    /\ files = None
    /\ result = "generating"

----------------------------------------------------------------------------
(* The Builder.  A Go map gives 0 for a key it does not have; Put is the   *)
(* assignment to one.                                                      *)

Of(map, device) == IF device \in DOMAIN map THEN map[device] ELSE 0
Put(map, key, value) == [k \in DOMAIN map \cup {key} |-> IF k = key THEN value ELSE map[k]]

NextPort(next, device) == IF device \in DOMAIN next THEN next[device] ELSE 1

\* Mutant: ports wrap one too late.
WrapsLate(next, device) ==
    LET after == NextPort(next, device) + 1
    IN  Put(next, device, IF after > Of(maxPort, device) + 1 THEN Of(minPort, device) ELSE after)

\* Mutant: ports wrap one too early.
WrapsEarly(next, device) ==
    LET after == NextPort(next, device) + 1
    IN  Put(next, device, IF after >= Of(maxPort, device) THEN Of(minPort, device) ELSE after)

\* NextDevicePortID hands out NextPort and leaves this behind.
Reserved(next, device) ==
    LET after == NextPort(next, device) + 1
    IN  Put(next, device, IF after > Of(maxPort, device) THEN Of(minPort, device) ELSE after)

Calling(name) ==
    /\ calls # <<>>
    /\ Head(calls).call = name
    /\ calls' = Tail(calls)
    /\ UNCHANGED <<recipe, path>>

CreateSwitch ==
    /\ Calling("createSwitch")
    /\ LET d == Head(calls).device
           n == Head(calls).portCount
       IN  /\ topology' = [topology EXCEPT !.devices =
                  Append(@, [id |-> d, agentPort |-> 20000 + agentPort, ports |-> n])]
           /\ minPort' = Put(minPort, d, 1)
           /\ maxPort' = Put(maxPort, d, n)
    /\ agentPort' = agentPort + 1
    /\ UNCHANGED <<nextPort, podTopology, files, result>>

CreateLink ==
    /\ Calling("createLink")
    /\ LET src == Head(calls).src
           tgt == Head(calls).tgt
       IN  /\ topology' = [topology EXCEPT !.links = Append(@,
                  [src |-> Port(src, NextPort(nextPort, src)),
                   tgt |-> Port(tgt, NextPort(Reserved(nextPort, src), tgt)),
                   unidirectional |-> FALSE])]
           /\ nextPort' = Reserved(Reserved(nextPort, src), tgt)
    /\ UNCHANGED <<agentPort, minPort, maxPort, podTopology, files, result>>

TierDomain == 0   \* SuperSpinesDomain; a pod's domain is the pod's number
ExternalLink(src, domain, tgt) ==
    [src |-> src, tgt |-> Elsewhere(domain, tgt), unidirectional |-> TRUE]

\* One link out of this topology and one, in the pod's addendum, back to it.
CreateExternalLink ==
    /\ Calling("createExternalLink")
    /\ LET d1 == Head(calls).d1
           d2 == Head(calls).d2
           p1 == Port(d1, NextPort(nextPort, d1))
           p2 == Port(d2, NextPort(nextPort, d2))
       IN  /\ topology' = [topology EXCEPT !.links =
                  Append(@, ExternalLink(p1, Head(calls).pod, p2))]
           /\ podTopology' = [podTopology EXCEPT !.links =
                  Append(@, ExternalLink(p2, TierDomain, p1))]
           /\ nextPort' = Reserved(Reserved(nextPort, d1), d2)
    /\ UNCHANGED <<agentPort, minPort, maxPort, files, result>>

CreateNIC ==
    /\ Calling("createNIC")
    /\ LET nic == Head(calls)
       IN  /\ topology' = [topology EXCEPT !.nics = Append(@,
                  [host |-> nic.host,
                   address |-> <<nic.rack, nic.leaf, nic.hostID>>,
                   port |-> Port(nic.device, NextPort(nextPort, nic.device))])]
           /\ nextPort' = Reserved(nextPort, nic.device)
    /\ UNCHANGED <<agentPort, minPort, maxPort, podTopology, files, result>>

LatchMinPort ==
    /\ Calling("latch")
    /\ LET d == Head(calls).device
       IN  minPort' = Put(minPort, d, Of(nextPort, d))
    /\ UNCHANGED <<agentPort, nextPort, maxPort, topology, podTopology, files, result>>

StartAtPort ==
    /\ Calling("startAt")
    /\ nextPort' = Put(nextPort, Head(calls).device, Head(calls).port)
    /\ UNCHANGED <<agentPort, minPort, maxPort, topology, podTopology, files, result>>

EndAtPort ==
    /\ Calling("endAt")
    /\ maxPort' = Put(maxPort, Head(calls).device, Head(calls).port)
    /\ UNCHANGED <<agentPort, nextPort, minPort, topology, podTopology, files, result>>

----------------------------------------------------------------------------
(* Saving.  strings.Replace puts the pod before .yaml: without it in the   *)
(* path every addendum goes to the topology's own file.                    *)

TopologyFile == <<"topology">>
\* Mutant: the addenda share one file.
OneFile(pod) == IF path = "yaml" THEN <<"pod", 0>> ELSE TopologyFile
PodFile(pod) == IF path = "yaml" THEN <<"pod", pod>> ELSE TopologyFile

Save(file, content) == files' = Put(files, file, content)
\* Before the file is created, or while it is written.
SaveFails(file) == UNCHANGED files \/ Save(file, Truncated)

SavePodTopology ==
    /\ Calling("savePod")
    /\ Save(PodFile(Head(calls).pod), podTopology)
    /\ podTopology' = Nothing
    /\ UNCHANGED <<builderVars, agentPort, topology, result>>

\* Mutant: the error of the save is ignored, and generation goes on.
SaveErrorIgnored ==
    /\ Calling("savePod")
    /\ SaveFails(PodFile(Head(calls).pod))
    /\ podTopology' = Nothing
    /\ UNCHANGED <<builderVars, agentPort, topology, result>>

PodNotSaved ==
    /\ calls # <<>> /\ Head(calls).call = "savePod"
    /\ SaveFails(PodFile(Head(calls).pod))
    /\ calls' = <<>>
    /\ result' = "failed"
    /\ UNCHANGED <<recipe, path, builderVars, agentPort, topology, podTopology>>

SaveTopology ==
    /\ calls = <<>> /\ result = "generating"
    /\ \/ Save(TopologyFile, topology) /\ result' = "saved"
       \/ SaveFails(TopologyFile) /\ result' = "failed"
    /\ UNCHANGED <<recipe, path, calls, builderVars, agentPort, topology, podTopology>>

Next ==
    \/ CreateSwitch \/ CreateLink \/ CreateExternalLink \/ CreateNIC
    \/ LatchMinPort \/ StartAtPort \/ EndAtPort
    \/ SavePodTopology \/ PodNotSaved \/ SaveTopology

Spec == Init /\ [][Next]_vars

----------------------------------------------------------------------------
(* Properties.  A topology only grows until it is saved, so they speak of  *)
(* the saved one.                                                          *)

Saved == result = "saved"

\* The ends of links and the interfaces that are on this simulation's own devices.
Ends(t) == ({"src", "tgt"} \X (1..Len(t.links))) \cup ({"nic"} \X (1..Len(t.nics)))
PortAt(t, end) ==
    CASE end[1] = "src" -> t.links[end[2]].src
      [] end[1] = "tgt" -> t.links[end[2]].tgt
      [] end[1] = "nic" -> t.nics[end[2]].port
LocalEnds(t) == {end \in Ends(t) : IsLocal(PortAt(t, end))}

AllDistinct(s) == Cardinality(Elements(s)) = Len(s)

\* The number of an IPU stands for its name: the rack, and two digits of the host.
TwoDigits(r) == r.kind \in {"access", "plain"} /\ r.haveIPU => r.hosts < 100

\* The recipe asks no device for more ports than it has.
Fits(r) ==
    /\ TwoDigits(r)
    /\ CASE r.kind = "fixed"  -> TRUE
         [] r.kind = "tier"   -> /\ r.pods * r.podSpines * 2 <= r.superspinePorts
                                 /\ r.superspines * 2 <= r.superspinePorts
         [] r.kind = "access" -> /\ 2 * r.pairs * r.spineTrunk <= r.spinePorts
                                 /\ r.spines * r.spineTrunk + r.pairTrunk + r.hosts <= r.leafPorts
         [] r.kind = "plain"  -> /\ r.reserved + r.leaves * r.spineTrunk <= r.spinePorts
                                 /\ r.spines * r.spineTrunk
                                    + (IF r.haveIPU THEN 2 ELSE 1) * r.hosts <= r.leafPorts

\* Whatever the recipe asks for, every link and every interface is on a port
\* that the device in the file has: the netcfg command, which looks the port of
\* each interface up, does not panic on a generated topology.
PortsExist ==
    Saved => /\ \A end \in LocalEnds(topology) : HasPort(topology, PortAt(topology, end))
             /\ ~NetcfgPanics(topology)

\* A recipe that fits its switches never puts two things on one port, the fixed
\* fabric included, whose numbers are in the code: 4 trunks of 8 on a superspine
\* of 32 ports, 16 uplinks and 4 trunks of 4 on a spine.
NoPortIsTakenTwice ==
    Saved /\ Fits(recipe) =>
        \A e1, e2 \in LocalEnds(topology) : PortAt(topology, e1) = PortAt(topology, e2) => e1 = e2

\* In a plain fabric (no other recipe is claimed for): when a leaf has fewer
\* ports than hosts ask for, NextDevicePortID wraps round to the latched port, so
\* that hosts share ports with hosts, never with the uplinks.
HostsSpareTheUplinks ==
    Saved /\ recipe.kind = "plain" /\ recipe.spines * recipe.spineTrunk < recipe.leafPorts =>
        LET links    == Elements(topology.links)
            uplinks  == {l.tgt : l \in {l \in links : l.src.device.kind = "spine"}}
            forHosts == {l.src : l \in {l \in links : l.tgt.device.kind = "ipu"}}
                        \cup {nic.port : nic \in Elements(topology.nics)}
        IN  uplinks \cap forHosts = {}

\* The first ports of a pod's spines are kept for the superspines: the pod's own
\* topology leaves the reserved ones free, and what the tier attaches to them
\* begins again at port 1 in every pod, each port once.
UplinksAreReserved ==
    Saved /\ Fits(recipe) =>
        /\ recipe.kind = "plain" =>
               \A i \in 1..Len(topology.links) :
                   LET end == topology.links[i].src
                   IN  end.device.kind = "spine" => end.number > recipe.reserved
        /\ recipe.kind = "tier" =>
               \A pod \in 1..recipe.pods, s \in 1..recipe.podSpines :
                   LET taken == {i \in 1..Len(topology.links) :
                                    topology.links[i].tgt.device = [domain |-> pod, id |-> Spine(s)]}
                   IN  /\ {topology.links[i].tgt.number : i \in taken} = 1..(2 * recipe.superspines)
                       /\ Cardinality(taken) = 2 * recipe.superspines

\* No two interfaces have the same MAC or IPv4 address; nor the same IPv6
\* address in a fabric of up to ten racks, since the text runs rack and leaf
\* together (a leaf, or a virtual machine, with up to three digits).
AddressesAreDistinct ==
    Saved => LET addresses == [i \in 1..Len(topology.nics) |-> topology.nics[i].address]
                 text      == [i \in 1..Len(topology.nics) |-> IPv6(addresses[i])]
             IN  /\ AllDistinct(addresses)
                 /\ (\A a \in Elements(addresses) : a[1] <= 10 /\ a[2] < 1000) => AllDistinct(text)

\* The tier's own file is there only when the addendum of every pod is there,
\* whole, and leads back over each link that leads to the pod, and no other.
TierComesWithItsPods ==
    Saved /\ recipe.kind = "tier" /\ path = "yaml" =>
        \A pod \in 1..recipe.pods :
            /\ PodFile(pod) \in DOMAIN files
            /\ files[PodFile(pod)] # Truncated
            /\ LET to == {l \in Elements(topology.links) : l.tgt.device.domain = pod}
               IN  Elements(files[PodFile(pod)].links) =
                       {ExternalLink(Port(l.tgt.device.id, l.tgt.number), TierDomain, l.src) : l \in to}

\* The robot file expects every link of the topology of its source and, if the
\* target is in this simulation, of the target, each with the other's port as its
\* far end; it names no port of theirs that the controller does not know.
RobotExpectsBothEnds ==
    Saved => LET expected == [d \in DeviceIDs(topology) |-> RobotLinks(topology, d)]
             IN  /\ \A l \in Elements(topology.links) :
                        \E x \in expected[l.src.device] :
                            x.target = l.tgt.device /\ x.source = SDNNumber(topology, l.src)
                 /\ \A d \in DOMAIN expected : \A x \in expected[d] :
                        /\ x.source # 0
                        /\ x.target \in DOMAIN expected =>
                              [target |-> d, source |-> x.at, at |-> x.source] \in expected[x.target]

\* The netcfg file gives no two devices one node segment (nor loopback, nor
\* router MAC), but for the fixed fabric, whose superspines are numbered like its
\* spines, past 99 leaves, past 100 spines beside IPUs, and for numbers of more
\* than 16 bits; the logical ports its commands create have distinct names when
\* the recipe fits, however the tenants go round.
NetcfgNamesAreDistinct ==
    Saved =>
        /\ /\ recipe.kind # "fixed" /\ TwoDigits(recipe)
           /\ \A d, e \in DeviceIDs(topology) :
                  /\ d.index < 65536
                  /\ d.kind = "leaf" => d.index < 100
                  /\ d.kind = "spine" /\ e.kind = "ipu" => d.index <= 100
           => AllDistinct([i \in 1..Len(topology.devices) |-> NodeSid(topology.devices[i].id)])
        /\ Fits(recipe) => AllDistinct(LogicalPorts(topology, Tenants))
=============================================================================
