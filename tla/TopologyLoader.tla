--------------------------- MODULE TopologyLoader ----------------------------
(***************************************************************************)
(* Loading and clearing a topology over the API (topo/loader.go).  Neither *)
(* is atomic: each is a sequence of calls, every one an action of          *)
(* Inventory, that ends at the first error.  A call fails because it is    *)
(* refused or because the connection breaks, with or without its effect;   *)
(* AddDevice and the StartDevice after it are one call here.               *)
(***************************************************************************)
EXTENDS Inventory, Sequences

CONSTANTS
    Loaders,        \* processes that load or clear
    DeviceList,     \* the topology file: devices with all their ports,
    LinkList,       \* links, as [id, src, tgt],
    HostList        \* and hosts, as [id, ports]

ASSUME LoaderAssumption ==
    /\ DeviceList \in Seq(Devices)
    /\ LinkList \in Seq([id : Links, src : LocalPorts, tgt : LocalPorts \cup RemotePorts])
    /\ HostList \in Seq([id : Hosts, ports : SUBSET LocalPorts])

VARIABLES
    todo,           \* calls each load has yet to make, none when it is idle
    clearing,       \* phase of each clear, "no" when there is none
    listed,         \* what GetHosts, GetLinks or GetDevices listed, not yet removed
    result          \* of the last load or clear: "none", "loaded", "cleared", "failed"

inventory == <<devices, links, hosts, usedPorts, request, crash>>
loaderVars == <<todo, clearing, listed, result>>

Free(o) == todo[o] = << >> /\ clearing[o] = "no"
Return(o, r) ==
    /\ result' = [result EXCEPT ![o] = r]
    /\ todo' = [todo EXCEPT ![o] = << >>]
    /\ clearing' = [clearing EXCEPT ![o] = "no"]
    /\ listed' = [listed EXCEPT ![o] = {}]

------------------------------------------------------------------------------
\* Loading: devices first, then links, then hosts.

AddDevice(d) == [kind |-> "device", arg |-> d]
AddLink(l) == [kind |-> "link", arg |-> l]
AddHost(h) == [kind |-> "host", arg |-> h]

Add(call) ==
    CASE call.kind = "device" ->
            AddDeviceSimulator(call.arg, [p \in PortsOf(call.arg) |-> TRUE])
      [] call.kind = "link" -> AddLinkSimulator(call.arg.id, call.arg.src, call.arg.tgt, TRUE)
      [] call.kind = "host" -> AddHostSimulator(call.arg.id, call.arg.ports)

Accepted(call) ==
    CASE call.kind = "device" -> call.arg \notin DOMAIN devices
      [] call.kind = "link" -> LinkAccepted(call.arg.id, call.arg.src, call.arg.tgt)
      [] call.kind = "host" -> HostAccepted(call.arg.id, call.arg.ports)

Topology ==
    [i \in DOMAIN DeviceList |-> AddDevice(DeviceList[i])]
    \o [i \in DOMAIN LinkList |-> AddLink(LinkList[i])]
    \o [i \in DOMAIN HostList |-> AddHost(HostList[i])]

LoadTopology(o) ==
    /\ Free(o)
    /\ result' = [result EXCEPT ![o] = "none"]
    /\ todo' = [todo EXCEPT ![o] = Topology]
    /\ UNCHANGED <<inventory, clearing, listed>>

Create(o) ==
    /\ todo[o] # << >>
    /\ Add(Head(todo[o]))
    /\ IF Len(todo[o]) = 1
       THEN Return(o, "loaded")
       ELSE todo' = [todo EXCEPT ![o] = Tail(@)] /\ UNCHANGED <<clearing, listed, result>>

CreateRefused(o) ==
    /\ todo[o] # << >>
    /\ ~ Accepted(Head(todo[o]))
    /\ Return(o, "failed")
    /\ UNCHANGED inventory

IgnoresErrors(o) ==
    /\ todo[o] # << >>
    /\ IF Len(todo[o]) = 1
       THEN Return(o, "loaded")
       ELSE todo' = [todo EXCEPT ![o] = Tail(@)] /\ UNCHANGED <<clearing, listed, result>>
    /\ UNCHANGED inventory
CreateBreaks(o) ==
    /\ todo[o] # << >>
    /\ Add(Head(todo[o])) \/ UNCHANGED inventory
    /\ Return(o, "failed")

------------------------------------------------------------------------------
\* Clearing: hosts first, then links, then devices, each kind listed when its
\* turn comes.

Listing(phase) ==
    CASE phase = "hosts" -> DOMAIN hosts
      [] phase = "links" -> DOMAIN links
      [] phase = "devices" -> DOMAIN devices

DevicesFirst(phase) == CASE phase = "hosts" -> "devices" [] phase = "links" -> "hosts"
NextPhase(phase) == CASE phase = "hosts" -> "links" [] phase = "links" -> "devices"

Remove(phase, x) ==
    CASE phase = "hosts" -> RemoveHostSimulator(x)
      [] phase = "links" -> RemoveLinkSimulator(x)
      [] phase = "devices" -> RemoveDeviceSimulator(x)

ListPhase(o, phase) ==
    /\ clearing' = [clearing EXCEPT ![o] = phase]
    /\ listed' = [listed EXCEPT ![o] = Listing(phase)]
    /\ UNCHANGED <<inventory, todo>>

ClearTopology(o) ==
    /\ Free(o)
    /\ result' = [result EXCEPT ![o] = "none"]
    /\ ListPhase(o, "hosts")

GoesOn(o, x) == clearing[o] # "no" /\ x \in listed[o]
Delist(o, x) ==
    /\ listed' = [listed EXCEPT ![o] = @ \ {x}]
    /\ UNCHANGED <<todo, clearing, result>>

RemoveOne(o, x) ==
    /\ GoesOn(o, x)
    /\ Remove(clearing[o], x)
    /\ Delist(o, x)

IgnoresNotFound(o, x) ==
    /\ GoesOn(o, x)
    /\ x \notin Listing(clearing[o])
    /\ Return(o, "cleared")
    /\ UNCHANGED inventory
RemoveRefused(o, x) ==
    /\ GoesOn(o, x)
    /\ x \notin Listing(clearing[o])
    /\ Return(o, "failed")
    /\ UNCHANGED inventory

RemoveBreaks(o, x) ==
    /\ GoesOn(o, x)
    /\ Remove(clearing[o], x) \/ UNCHANGED inventory
    /\ Return(o, "failed")

ListNext(o) ==
    /\ clearing[o] \in {"hosts", "links"} /\ listed[o] = {}
    /\ ListPhase(o, NextPhase(clearing[o]))
    /\ UNCHANGED result

Cleared(o) ==
    /\ clearing[o] = "devices" /\ listed[o] = {}
    /\ Return(o, "cleared")
    /\ UNCHANGED inventory

\* The topology file cannot be read, or GetHosts, GetLinks or GetDevices fails.
ReadBreaks(o) ==
    /\ Free(o) \/ (clearing[o] \in {"hosts", "links"} /\ listed[o] = {})
    /\ Return(o, "failed")
    /\ UNCHANGED inventory

------------------------------------------------------------------------------
LoaderInit ==
    /\ Init
    /\ todo = [o \in Loaders |-> << >>]
    /\ clearing = [o \in Loaders |-> "no"]
    /\ listed = [o \in Loaders |-> {}]
    /\ result = [o \in Loaders |-> "none"]

Operate(o) ==
    \/ LoadTopology(o) \/ Create(o) \/ CreateRefused(o) \/ CreateBreaks(o)
    \/ ClearTopology(o)
    \/ \E x \in listed[o] : RemoveOne(o, x) \/ RemoveRefused(o, x) \/ RemoveBreaks(o, x)
    \/ ListNext(o) \/ Cleared(o) \/ ReadBreaks(o)

LoaderNext == \E o \in Loaders : Operate(o)
LoaderSpec == LoaderInit /\ [][LoaderNext]_<<inventory, loaderVars>>

\* Who loads has nobody else load or clear meanwhile; several may clear.
LoadsAlone ==
    \A o \in Loaders : todo'[o] # << >> =>
        \A x \in Loaders \ {o} : todo'[x] = << >> /\ clearing'[x] = "no"
AloneSpec == LoaderInit /\ [][LoaderNext /\ LoadsAlone]_<<inventory, loaderVars>>

------------------------------------------------------------------------------
\* Properties.

\* A clear that reports no error leaves nothing behind, also after a load that
\* failed half way and with other clears at work, unless somebody loads
\* meanwhile (loader.go:178).
ClearedIsEmpty ==
    [][\A o \in Loaders : clearing[o] # "no" /\ result'[o] = "cleared" =>
        /\ DOMAIN devices' = {} /\ DOMAIN links' = {} /\ DOMAIN hosts' = {}
        /\ DOMAIN usedEgressPorts' = {} /\ DOMAIN usedIngressPorts' = {}]_<<inventory, loaderVars>>

\* A load that reports no error has created the whole topology (loader.go:14).
LoadedIsComplete ==
    [][\A o \in Loaders : todo[o] # << >> /\ result'[o] = "loaded" =>
        /\ DOMAIN devices' = {DeviceList[i] : i \in DOMAIN DeviceList}
        /\ DOMAIN links' = {LinkList[i].id : i \in DOMAIN LinkList}
        /\ DOMAIN hosts' = {HostList[i].id : i \in DOMAIN HostList}]_<<inventory, loaderVars>>
==============================================================================
