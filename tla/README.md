# TLA+ specifications of fabric-sim

fabric-sim simulates a network fabric: switches that speak P4Runtime, gNMI and
gNOI to a controller, the links between their ports, and hosts with NICs.  These
modules specify the parts of it whose behaviour depends on order or on limits:
mastership arbitration, the streams and queues that carry packets, starting and
stopping devices, the forwarding pipeline and its entries, the inventory and its
port bookkeeping, the goroutines of the simulated hosts, loading and clearing a
topology, and the generator of topologies.  TLC checks them on small instances,
and TLAPS proves the central properties for every instance.

Paths below are relative to the repository, `simulator/` and `northbound/` being
`pkg/simulator/` and `pkg/northbound/`.

## 1. The system

| Component | State it keeps | Operations | Talks to |
|---|---|---|---|
| Mastership arbitration (`simulator/device.go`, `northbound/device/p4runtime/v1/p4runtime.go`) | `streamResponders`, `Device.Connections`, `roleConfigs` per device; role, election ID, sent code and a queue of 128 responses per stream | `StreamChannel`, `RunMastershipArbitration`, `RecordRoleElection`, `IsMaster`, `AddStreamResponder`, `RemoveStreamResponder` | every stream of the device; `Write` and `SetForwardingPipelineConfig` ask it who may write |
| Inventory (`simulator/core.go`, `simulator/link.go`, port part of `device.go`) | maps of device, link and host simulators, `usedEgressPorts`, `usedIngressPorts`, port and link status | add, remove, get; enable and disable a port; follow a link for an LLDP packet | all northbound services; the topology loader, over the API |
| Host activity (`simulator/host.go`) | one goroutine per host, its `done` channel and timer | start, stop, random ARP, requested ARP | inventory (under `simulation.lock`), packet-in of devices |
| Pipeline (`device.go`, `simulator/entries/`) | tables, action profiles, multicast groups, clone sessions, counters, meters, punt rules | `SetPipelineConfig`, `ProcessWrite`, `ProcessRead`, snapshots | packet I/O decides by the punt rules |
| Packet I/O (`device.go`, `p4runtime.go`) | a queue and two goroutines per stream | packet-out, LLDP and ARP packet-in, `SendToAllResponders` | every stream of the device, under its lock |
| Device agent (`northbound/device/service.go`, `device.go`) | the last gRPC server, the last traffic goroutine | start, stop (orderly or at once) | the streams of the server |
| Peer simulators (`simulator/peers.go`) | a client per domain | get or connect | LLDP packets over links that leave the simulation |
| I/O statistics (`simulator/stats.go`) | a window of samples | collect, summarise | walks the devices |
| Configuration (`simulator/config`, gNMI, gNOI) | a tree of nodes | get, set, subscribe | port status |
| Topology loader (`topo/loader.go`) | none between calls | load, clear | northbound API |
| Topology generators (`topo/generator.go`, the recipes beside it) | `Builder`: agent port, next, lowest and highest port per device | generate one of four kinds of fabric | files, which the loader and the exports read |
| Exports (`topo/netcfg.go`, `topo/robot.go`) | none | netcfg with ONOS commands, robot test topology | a generated or written topology file |
| Test controller (`onoslite`) | its view of the fabric | connect, arbitrate, reconcile | devices, as a P4Runtime client |

### What is hard about it

* `RunMastershipArbitration` takes the device lock to record a claim, releases it,
  and takes it again, shared, to tell everybody.  Several handlers are between the
  two at once, each with the winner it was given.
* Roles and election IDs are compared by pointer in one place
  (`SendMastershipArbitration`) and by value in others (`RecordRoleElection`,
  `IsMaster`, the check of `Write`).
* The fields of a stream are read and written by the handlers of other streams
  with no lock.
* `simulation.lock` is a readers-writer lock which some paths take twice, and
  which `RemoveHostSimulator` holds while it waits for a goroutine that takes it.
* Some lookups (link of a port, device at the other end) take no lock at all.
* The loader makes one call after the other, and stops at the first error.
* A stream's messages wait in a queue of 128; whoever meets a full one waits with the
  device's lock in hand, for a client.
* A batch of updates stops at the first that is refused, and what came before stays; the
  punt rules are derived from all entries after each update; snapshots hold no lock.
* A device has one agent and one server field for any number of starts and stops, and a
  start is answered over a channel that is either closed or sent to.
* The generator takes ports from ranges that are set, latched and wrapped around between
  the calls that take them.

### What makes each component correct

* Mastership: the recorded election of a role never goes down; at most one stream is
  told OK for an election; the stream that holds the recorded election is told OK and
  the others are not; a Write is applied only for a master; whoever makes a claim is told
  its status.
* Inventory: the port maps are exactly the ports of the links and hosts that exist; no
  port is used twice; switching a port switches its link; a packet that has nowhere to go
  is dropped.
* Hosts: the goroutine of a host lives as long as the host; locks are given back; requests
  are answered if no client holds them up.
* Loader: clearing leaves nothing, loading leaves everything, and nothing dangles in
  between.
* Pipeline: entries keep their uniqueness and their limits; an update changes the entry it
  names and no other; punt rules match the entries; a read is complete.
* Packet I/O: nobody waits for ever but for a client; the list of streams does not
  change under who goes through it.
* Agent: a start is answered, an orderly stop returns, a stopped device is silent.
* Generators: ports exist and are not shared beyond the intended wrap-round, reserved
  uplinks stay free, names and addresses are distinct, what belongs together is saved
  together.

## 2. The modules

| Module | What it is |
|---|---|
| `Uint128` | election IDs as two halves, and their order |
| `ElectionService` | abstract: what arbitration promises |
| `Mastership` | the code of arbitration, step by step |
| `MCMastership` | instances and environments for TLC |
| `MastershipTurns` | `Mastership` with clients that take turns, and the inductive invariant of their runs |
| `MastershipProofs` | types, inductive invariant, safety theorems, connections, clients that take turns; `Mastership` implements `ElectionService` |
| `Inventory`, `MCInventory`, `InventoryProofs` | `core.go`, port status, LLDP lookups |
| `InventoryHistory` | `Inventory` with a history variable: the links whose status was last set by switching their port |
| `RWMutex` | Go's `sync.RWMutex`, an external library |
| `HostActivity`, `MCHostActivity`, `HostActivityProofs` | goroutines of the hosts and every use of `simulation.lock` on their way; uses `RWMutex` |
| `TopologyLoader`, `MCTopologyLoader` | `loader.go`, composed with `Inventory`: each call is one of its actions; its theorems are in `InventoryProofs` |
| `ListLemmas` | lemmas about lists, for the other modules of proofs: removing the first occurrence, counting places, and induction over a sequence of sequences that is flattened |
| `Entries` | the stores of a pipeline as a value: keys, refusals, effects of updates |
| `EntryStore` | abstract: the map from names to values a client may expect |
| `Pipeline`, `MCPipeline`, `PipelineProofs` | configuration, batches, punt rules, reads, snapshots; implements `EntryStore` |
| `PacketIO` | streams, their queues, and sending to all of them; uses `RWMutex` |
| `DeviceAgent` | start and stop of a device, its servers and its traffic |
| `DeviceServer`, `MCDeviceServer`, `DeviceServerProofs` | `PacketIO` and `DeviceAgent` composed: streams belong to a server |
| `FabricRecipes` | each recipe as the sequence of `Builder` calls its generator makes |
| `TopologyExports` | what `netcfg` and `robot` derive from a topology |
| `FabricRecipeProofs` | lemmas about recipes of any size: what they rely on, how many ports they ask for, which names they give, and in which order |
| `TopologyGenerator`, `MCTopologyGenerator`, `TopologyGeneratorProofs` | the `Builder` executing the calls, and the files that are saved |

### Mastership

One stream is one `StreamChannel` call and its goroutine.  Its `pc` says where it is:

| `pc` | code | actions |
|---|---|---|
| `new` | before the call | `Open` = `AddStreamResponder` |
| `recv` | waiting in `Recv` | `Receive`, `Close` (= `RemoveStreamResponder`, then arbitrate once more) |
| `latch` | `LatchMastershipArbitration`; its fields are written one by one, seen in any order | `LatchRole`, `LatchElectionID` |
| `record` | waiting for the lock of `RecordRoleElection` | `RecordWinner`, `RecordLoser`, `RecordPanics` |
| `rlock` | between `Unlock` and `RLock` | `BeginNotification` |
| `check` | the loop over `IsMaster` | `CheckResponder`, `MasterNotFound`, `CheckPanics` |
| `notify`, `mark` | `SendMastershipArbitration`, one responder at a time; `sentCode` is set after the response is queued | `NotifyResponder`, `MarkSent`, `EndNotification` |
| `closed` | the call has returned | |

A pointer to a role or an election ID is `<<stream, n>>`, the *n*-th message of that
stream: two messages with equal contents are two pointers, as in the code.  The role
name `""` stands for a message without a role, whose pointer is nil; a message that
carries a `Role` with an empty name is not modelled.  A Write is `CheckMastership`, which
takes no lock, and `ApplyWrite`, under the device lock.  Calls that are refused change
nothing and have no action.  A nil dereference, and an unlocked map access that meets a
write, set `panicked`, and nothing happens afterwards.  The role's configuration, the
device ID and the cookie do not influence arbitration and are left out.  The capacity of
the response queue is the subject of `PacketIO`.

### Inventory

Adding and removing hold `simulation.lock` from beginning to end and are single actions.
Enabling and disabling a port are two: the device is looked up (`FindDevice`), and its
port is changed later (`SetPortStatus`), when the device may have left the inventory; the
request then changes a device nobody sees (`gone`), but also the link found by the port's
ID.  `setPortStatus` is one action because nobody reads port and link together between
its assignments.  `ProcessLLDPPacket` and `EmitLLDPPacket` are the two lookups of an LLDP
packet; `MapFault` is what Go's runtime does when it notices an unlocked map access that
meets a write.  The agent that is stopped when a device is removed, the node tree and the
counters are not in this module.

A port is added enabled or not, and a link with the status that its request carries
(`links.go:33`); nothing makes the two agree until the port is switched.  Only the loader always
asks for links that are up.  The NICs of a host are a set of ports: a host with two NICs on
one port, which the code accepts, is the same here as a host with one.

### HostActivity and RWMutex

`RWMutex` is the contract of Go's lock: a writer that waits keeps new readers out, and
its `Unlock` lets them in before the next writer.  A call is one action, the return is a
guard (`MayRead`, `MayWrite`) of the action after it.  A host's goroutine is in
`select`, in `GetRandomHostSimulator` (`random`, with one more read lock for each
recursive call), between packets (`emit`), in `GetDeviceSimulatorForPort` (`lookup`), or
sending a packet-in to the device it has found (`send`).  Of the device it is only kept whether it
holds the goroutine up (`held`): a stream of the device has a full queue, or somebody who waits for
room in one has the device's lock (`PacketIO` has both).  `EndLookUp` lets either be the case, and
`MakesRoom` is the client that reads again, or goes.
A removal that waits in `sim.Stop()` is in `stop`: the send on the unbuffered channel and
its reception by the goroutine are one action.  `change` and `read` stand for the
requests about devices and links that take the same lock.  Every host has at least one
NIC, as in all the topology files of the repository.

### TopologyLoader

A load is the list of calls it has yet to make; a clear is a phase and what was
listed in it.  Each call is an action of `Inventory`.  It can succeed, be refused, or
break, with or without its effect; the loader gives up at the first error.  `ReadBreaks` is a
topology file that cannot be read, or a `GetHosts`, `GetLinks` or `GetDevices` that fails.  `AddDevice` and
the `StartDevice` that follows are one call.

### Entries and Pipeline

The stores are one record: rows by key, default rows by table, cells of counters and
meters by array and index, and one map of records for members, groups, multicast groups
and clone sessions, which have the same operations.  `HashedKey` is what `entryKey`
writes into the hash: the kind and the bytes of each match in the order of the field IDs,
without the IDs, and the priority; SHA-1 itself is taken to be injective.  `Refusal` and
`Applied` say what an update does.

| Action of `Pipeline` | Code |
|---|---|
| `SetPipelineConfig` | new tables, counters, meters, profiles; the punt rules stay |
| `BeginBatch`, `ApplyUpdate`, `RefuseUpdate`, `EndBatch` | `Write`, `ProcessWrite`, one update at a time under `ds.lock`; `ApplyUpdate` of a table entry ends with `checkPuntToCPU` |
| `UpdateBeforeConfig` | the same on nil tables |
| `BeginRead`, `Scan`, `SendEntity`, `EndScan`, `BreakRead`, `EndRead` | `ProcessRead` and the buffer of `ReadTableEntries` |
| `ReadPanics` | a read of what the code finds nil |
| `BeginWalk`, `EndWalk`, `MapFault` | the snapshots of `GetDevice`, which iterate over maps with no lock |

The rows are visited in any order (a Go map), so `CheckPuntToCPU` picks any of the rules
for an ether type.  Only what decides about punting is kept of actions and matches.  A read names
sources that exist, each once: what is left out is a request for an unknown one, which the code
answers with NOT_FOUND, and one that repeats a source.

### PacketIO, DeviceAgent and DeviceServer

The goroutine of a stream registers (`AddStreamResponder`), receives, elects under the
exclusive lock, then goes through the responders under the shared lock (`BeginBroadcast`
to `EndBroadcast`); when its client has gone it removes itself and arbitrates once more.
`Emitters` are other goroutines that send packet-ins the same way.  `Enqueue` is the send
on the channel of 128, and disabled while it is full; `SendQueued` is the second goroutine
of the stream, which ends at its first failure.  `Skip` stands for the role filter and for
a status that has been sent before, so that any responder may be passed over.  A handler ends when
its client has gone or a packet-out is refused (`RefusePacketOut`: no pipeline is configured), and
the goroutine that sends ends with the stream (`IsOver`).  Two senders are outside the module: a
`Read` streams its responses to its own client (`device.go:790`), and `setPortStatus` notifies the
subscribers of gNMI (`device.go:270`), both under the device's lock.

A start makes a traffic goroutine and a server; the server's goroutine goes through `new`,
`created` (it listens), `started` (it has closed the channel), `serving`, and `draining`
or `ended`; `failed` is a server that could not listen.  The gRPC server is external: an
orderly stop waits for the handlers, an immediate one ends their connections.  In
`DeviceServer` a stream has an owner, and `Stop` and `Drain` tie the two modules together.

### FabricRecipes, TopologyGenerator and TopologyExports

A generator is a fixed sequence of calls, so `FabricRecipes` gives it as a sequence, and
`TopologyGenerator` executes it, one action per `Builder` operation: create a switch, a
link or a trunk member, an external link, an interface, latch or set a range of ports,
save.  A save may fail before or after the file was created.  The module has one
behaviour per recipe, path and failing save; what could go wrong is arithmetic over
thousands of calls, and partial saves.  A recipe file that cannot be read, or holds no recipe
(`generator.go:78` and `95`), makes no `Builder` and has no action.  The exports take a number of
more than 16 bits for 0 (`ParsedIndex`).

## 3. The runs

All pass unless marked **finding**: there TLC shows that the code does not do what
one of its comments says (section 4).

| Run | Instance | What it shows |
|---|---|---|
| `arbitration` | 2 streams of one client, 2 claims each, default role | types, highest winner, one OK per election, connections, refinement of `ElectionService` |
| `turns` | 3 streams of 2 clients, distinct IDs, one at a time | whoever holds the recorded election was last told OK, and nobody else |
| `answers` | 2 streams, 2 roles, 1 writer, fair handlers | every claim is handled to its end, and its stream told the claim's status; every applied Write carries an election that was recorded, and is not above the recorded one |
| `race` | 2 streams at once, none leaves | **finding** a late handler tells the master a failed status |
| `ports` | 2 devices, 3 ports, 2 links, 1 host, 1 remote port, 1 request | types; port maps match, so that ports are not shared; a link agrees with its port once the port was switched |
| `hangs` | 2 hosts with 1 and 2 NICs, 2 requests of every kind | balanced locks; goroutines match hosts; hangs are for ever; whoever is not answered hangs in one of two ways, or waits for a client that does not read |
| `removal` | 1 host, 1 request | **finding** removing a host can hang although all clients read |
| `reload` | 2 devices, 3 links, 2 hosts, 2 operators | clearing and loading are complete; nothing dangles |
| `writes` | 2 configurations, 20 batches, 1 read, 1 snapshot | rows lie under their keys; punt rules match the entries; profiles hold; reads are complete; refusals are justified; refinement of `EntryStore` |
| `collision` | 3 batches, 2 entries with one key | **finding** an entry is refused that does not exist |
| `streams` | 2 operators and no stream, or 2 streams, 1 emitter and 1 operator; 2 starts, fair goroutines | the list is stable; goroutines get through, starts are answered and orderly stops return unless a client holds them up; a stopped device is silent |
| `fabrics` | 10 shipped recipes and 20 at the limit of their switches | ports, uplinks, addresses, names, exports and saved files |

### Bounds, and why they are enough

* *Streams* 2 or 3: every property relates at most a master, a challenger and, in
  `turns`, somebody who lost.  Three streams at once are beyond what TLC finishes in
  reasonable time; the theorems hold for any number.
* *Elections* 1, 2 and 2^64 are the smallest set whose order needs both halves: a
  comparison of only one, or of each by itself, gives another winner.
* *MaxMessages* 1 or 2: with 2 a stream claims again, with the same or another ID, what it
  or another has claimed before.  It bounds the number of messages per stream and nothing
  else.
* *Roles* the default role and one named role, which are the two ways the code finds the
  responders of a role.
* *Ports* 3 on two devices: a link may lead back to its device or to the other, and a host
  may have several NICs, take a port of a link or have none.
* *Links* 2, *Hosts* 1 or 2: a second user of a port; the port that the first gave back.
* *MaxAddresses* 2 and *MaxDepth* 2: a second packet after the first; one recursive call
  beyond the first.  More of either repeats the same lock calls.
* *Requests* 2: one that holds or waits to read and one that writes.
* *Batches* of one and two updates: an update that is refused first and second, an entry
  that is inserted, modified so that its rule goes, and deleted, two rules for one ether
  type, every kind of update both accepted and refused.  A longer batch meets no other case.
* *Profile* of size 1 with three members: at the size, one beyond, and refused.
* *BufferSize* 2 with up to three rows: a full buffer, a partly filled one, an empty flush.
* *QueueSize* 1, with two streams and an emitter: a full queue is met by two goroutines, of
  which one may be the stream's own.
* *MaxStarts* 2, by one operator or by two at once: a second server while the first is being
  made, listens, serves or has ended, or, with two operators, drains; and a stop of the server
  whose start has not been answered.
* *Recipes*: all of `src/topologies` but `max`, whose 10800 calls TLC does not finish in
  reasonable time; `AtTheLimit` asks small switches for all of their ports, and for one
  and two more.

### Environments

`SerialSpec` of `MastershipTurns` (run `turns`): a client acts when the device is
done with the other streams, and nobody uses an election ID twice.  It is there to ask what
arbitration does without races.  `StayingSpec` of `MCMastership`: IDs are distinct and
nobody leaves.  `HistorySpec` of `InventoryHistory` is `Inventory` with a variable that remembers which links were
switched with their port; it excludes nothing.
`AloneSpec` of `TopologyLoader`: nobody loads during another load or clear, several may
clear at once.  With concurrent loads the loader promises nothing, since it
holds no lock between its calls.  The constants `Ops` and `Restless` of `HostActivity` say
which requests are made and which timers fire.  `MCSpec` of `MCDeviceServer` has two
environments, of which a behaviour chooses one.  In `Operating` two operators start and stop the
device in any mode at any time, and nobody streams from it; in `Streaming` there is one operator, and
the second stream, its client and the second start are kept apart from some of what the others do,
as its comment says, to have a graph TLC can search for liveness.  Neither disables anything that
is fair.  So two operators and a stream are never together in this run; the theorems of
`DeviceServerProofs`, which are about safety, have no such bound.

### Fairness

Weak fairness for the goroutine of each stream (`Handle`, `HandleStream`, `SendQueued`), of
each host (`HostStep`), server (`RunServer`) and request (`RequestStep`, `Operate`): Go's scheduler runs a goroutine that can run, and
`sync.RWMutex` lets a waiting writer in ahead of later readers.  In `Mastership` that is
why weak fairness suffices for the exclusive lock too: there are finitely many messages,
so that the readers run out.  Strong fairness for `Enqueue` only: room in a queue comes and goes
as others fill it, and Go serves the goroutines that wait on a channel first in, first out, so
that none is passed over for ever.  Clients, operators, timers and new calls are never forced,
nor is a client made to read (`MakesRoom`).

### Deadlock and symmetry

Deadlock is checked in `reload`.  Elsewhere it is off because the system may stop: every
stream is closed or has used its messages, the process is gone, the generator has saved its
file, every start is used up, or the program hangs, which
`hangs` and `streams` examine by name.  Streams `s1` and `s2` (`Twins`) are interchangeable because they
have the same address; in `turns` the third has another.  In `Inventory` the links, the hosts,
and two ports of `d2` are.  No run that checks liveness uses symmetry.

## 4. What the code does that its comments do not say

Three have a run with a counterexample, and an entry in `PROJECT.json` with the
quotation.

1. `race`: A handler that is delayed between `RecordRoleElection` and its
   notifications tells the stream that meanwhile won a failed status, last
   (`device.go:332`).
2. `removal`: `RemoveHostSimulator` waits for a goroutine that waits for the lock it holds
   (`core.go:360`).
3. `collision`: `entryKey` leaves out the IDs of the fields, so that entries which match the
   same value in different fields have one key (`entries/table.go:374`).

The others are in the models, as actions or as what a property excepts, without a run of
their own.  About mastership:

* `SendMastershipArbitration` compares role pointers, which for a named role differ between
  streams: a deposed master of a named role keeps its OK (`p4runtime.go:142`, `NotifyResponder`).
* A stream is registered before it has arbitrated; `IsMaster` then dereferences its nil
  election ID (`p4runtime.go:187`, `CheckPanics`).
* `Write` checks mastership and applies later, when a higher election may have been recorded
  (`p4runtime.go:57`, `CheckMastership` and `ApplyWrite`).
* When the master's stream closes, its own claim is arbitrated again and found recorded, so
  the others get INVALID_ARGUMENT and not the NOT_FOUND of the comment at `device.go:341`
  (`Close`, then `RecordLoser`).
* A master that sends its claim again is told INVALID_ARGUMENT, since its own recorded claim is
  not lower (`device.go:308`, `RecordLoser`).
* A claim whose status is the one in `sentCode` has no response (`p4runtime.go:153`, `Skips`), even
  if that was sent before the stream's first claim, on account of another stream.  `sentCode` is
  also set after the response was queued and without a lock, so that two handlers can leave in it a
  status older than the last response, and the next claim is then skipped against it (with two
  claims per stream TLC finds this too).  `ClaimIsToldItsStatus` therefore says that the stream has
  been told the status, in a response to the claim or in an earlier one.

About streams and servers:

* A goroutine that meets a full queue waits with `ds.lock` read-locked (`p4runtime.go:138`):
  a client that stops reading stops the device (`Held`).  The sender of a stream ends without
  emptying the queue (`p4runtime.go:228`), so that this wait may have no end even after
  the client has gone; and a sender whose queue is empty is never told to end.
* A server that is stopped between listening and serving sends its error on a channel that
  is closed, which panics (`service.go:77`, `ServePanics`).  Stopping a device that never
  came to listen dereferences nil (`service.go:85`, `StopPanics`).
* Starting a device twice replaces its server and its cancel function: the first server goes
  on and the first traffic goroutine cannot be ended any more.  `NothingRunsAfterStop`
  therefore speaks of starts that did not fail, and of operators that take turns.

About the pipeline:

* The check for a forwarding pipeline never fails, since the configuration is never nil;
  writing before there is one dereferences nil tables (`p4runtime.go:76`, `UpdateBeforeConfig`).
  Reads do so too, and reads of direct counters and meters always (`device.go:810`, `ReadPanics`).
* A new configuration keeps the punt rules of the old one until an entry is written
  (`device.go:406`): `PuntRulesMatchEntries` excepts a device without entries.
* Action profiles are compared with their size before inserting, with `>`, and hold one more
  (`entries/profile.go:152`, `ProfilesHold`).
* `GetDevice` iterates over maps that a write changes (`device.go:439`, `MapFault`).

About the inventory and the hosts:

* Disabling a port leaves a link *to* that port up (`device.go:251`, `SwitchedLinks`), though
  the comment speaks of any links that use the port.
* `EmitLLDPPacket` goes on after it has warned that a device or port is not found
  (`device.go:598`, `EmitPanics`).
* `EmitARPs` takes the read lock twice and can hang between (`core.go:390`); this is the
  second kind of hang in `Hung`.
* A goroutine of a host, and a request to emit ARPs with `simulation.lock` read-locked
  (`core.go:383`), send packet-ins to devices, which hold them up while a client does not read
  (`host.go:114`).  The second keeps every writer of the inventory waiting, and behind it everybody
  else; for the first a removal of its host waits, with the lock.  `RequestsReturnOrHang` excepts
  this wait (`WaitsForClient`), which ends if the client reads or goes.
* A device is removed though links and hosts are attached to its ports, which stay
  (`core.go:158`, `RemoveDeviceSimulator`); only the order of a clear avoids it.
* A link keeps the status it is added with, whatever the status of its port
  (`core.go:200`, `AddLinkSimulator`).

About generated topologies:

* A fabric that asks a switch for more ports than it has gets ports twice, silently: on
  leaves the hosts share, as intended, on spines the links wrap around to port 1, reserved
  or not, and the spines of a pod to port 0, since no lowest port was set for them
  (`generator.go:192`).  The properties therefore ask whether a recipe `Fits`.
* IPv6 addresses run rack and leaf together as text (`generator.go:344`): distinct up to ten
  racks only (and fewer than a thousand leaves), and with ten or more interfaces per host no addresses at all, as in `pod.yaml`,
  where one ends in `10.10.619.1`.
* An IPU is named by its rack and its host with two digits each (`generator.go:296`), which the
  model writes as one number.  From 100 hosts in a rack the number no longer stands for the name
  (and the name no longer for one IPU: rack 10 host 101 is rack 101 host 1), so `TwoDigits`
  excludes such recipes.
* In the fixed fabric the super-spines are numbered like the spines, beyond 99 leaves a
  leaf is numbered like a spine, beyond 100 spines a spine like an IPU, and numbers of more than
  16 bits like 0: the netcfg export gives two devices one segment ID, loopback
  and router MAC (`netcfg.go:147`).
* With an output path that does not contain `.yaml` each pod's file overwrites the last, and the
  tier's own overwrites them all (`superspine_tier.go:44`).

## 5. What is proved

The proofs assume the named assumptions about the constants and nothing else:
`MastershipAssumption` (the default role is a role, IDs are pairs of naturals, nil is
neither a pointer nor an ID, every stream has an address), `InventoryAssumption` (every
local port has a device, remote ports are others), `HostActivityAssumption` (hosts and
requests are different goroutines, nil is neither, every host has a NIC),
`PacketIOAssumption` (streams and emitters are different goroutines, a queue has room),
`DeviceAgentAssumption` (the bound on starts is a number),
`PipelineAssumption` (what a configuration and an update look like, the buffer has room),
`NilIsNoValue`, `LoaderAssumption` (a topology file lists devices, links between their ports, and
hosts with NICs on them) and `RecipesAssumption` (every recipe is `Buildable`: its numbers are
naturals, switches have a port, the spines of a plain fabric have one that is not reserved, and what
is latched has been linked before.  A recipe without those links would latch the next port of a
device that has no entry in the `Builder`'s map, which is port 0, and wrap round to it: `PortsExist`
is false of it).  Two theorems about the pipeline assume `KeysTellApart` besides, which says
that no two entries which are written have one key: without it they are false, as `collision`
shows.  Sets of
streams, ports, hosts and so on may be of any size, infinite ones included, and TLC evaluates the
assumptions in every run.

**`MastershipProofs`.**  `TypeCorrect` is inductive by itself.  `WinnerIsHighest` alone is
not: a winner has to be a claim that was recorded, and stay so when its stream receives
more, so `IInv` adds

* `PendingIsLast`: the claim a handler works on is the last message of its stream, so a message
  that was overtaken has been recorded;
* `WinnersWereRecorded`: every winning pointer in the role map, in a call or in a response
  leads to a recorded claim, of the role whose entry it is;
* `WinnersAreUnique`: two of them with the same role and ID are the same pointer; this is the
  strict comparison of `RecordRoleElection`;
* `LatchIsOwn`, `OkIsOwn`: a stream latches only its own messages, so the OK, which needs
  equal pointers, goes to the sender of the winning message;
* `WritesWereRecorded`: what a Write compared itself with was recorded.

`OneOk` follows from the last but one and uniqueness, `WritersWereMasters` from the last and
`WinnerIsHighest`.  Nothing in the argument depends on when the lock is released,
which is why it holds in spite of finding 1.

`ConnectionsAlwaysMatch` counts: there are as many connections with an address as streams in the
list of responders with that address (`ConnectionsInv`).  That the removal of the first of several
equal connections keeps the count is a fact about lists (`ListLemmas`); that the list of responders
is exactly the streams that are served, each once, is what makes the removal of a stream remove a
connection of its client.

`HolderIsTold` and `OthersAreTold` are about `SerialSpec`, where finding 1 cannot occur, and assume
that all clients use the default role, since for named roles `SendMastershipArbitration` compares
pointers and the first of them is false.  `TurnsInv` of `MastershipTurns` follows one notification
through its loop: the winner the handler works with is the recorded one, a responder latched it
exactly if it has won (`KnowsWinner`), the responders before the place of the loop were told and
those after it will be (`ToldInTurn`), and `sentCode` is the last status that was queued but for one
place (`SentIsLast`, `MarkIsLast`).  That IDs are never used twice makes equal IDs equal pointers.

Refinement, in the same module: `Highest` and `Oks` map the state to `ElectionService`.  Recording a winner is `Elect`, which needs that the old winner is lower;
a notification that gives a new OK is `Confirm`, which needs
`OneOkPerElection` after the step; any other step leaves both unchanged, since the
messages pointers lead to do not change.

**`InventoryProofs`.**  `TypeCorrect`, then `UsedPortsAlwaysMatch` with the types as its
only strengthening.  Each action is shown to add or remove one user with its ports
(`TakePorts`, `FreePorts`, stated about any user) or to keep all of them (`KeepPorts`).
`PortsNeverShared` is a consequence: a map has one value per port.  `SwitchedLinksAlwaysAgree` is
about `HistorySpec`: a link that was switched with its port agrees with it.  `StatusInv` adds the
types, the port maps, and that the remembered links exist.  The request knows only the port: that the
link it finds is the one that leaves from there, and no other, is what the map of used ports is
for (`FoundLinkLeavesThere`, from `UsedPortsMatch`).

**`InventoryProofs`, the loader.**  `LoaderImplementsInventory`: every step of the loader is a step of
`Inventory` or leaves its variables, so the theorems above hold of loads and clears.  The other three
are about `AloneSpec`, where nobody loads during another load or clear, and any number clear
at once.  `AloneInv` says for a clear that what its phase has not listed is gone
(`ClearProceeds`), which outlives the removals by others; for a load that each call of the file is
still to be made or its object exists (`LoadProceeds`); and that there is nothing but what the file
names.  `NothingEverDangles` uses the order of the phases: a device goes when no link and no host is
left.

**`HostActivityProofs`.**  `LocksAreBalanced` proves the invariant `IInv`: the number of
read locks of a goroutine follows from its place in the code, and whoever stops a host
writes alone.  With it, `GoroutinesAlwaysMatch`: the goroutine that receives is the one
of the host that is removed.  `HangsLast` proves the action property `HangIsForever`:
in either hang neither the lock nor its owner can move.

**`DeviceServerProofs`.**  `TypeOK` is not inductive: a queue stays within its room, and the turn
of a sender within the list, only as long as nobody shortens the list under a sender.  So `IInv`
adds `SendersHoldTheLock`: whoever puts a message into a queue has the read lock and has come to a
responder in the list.  It is preserved since a writer excludes all readers
(`WritersExcludeReaders`), so at a change of the list nobody sends (`NobodySends`), and since no
call of the lock takes a read lock from another goroutine (`RLockEffect` and its like).
`StreamsAreListedOnce` makes the removal of the first occurrence enough, the loop in
`RemoveStreamResponder`; `RemoveFirstOfOnce` in `ListLemmas` says what it leaves.  The theorems are
`TypeCorrect`, `ListedOnce` and `ListNeverChangesUnderSenders` (`ListIsStable`).

`StoppedDevicesAreQuiet` is about the behaviours in which operators take turns
(`OperatorsTakeTurns`); the property is false of others.  `TurnsInv` says which requests go with
which place of the last server, and that older servers have ended once the last one listens: two
servers do not listen on one port (`ServersInv`); and that the device's cancel function ends all of
its traffic, but for a start beside a server that still runs (`TrafficInv`).  That start fails, and a
failure is remembered for ever (`NoneFailed` never comes back), which is why the invariant may
assume of the state *after* the step that none has failed.

**`PipelineProofs`.**  `IInv` says what the stores are made of (rows of entries that were
written, each under its key; records with values that were written; profiles at most one beyond
their size, and finite), that the rest of a batch consists of updates, and that the punt rules
match.  None of the four properties it gives is inductive alone: the effect of an update on the
rules needs the shape of the row it modifies, and counting needs finiteness.  The lemmas follow the
kinds of updates (`EntryKeepsInv`, `DirectKeepsInv`, `RecordKeepsInv`, `CellKeepsInv`), and
`UpdateKeepsInv` puts them together; every other action leaves the stores or makes new ones.
`Refinement` shows that `Pipeline` implements `EntryStore`.  Its mapping looks an entry up by
its name among all rows, not by its key, so it is the place where equal keys would do harm;
`EntryValue` says that with `KeysTellApart` the row that holds a name is the one under its key,
and `EntryUpdate` and `RecordUpdate` that an update changes the value of its own name only.
`ReadsComplete` rests on `ReadsInv`: what was sent, what is in the buffer, what the scan has
left and what is in the sources still to be scanned are disjoint, are together what was asked for,
and nothing is written meanwhile; no response is longer than the buffer.

**`FabricRecipeProofs` and `TopologyGeneratorProofs`.**  A recipe is a sequence of calls built with
`ForEach` from shorter ones, so the proof has two parts.  The first module is about the sequences,
and the second about the steps that execute them.  `Plan(r, H, G)` is the set of
those whose calls are of the kinds recipe `r` may make, and rely on nothing but what `H` names or an
earlier call has done (a switch is created before its ports are used, a port is taken before one is
latched), and do at least `G`.  Plans are
closed under concatenation and
`ForEach` (`FlattenInduction` in `ListLemmas`, a well-founded induction over the number of pieces),
and every recipe is a plan (`CallsArePlanned`).  The steps keep the invariant `GeneratorInv`:
the calls that are left are a plan for what has been done, every range that was set or latched
lies within the ports of its device (`MapsInv`), so that wrapping round gives a port of the device,
and what was added is on such ports (`TopologyInv`).  `PortsAreMade` follows from the last, and so
does `LinksAreExpectedTwice`: a port that exists has a number the controller knows, so that both
devices of a link find it.

`PortsAreTakenOnce` counts.  `Plan` keeps what has been done and not how often, so `FitInv` adds the
count.  A recipe that fits begins with the calls that create spines and reserve their ports
(`Early`, in the plain fabric), before any port is taken (`Later`); `Within(r, d, m)` is the set of the later sequences
that ask device `d` for at most `m` ports, a port being asked for by `Uses`.  It is closed under
concatenation with addition, and under `ForEach` with multiplication (`WithinEach`), or without it
when at most one piece concerns `d` (`WithinAtMostOne`); so every recipe that fits asks each device
for no more than it has room for (`CallsFit`; a case per recipe, with the arithmetic of `Fits`).
`FitInv` then says: while the early calls run (`Starting`) there are no links and
interfaces; afterwards (`Running`) a device is asked for nothing more, or for no more than the
ports from its counter upwards, which are all still free, so that the counter wraps round only
when nobody asks any more; and the ends of the topology are on ports apart.

`AddressesDiffer` and `NetcfgNamesDiffer` say that no name is given twice.  `Clear(named, C)` is the
set of the sequences of calls from `C` of which no two clash: two interfaces with one address, or,
where devices have a name each (`named`: not in the fixed fabric, and with hosts of two digits
beside IPUs), two switches with one name.  One sequence after another is clear if the two are about
different devices, or racks, or hosts (`ClearAbout`), and so is `ForEach` whose pieces are about
different ones; `CallsAreClear` follows the recipes.  `NamesInv` says that the calls that are left are
clear and give nothing that the topology has, whose devices and addresses therefore differ.  The
rest is arithmetic on the printed numbers: how many digits a leaf has can be told from the IPv6
text within ten racks (`TextTellsAddress`), and a node segment tells the kind of its device
(`SegmentTellsDevice`).  The logical ports need `PortsAreTakenOnce` as well.

`PodsAreSavedFirst` is about order: an external link is added to the topology and, turned round, to
the addendum that is being collected; saving a pod writes the addendum and starts another.
`Passing(lo, hi)` is the set of the sequences that link the pods from `lo` to `hi` in their order, and save each
after its links; the calls of a tier pass from the first pod to the last (`TierPasses`).  `PodsInv`
says of some pod (`Reached`) that the pods before it are stored with the links back, that the
addendum holds the links back to this one, that no link leads to a pod after it, and that the calls
left pass from it to the last.  When no calls are left there is no pod left to pass.

`HostsStayOffTheUplinks` is about plain fabrics and holds also where the hosts wrap round, so it cannot count as
`PortsAreTakenOnce` does; what keeps the hosts off is that they wrap round to the port that was
latched.  `Latching(d, n)` is the set of the sequences in which leaf `d` is latched, before that takes
at most `n` ports, for uplinks only, and after it has no uplink; in a plain recipe every leaf has
such a sequence, and other devices have no uplinks.  `LatchInv` says of each device that
it is before its latch (its uplinks are below its counter and the `n` to come fit), after it
(its uplinks are below its lowest port and its hosts are not), or has no uplinks.  What a call does to
counter, lowest port and ends (`Dispenses`) is all that the step needs.

`UplinksStayReserved` relates calls that are far apart: where the counter of a spine starts, and
how far it is when the links to the tier are numbered.  In a plain fabric a spine is asked for
nothing more, or its counter is past the reserved ports, or the call that puts it there is among
those that are left (`Reserving`); `FitInv` bounds what is asked, so the counter does not wrap round
to the reserved ports while they matter (`ReserveInv`).  In a tier, `Surrounded(Beside, Attachment)`
says where the calls about a spine of a pod stand: among calls about others, its first port is set,
then its last, then all its links follow in a row.  `TierInv` follows each spine through three phases
(`Joining`): `Awaiting` these calls, `Opening` with the counter at 1, and `Counting`, with `k` of its `n`
links on the ports from 1 to `k` and the counter at `k + 1`, below the wrap because `Fits` leaves
it room for `n`.  When no calls are left `k` is `n`.

## 6. What is only model-checked

Liveness: `ClaimIsToldItsStatus`, `RequestsReturnOrHang`, `GoroutinesReturnUnlessHeld`,
`StartIsAnswered` and `OrderlyStopReturnsUnlessHeld`, which rest on fairness.  Every other property
of the passing runs is stated by a theorem.

About hangs the action property `HangIsForever` is proved: the two kinds of hang which
`RequestsReturnOrHang` excepts have no way out.  Its third exception, the wait for a client, has one,
which the client may never take.

## 7. Not modelled

* I/O statistics: sums under a lock of their own that are added to a sample and reset in one
  critical section.  What is unlocked, the walk over the map of devices, is the same data race as
  `MapFault` in `Inventory`.
* Peer simulators: a client per domain, made under `simulation.lock` and kept.  The remote call
  holds no lock; the other simulator is another program.
* The gNMI tree, its locks and its subscriptions belong to an external library, and so do the
  metadata codec and the packet parser; gNOI answers are fixed.
* The test controller is a client of the simulator and no part of it.
* Command lines, start-up, positions of devices on the grid, the text of files and of names, but for
  what `TopologyExports` says of numbers in them.
