----------------------------- MODULE HostActivity ----------------------------
(***************************************************************************)
(* The goroutines of the simulated hosts (simulator/host.go) and the       *)
(* requests that add hosts, remove them and make them send ARP requests,   *)
(* with every acquisition of simulation.lock.  Each host has a goroutine   *)
(* that waits for its timer or for a message on its done channel; when the *)
(* timer fires it picks another host and sends one ARP request per NIC.    *)
(* Removing a host sends on the channel, which is unbuffered, while it     *)
(* holds the lock.                                                         *)
(*                                                                         *)
(* Of the devices that the requests are sent to (PacketIO) it is only kept *)
(* that one may hold up the goroutine that sends.                          *)
(***************************************************************************)
EXTENDS RWMutex, FiniteSets

CONSTANTS
    Hosts,          \* host IDs, which are also the names of their goroutines
    Requests,       \* goroutines of concurrent requests
    NICs,           \* how many NICs each host has
    Ops,            \* the kinds of request that are made
    Restless,       \* the hosts whose timers fire
    MaxAddresses,   \* bound: addresses in one request to emit ARPs
    MaxDepth        \* bound: recursive calls of GetRandomHostSimulator

ASSUME HostActivityAssumption ==
    /\ Threads = Hosts \cup Requests /\ Hosts \cap Requests = {} /\ Nil \notin Threads
    /\ NICs \in [Hosts -> Nat \ {0}]
    /\ Ops \subseteq {"add", "remove", "arps", "change", "read"}
    /\ Restless \subseteq Hosts
    /\ MaxAddresses \in Nat /\ MaxDepth \in Nat \ {0}

VARIABLES
    hosts,      \* simulation.hostSimulators
    pc,         \* where each goroutine is
    left,       \* ARP packets it has yet to send
    held,       \* goroutines that a device holds up
    target      \* the host a request is about

vars == <<mutex, hosts, pc, left, held, target>>

Goto(t, label) == pc' = [pc EXCEPT ![t] = label]

------------------------------------------------------------------------------
\* The goroutine of a host.

\* time.After wins the select, and GetRandomHostSimulator begins.
TimerFires(h) ==
    /\ pc[h] = "select" /\ h \in Restless
    /\ Goto(h, "random")
    /\ RLock(h)
    /\ UNCHANGED <<hosts, left, held, target>>

UnwindsOnce(h) ==
    /\ pc[h] = "random" /\ MayRead(h)
    /\ hosts \ {h} # {}
    /\ RUnlock(h, 1)
    /\ Goto(h, "emit")
    /\ left' = [left EXCEPT ![h] = NICs[h]]
    /\ UNCHANGED <<hosts, held, target>>
PickOther(h) ==
    /\ pc[h] = "random" /\ MayRead(h)
    /\ hosts \ {h} # {}
    /\ RUnlock(h, readers[h])
    /\ Goto(h, "emit")
    /\ left' = [left EXCEPT ![h] = NICs[h]]
    /\ UNCHANGED <<hosts, held, target>>

\* It has picked itself: the function calls itself, holding the read lock.
PickAgain(h) ==
    /\ pc[h] = "random" /\ MayRead(h)
    /\ h \in hosts /\ Cardinality(hosts) > 1
    /\ readers[h] < MaxDepth
    /\ RLock(h)
    /\ UNCHANGED <<hosts, pc, left, held, target>>

PickNone(h) ==
    /\ pc[h] = "random" /\ MayRead(h)
    /\ hosts \subseteq {h}
    /\ RUnlock(h, readers[h])
    /\ Goto(h, "select")
    /\ UNCHANGED <<hosts, left, held, target>>

\* GetDeviceSimulatorForPort, once for each packet.
LookUpDevice(t) ==
    /\ pc[t] = "emit" /\ left[t] > 0
    /\ Goto(t, "lookup")
    /\ RLock(t)
    /\ UNCHANGED <<hosts, left, held, target>>

\* A device holds up whoever sends to it while the queue of a stream is full and
\* its client does not read.
EndLookUp(t) ==
    /\ pc[t] = "lookup" /\ MayRead(t)
    /\ Goto(t, "send")
    /\ RUnlock(t, 1)
    /\ held' = held \/ held' = held \cup {t}
    /\ UNCHANGED <<hosts, left, target>>

SendPacketIn(t) ==
    /\ pc[t] = "send" /\ t \notin held
    /\ Goto(t, "emit")
    /\ left' = [left EXCEPT ![t] = @ - 1]
    /\ UNCHANGED <<mutex, hosts, held, target>>

BackToSelect(h) ==
    /\ pc[h] = "emit" /\ left[h] = 0
    /\ Goto(h, "select")
    /\ UNCHANGED <<mutex, hosts, left, held, target>>

HostStep(h) ==
    \/ PickOther(h) \/ PickAgain(h) \/ PickNone(h)
    \/ LookUpDevice(h) \/ EndLookUp(h) \/ SendPacketIn(h) \/ BackToSelect(h)

------------------------------------------------------------------------------
\* Requests.  "change" stands for any other that changes the inventory, "read"
\* for one that reads it.

Call(c, op, h) ==
    /\ pc[c] = "idle" /\ op \in Ops
    /\ Goto(c, op)
    /\ target' = [target EXCEPT ![c] = h]
    /\ IF op \in {"arps", "read"} THEN RLock(c) ELSE Lock(c)
    /\ UNCHANGED <<hosts, left, held>>

AddHost(c) ==
    /\ pc[c] = "add" /\ MayWrite(c)
    /\ hosts' = hosts \cup {target[c]}
    /\ pc' = [pc EXCEPT ![c] = "idle",
                        ![target[c]] = IF target[c] \in hosts THEN @ ELSE "select"]
    /\ Unlock(c)
    /\ UNCHANGED <<left, held, target>>

KeepsLock(c) ==
    /\ pc[c] = "remove" /\ MayWrite(c)
    /\ target[c] \notin hosts
    /\ Goto(c, "idle")
    /\ UNCHANGED <<mutex, hosts, left, held, target>>
RemoveUnknownHost(c) ==
    /\ pc[c] = "remove" /\ MayWrite(c)
    /\ target[c] \notin hosts
    /\ Goto(c, "idle")
    /\ Unlock(c)
    /\ UNCHANGED <<hosts, left, held, target>>

StopHost(c) ==
    /\ pc[c] = "remove" /\ MayWrite(c)
    /\ target[c] \in hosts
    /\ Goto(c, "stop")
    /\ UNCHANGED <<mutex, hosts, left, held, target>>

\* The send on hs.done returns when the goroutine of the host receives.
DoesNotStop(c) ==
    /\ pc[c] = "stop"
    /\ hosts' = hosts \ {target[c]}
    /\ Goto(c, "idle")
    /\ Unlock(c)
    /\ UNCHANGED <<left, held, target>>
RemoveHost(c) ==
    /\ pc[c] = "stop" /\ pc[target[c]] = "select"
    /\ hosts' = hosts \ {target[c]}
    /\ pc' = [pc EXCEPT ![c] = "idle", ![target[c]] = "ended"]
    /\ Unlock(c)
    /\ UNCHANGED <<left, held, target>>

\* EmitARPs looks devices up with the read lock it has already.
EmitARPs(c) ==
    /\ pc[c] = "arps" /\ MayRead(c)
    /\ target[c] \in hosts
    /\ Goto(c, "emit")
    /\ \E n \in 0..MaxAddresses : left' = [left EXCEPT ![c] = n]
    /\ UNCHANGED <<mutex, hosts, held, target>>

EndOfRead(c) ==
    /\ MayRead(c)
    /\ \/ pc[c] = "read"
       \/ pc[c] = "arps" /\ target[c] \notin hosts
       \/ pc[c] = "emit" /\ left[c] = 0
    /\ Goto(c, "idle")
    /\ RUnlock(c, 1)
    /\ UNCHANGED <<hosts, left, held, target>>

ChangeInventory(c) ==
    /\ pc[c] = "change" /\ MayWrite(c)
    /\ Goto(c, "idle")
    /\ Unlock(c)
    /\ UNCHANGED <<hosts, left, held, target>>

RequestStep(c) ==
    \/ AddHost(c) \/ RemoveUnknownHost(c) \/ StopHost(c) \/ RemoveHost(c)
    \/ EmitARPs(c) \/ LookUpDevice(c) \/ EndLookUp(c) \/ SendPacketIn(c)
    \/ EndOfRead(c) \/ ChangeInventory(c)

------------------------------------------------------------------------------
\* The client reads again, or goes and the device removes its stream.
MakesRoom(t) ==
    /\ t \in held
    /\ held' = held \ {t}
    /\ UNCHANGED <<mutex, hosts, pc, left, target>>

Init ==
    /\ MutexInit
    /\ hosts = {}
    /\ pc = [t \in Threads |-> IF t \in Hosts THEN "ended" ELSE "idle"]
    /\ left = [t \in Threads |-> 0]
    /\ held = {}
    /\ target = [c \in Requests |-> Nil]

Next ==
    \/ \E h \in Hosts : TimerFires(h) \/ HostStep(h)
    \/ \E c \in Requests, op \in Ops, h \in Hosts : Call(c, op, h)
    \/ \E c \in Requests : RequestStep(c)
    \/ \E t \in Threads : MakesRoom(t)

Spec == Init /\ [][Next]_vars

\* Goroutines that can run do run; timers and calls come when they come, and
\* nothing makes a client read.
Fairness ==
    /\ \A h \in Hosts : WF_vars(HostStep(h))
    /\ \A c \in Requests : WF_vars(RequestStep(c))
FairSpec == Spec /\ Fairness

------------------------------------------------------------------------------
\* Properties.

TypeOK ==
    /\ readers \in [Threads -> Nat]
    /\ blocked \subseteq Threads /\ waiting \subseteq Requests /\ writer \in Requests \cup {Nil}
    /\ hosts \subseteq Hosts
    /\ pc \in [Threads -> {"ended", "select", "random", "emit", "lookup", "send",
                           "idle", "stop"} \cup Ops]
    /\ \A h \in Hosts : pc[h] \in {"ended", "select", "random", "emit", "lookup", "send"}
    /\ \A c \in Requests : pc[c] \notin {"ended", "select", "random"}
    /\ left \in [Threads -> Nat] /\ \A t \in Threads : pc[t] \in {"lookup", "send"} => left[t] > 0
    /\ held \subseteq Threads
    /\ target \in [Requests -> Hosts \cup {Nil}]
    /\ \A c \in Requests : pc[c] # "idle" => target[c] \in Hosts

\* The read locks that a goroutine holds or waits for.
ReadLocks(t) == readers[t] + IF t \in blocked THEN 1 ELSE 0

\* No goroutine leaves a read lock behind: outside GetRandomHostSimulator it
\* has as many as its place in the code says (core.go:333, core.go:383).
LocksHeld ==
    /\ \A h \in Hosts :
        /\ pc[h] \in {"ended", "select", "emit", "send"} => ReadLocks(h) = 0
        /\ pc[h] = "lookup" => ReadLocks(h) = 1
    /\ \A c \in Requests :
        /\ pc[c] \in {"idle", "stop", "add", "remove", "change"} => ReadLocks(c) = 0
        /\ pc[c] \in {"arps", "read"} => ReadLocks(c) = 1
        /\ pc[c] \in {"emit", "send"} => ReadLocks(c) = 1 /\ c \notin blocked
        /\ pc[c] = "lookup" => ReadLocks(c) = 2

\* Whoever waits for a goroutine to stop has the lock to itself (core.go:357).
RemovalHoldsLock == \A c \in Requests : pc[c] = "stop" => MayWrite(c)

\* The inductive invariant: what the hangs depend on (core.go:333-392).
IInv == TypeOK /\ LocksHeld /\ RemovalHoldsLock

\* A host that was removed sends nothing more, a host that is there has its
\* goroutine, and the goroutine of a host that is added again is the only one:
\* "removes the simulator and stops all its related activities" (core.go:355).
GoroutinesMatchHosts == \A h \in Hosts : h \in hosts <=> pc[h] # "ended"

\* The program hangs when a removal, which holds the lock, waits for a
\* goroutine that waits for the lock (core.go:360), or when a goroutine waits
\* for a read lock that it has already (core.go:342, core.go:390).
Hung ==
    \/ \E c \in Requests : pc[c] = "stop" /\ target[c] \in blocked
    \/ \E t \in blocked : readers[t] > 0

\* Nothing that anyone does afterwards ends such a hang (core.go:360).
HangIsForever == [][Hung => Hung']_vars

\* A goroutine that a device holds up has the lock, as the request to emit ARPs
\* does (core.go:383), or is to be stopped by a removal (core.go:360).
WaitsForClient ==
    \E t \in held : readers[t] > 0 \/ \E c \in Requests : pc[c] = "stop" /\ target[c] = t

\* Every request is answered, unless the program hangs in one of those ways or
\* waits, as long as it likes, for a client that does not read: there is no
\* fourth possibility (northbound/fabricsim/hosts.go, p4runtime.go:138).
RequestsReturnOrHang ==
    \A c \in Requests : pc[c] # "idle" ~> pc[c] = "idle" \/ Hung \/ WaitsForClient

\* Removing a host ends if clients read (core.go:355).
RemovalReturns ==
    \A c \in Requests : pc[c] = "remove" ~> pc[c] = "idle" \/ WaitsForClient
==============================================================================
