---------------------------- MODULE DeviceServer -----------------------------
(***************************************************************************)
(* The streams of a device and its servers, composed: streams are opened   *)
(* at a server that serves; stopping it at once ends their connections,    *)
(* stopping it in order waits for their handlers.                          *)
(***************************************************************************)
EXTENDS PacketIO, DeviceAgent

VARIABLE owner  \* the server of each stream, 0 before it is opened

vars == <<packetVars, agentVars, owner>>

\* The streams that server i handles.
Handled(i) == {s \in Streams : owner[s] = i /\ pc[s] # "closed"}

Init == PacketInit /\ AgentInit /\ owner = [s \in Streams |-> 0]

OpenStream(s, i) ==
    /\ servers[i].at = "serving"
    /\ Open(s)
    /\ owner' = [owner EXCEPT ![s] = i]
    /\ UNCHANGED agentVars

Stop(c) ==
    /\ StopServer(c)
    /\ client' = [s \in Streams |->
                    IF s \in Handled(Current) /\ servers'[Current].at = "ended" THEN "gone" ELSE client[s]]
    /\ UNCHANGED <<mutex, pc, sender, queued, responders, turn, owner>>

\* The wait of an orderly stop is over.
Drain(i) ==
    /\ Handled(i) = {}
    /\ Drained(i)
    /\ UNCHANGED <<packetVars, owner>>

Packets == PacketStep /\ UNCHANGED <<agentVars, owner>>
Others == Stimulus /\ UNCHANGED <<agentVars, owner>>
Agent ==
    /\ \/ \E i \in DOMAIN servers : RunServer(i)
       \/ \E c \in Operators : Operate(c)
    /\ UNCHANGED <<packetVars, owner>>
Operations ==
    /\ \E c \in Operators :
        \/ StartTraffic(c)
        \/ \E mode \in {"orderly", "chaotic"} : StopTraffic(c, mode)
    /\ UNCHANGED <<packetVars, owner>>

Next ==
    /\ ~ panicked
    /\ \/ \E s \in Streams : \E i \in DOMAIN servers : OpenStream(s, i)
       \/ \E c \in Operators : Stop(c)
       \/ \E i \in DOMAIN servers : Drain(i)
       \/ Packets
       \/ Others
       \/ Agent
       \/ Operations

Spec == Init /\ [][Next]_vars

\* Goroutines that can run do run, and Go serves those that wait for room in a
\* channel in turn.  Clients and operators owe nothing.
Runs(A) == A /\ UNCHANGED <<agentVars, owner>>
Serves(A) == A /\ UNCHANGED <<packetVars, owner>>
Fairness ==
    /\ \A s \in Streams :
        /\ WF_vars(~ panicked /\ Runs(HandleStream(s)))
        /\ WF_vars(~ panicked /\ Runs(SendQueued(s)))
    /\ \A e \in Emitters : WF_vars(~ panicked /\ Runs(HandlePacket(e)))
    /\ \A t \in Streams \cup Emitters : SF_vars(~ panicked /\ Runs(Enqueue(t)))
    /\ \A i \in 1..MaxStarts :
        /\ WF_vars(~ panicked /\ i \in DOMAIN servers /\ Serves(RunServer(i)))
        /\ WF_vars(~ panicked /\ i \in DOMAIN servers /\ Drain(i))
    /\ \A c \in Operators :
        /\ WF_vars(~ panicked /\ Serves(Operate(c)))
        /\ WF_vars(~ panicked /\ Stop(c))
LiveSpec == Spec /\ Fairness

------------------------------------------------------------------------------
\* Properties.

TypeOK == PacketTypeOK /\ AgentTypeOK /\ owner \in [Streams -> 0..Len(servers)]

\* What TypeOK rests on.  A goroutine that puts a message into a queue has the
\* read lock, and the queue is that of a responder: the list cannot have shrunk
\* since it came to that responder.
SendersHoldTheLock ==
    \A t \in Threads : pc[t] = "put" => MayRead(t) /\ turn[t] \in 1..Len(responders)

\* A stream is in the list once, from its registration to its removal.  Its handler
\* arbitrates once more afterwards, and nobody sends to it then (p4runtime.go:215).
StreamsAreListedOnce ==
    /\ \A i, j \in 1..Len(responders) : responders[i] = responders[j] => i = j
    /\ \A s \in Streams :
        /\ pc[s] \in {"recv", "deregister"} => s \in ToSet(responders)
        /\ pc[s] \in {"new", "register", "deregistered", "closed"} => s \notin ToSet(responders)

IInv == TypeOK /\ SendersHoldTheLock /\ StreamsAreListedOnce

\* While a goroutine sends to all responders, none is added or removed: it
\* neither misses one nor sends to one twice (device.go:397, device.go:655).
ListIsStable ==
    [][(\E t \in Threads : pc[t] \in {"send", "put"} /\ MayRead(t)) => responders' = responders]_vars

\* Someone waits for a client to read, or for room that nobody will make.
Held ==
    \E t \in Threads : WaitsForRoom(t) /\ (~ sender[Turn(t)] \/ client[Turn(t)] = "stalled")

\* Handlers, emitters and requests get through, unless somebody waits for a
\* client with the lock: there is no other way to be blocked (p4runtime.go:138).
GoroutinesReturnUnlessHeld ==
    \A t \in Threads :
        pc[t] \notin {"new", "recv", "idle", "closed"} ~>
            pc[t] \in {"recv", "idle", "closed"} \/ Held \/ panicked

\* Starting a device is answered, whether its server comes to listen or not and
\* whatever another operator starts and stops meanwhile, that server included,
\* unless the process panics (service.go:77, service.go:80).
StartIsAnswered ==
    \A c \in Operators : request[c].op = "start" ~> request[c].op = "idle" \/ panicked

\* An orderly stop returns when the clients have gone, unless a handler is held
\* up (service.go:84).
OrderlyStopReturnsUnlessHeld ==
    \A c \in Operators :
        /\ request[c].op = "drain"
        /\ \A s \in Handled(request[c].server) : client[s] = "gone"
        ~> request[c].op = "idle" \/ Held \/ panicked

\* A start or a stop is asked for when the one before has been answered.
OperatorsTakeTurns ==
    \A c, d \in Operators : c # d => request[c] = Idle \/ request[d] = Idle

\* The device was stopped, no request is in progress, and no start failed.
Stopped ==
    /\ servers # <<>> /\ servers[Current].at = "ended"
    /\ \A c \in Operators : request[c] = Idle
    /\ \A i \in DOMAIN servers : servers[i].at # "failed"

NothingRuns == traffic = {} /\ \A i \in DOMAIN servers : ~ Listening(i)

\* If operators take turns, a device that was stopped serves nobody and simulates no
\* traffic, however often it was started and stopped, unless a start failed
\* (device.go:209).
NothingRunsAfterStop == []OperatorsTakeTurns => [](Stopped => NothingRuns)
==============================================================================
