------------------------------ MODULE PacketIO -------------------------------
(***************************************************************************)
(* The streams of a device and what is sent to them (p4runtime.go,         *)
(* simulator/device.go): packet-ins and arbitration messages go to the     *)
(* queues of the registered streams one after the other, with ds.lock      *)
(* read-locked, and a goroutine per stream sends what is queued.  A queue  *)
(* holds QueueSize messages; whoever meets a full one waits, lock in hand. *)
(*                                                                         *)
(* How many messages a queue holds is kept, and not which.  Who wins an    *)
(* arbitration is left to Mastership, what is punted to Pipeline: here any *)
(* stream may be passed over.                                              *)
(***************************************************************************)
EXTENDS RWMutex, Sequences, SequencesExt

CONSTANTS
    Streams,        \* stream handlers
    Emitters,       \* handlers of other devices and hosts whose packets come in
    QueueSize

ASSUME PacketIOAssumption ==
    /\ Threads = Streams \cup Emitters /\ Streams \cap Emitters = {} /\ Nil \notin Threads
    /\ QueueSize \in Nat \ {0}

VARIABLES
    pc,         \* where each goroutine is
    client,     \* "reading", "stalled" or "gone", for each stream
    sender,     \* whether the goroutine that sends what is queued runs
    queued,     \* messages in the queue of each stream
    responders, \* ds.streamResponders
    turn        \* the responder that each broadcasting goroutine has come to

packetVars == <<mutex, pc, client, sender, queued, responders, turn>>

Goto(t, label) == pc' = [pc EXCEPT ![t] = label]

------------------------------------------------------------------------------
\* Life of a stream.  Receiving a message and handling it are one goroutine.

Open(s) ==
    /\ pc[s] = "new"
    /\ Goto(s, "register")
    /\ Lock(s)
    /\ UNCHANGED <<client, sender, queued, responders, turn>>

AddStreamResponder(s) ==
    /\ pc[s] = "register" /\ MayWrite(s)
    /\ responders' = Append(responders, s)
    /\ sender' = [sender EXCEPT ![s] = TRUE]
    /\ Goto(s, "recv")
    /\ Unlock(s)
    /\ UNCHANGED <<client, queued, turn>>

\* RunMastershipArbitration, for a message of the stream: the election takes
\* the exclusive lock.
Arbitrate(s) ==
    /\ pc[s] = "recv" /\ client[s] # "gone"
    /\ Goto(s, "elect")
    /\ Lock(s)
    /\ UNCHANGED <<client, sender, queued, responders, turn>>

Elect(s) ==
    /\ pc[s] = "elect" /\ MayWrite(s)
    /\ Goto(s, "notify")
    /\ Unlock(s)
    /\ UNCHANGED <<client, sender, queued, responders, turn>>

\* Mutant: the handler does not return when receiving fails.
ReadsOn(s) == pc[s] = "recv" /\ client[s] = "gone" /\ UNCHANGED packetVars

\* Receiving fails, and the deferred calls run.
EndOfStream(s) ==
    /\ pc[s] = "recv" /\ client[s] = "gone"
    /\ Goto(s, "deregister")
    /\ Lock(s)
    /\ UNCHANGED <<client, sender, queued, responders, turn>>

\* A packet-out that comes before the pipeline is configured ends the stream too.
RefusePacketOut(s) ==
    /\ pc[s] = "recv" /\ client[s] # "gone"
    /\ Goto(s, "deregister")
    /\ Lock(s)
    /\ UNCHANGED <<client, sender, queued, responders, turn>>

\* Mutant: the list is changed without the lock.
RemovesUnlocked(s) ==
    /\ pc[s] = "deregister"
    /\ responders' = RemoveFirst(responders, s)
    /\ Goto(s, "deregistered")
    /\ UNCHANGED <<mutex, client, sender, queued, turn>>

RemoveStreamResponder(s) ==
    /\ pc[s] = "deregister" /\ MayWrite(s)
    /\ responders' = RemoveFirst(responders, s)
    /\ Goto(s, "deregistered")
    /\ Unlock(s)
    /\ UNCHANGED <<client, sender, queued, turn>>

\* The last claim of the stream is arbitrated again.
ArbitrateAgain(s) ==
    /\ pc[s] = "deregistered"
    /\ Goto(s, "elect")
    /\ Lock(s)
    /\ UNCHANGED <<client, sender, queued, responders, turn>>

------------------------------------------------------------------------------
\* A packet-in begins with HasPuntRuleForEthType, which locks for itself.

Emit(e) ==
    /\ pc[e] = "idle"
    /\ Goto(e, "rule")
    /\ RLock(e)
    /\ UNCHANGED <<client, sender, queued, responders, turn>>

HasPuntRule(e) ==
    /\ pc[e] = "rule" /\ MayRead(e)
    /\ Goto(e, "notify") \/ Goto(e, "idle")
    /\ RUnlock(e, 1)
    /\ UNCHANGED <<client, sender, queued, responders, turn>>

------------------------------------------------------------------------------
\* Sending to all responders, a packet-in or the outcome of an election.

BeginBroadcast(t) ==
    /\ pc[t] = "notify"
    /\ Goto(t, "send")
    /\ turn' = [turn EXCEPT ![t] = 1]
    /\ RLock(t)
    /\ UNCHANGED <<client, sender, queued, responders>>

AtTurn(t) == pc[t] = "send" /\ MayRead(t) /\ turn[t] <= Len(responders)
Turn(t) == responders[turn[t]]

\* The role lets no such packet through, or has nothing new to be told.
Skip(t) ==
    /\ AtTurn(t)
    /\ turn' = [turn EXCEPT ![t] = @ + 1]
    /\ UNCHANGED <<mutex, pc, client, sender, queued, responders>>

Send(t) ==
    /\ AtTurn(t)
    /\ Goto(t, "put")
    /\ UNCHANGED <<mutex, client, sender, queued, responders, turn>>

\* Mutant: a full queue takes one more message.
NeverFull(t) ==
    /\ pc[t] = "put"
    /\ queued' = [queued EXCEPT ![Turn(t)] = @ + 1]
    /\ turn' = [turn EXCEPT ![t] = @ + 1]
    /\ Goto(t, "send")
    /\ UNCHANGED <<mutex, client, sender, responders>>

\* A goroutine waits while the queue is full; those that wait take their turns.
Enqueue(t) ==
    /\ pc[t] = "put"
    /\ queued[Turn(t)] < QueueSize
    /\ queued' = [queued EXCEPT ![Turn(t)] = @ + 1]
    /\ turn' = [turn EXCEPT ![t] = @ + 1]
    /\ Goto(t, "send")
    /\ UNCHANGED <<mutex, client, sender, responders>>

\* Mutant: the read lock is not given back.
KeepsReadLock(t) ==
    /\ pc[t] = "send" /\ MayRead(t) /\ turn[t] > Len(responders)
    /\ Goto(t, IF t \in Emitters THEN "idle"
               ELSE IF t \in ToSet(responders) THEN "recv" ELSE "closed")
    /\ turn' = [turn EXCEPT ![t] = 1]
    /\ UNCHANGED <<mutex, client, sender, queued, responders>>

EndBroadcast(t) ==
    /\ pc[t] = "send" /\ MayRead(t) /\ turn[t] > Len(responders)
    /\ Goto(t, IF t \in Emitters THEN "idle"
               ELSE IF t \in ToSet(responders) THEN "recv" ELSE "closed")
    /\ turn' = [turn EXCEPT ![t] = 1]
    /\ RUnlock(t, 1)
    /\ UNCHANGED <<client, sender, queued, responders>>

------------------------------------------------------------------------------
\* The goroutine that sends what is queued takes a message, finds that the
\* stream is over, and ends, leaving the others in the queue.

IsOver(s) == client[s] = "gone" \/ pc[s] = "closed"

SendQueued(s) ==
    /\ sender[s] /\ queued[s] > 0
    /\ client[s] = "stalled" => IsOver(s)
    /\ queued' = [queued EXCEPT ![s] = @ - 1]
    /\ sender' = [sender EXCEPT ![s] = ~ IsOver(s)]
    /\ UNCHANGED <<mutex, pc, client, responders, turn>>

\* Clients stop reading, go on reading, and go.
ClientTurns(s, state) ==
    /\ pc[s] \notin {"new", "closed"} /\ client[s] \notin {state, "gone"}
    /\ client' = [client EXCEPT ![s] = state]
    /\ UNCHANGED <<mutex, pc, sender, queued, responders, turn>>

------------------------------------------------------------------------------

PacketInit ==
    /\ MutexInit
    /\ pc = [t \in Threads |-> IF t \in Streams THEN "new" ELSE "idle"]
    /\ client = [s \in Streams |-> "reading"]
    /\ sender = [s \in Streams |-> FALSE]
    /\ queued = [s \in Streams |-> 0]
    /\ responders = <<>>
    /\ turn = [t \in Threads |-> 1]

Broadcast(t) == BeginBroadcast(t) \/ Skip(t) \/ Send(t) \/ Enqueue(t) \/ EndBroadcast(t)

\* What the goroutine of a stream, and of an emitter, does by itself.
HandleStream(s) ==
    \/ AddStreamResponder(s) \/ Elect(s)
    \/ EndOfStream(s) \/ RemoveStreamResponder(s) \/ ArbitrateAgain(s)
    \/ Broadcast(s)
HandlePacket(e) == HasPuntRule(e) \/ Broadcast(e)

\* What clients and the network make it do.
Stimulus ==
    \/ \E s \in Streams :
        \/ Arbitrate(s)
        \/ RefusePacketOut(s)
        \/ \E state \in {"reading", "stalled", "gone"} : ClientTurns(s, state)
    \/ \E e \in Emitters : Emit(e)

PacketStep ==
    \/ \E s \in Streams : HandleStream(s) \/ SendQueued(s)
    \/ \E e \in Emitters : HandlePacket(e)

------------------------------------------------------------------------------
\* Properties.

PacketTypeOK ==
    /\ readers \in [Threads -> Nat] /\ blocked \subseteq Threads
    /\ writer \in Threads \cup {Nil} /\ waiting \subseteq Threads
    /\ pc \in [Threads -> {"new", "register", "recv", "elect", "notify", "send", "put",
                           "deregister", "deregistered", "closed", "idle", "rule"}]
    /\ client \in [Streams -> {"reading", "stalled", "gone"}]
    /\ sender \in [Streams -> BOOLEAN]
    /\ queued \in [Streams -> 0..QueueSize]
    /\ responders \in Seq(Streams)
    /\ turn \in [Threads -> Nat \ {0}]

\* Goroutine t waits for room in a full queue, with the lock.
WaitsForRoom(t) == pc[t] = "put" /\ queued[Turn(t)] = QueueSize
==============================================================================
