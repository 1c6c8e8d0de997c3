------------------------- MODULE DeviceServerProofs --------------------------
(***************************************************************************)
(* Theorems about DeviceServer, for any number of streams, emitters,       *)
(* operators and starts, and queues of any size.                           *)
(***************************************************************************)
EXTENDS DeviceServer, ListLemmas

------------------------------------------------------------------------------
\* What the calls of the mutex leave to the others.

MutexTypeOK ==
    /\ readers \in [Threads -> Nat] /\ blocked \subseteq Threads
    /\ writer \in Threads \cup {Nil} /\ waiting \subseteq Threads

\* Whoever asks for a lock does not take a read lock from anybody else.
LEMMA RLockEffect ==
    ASSUME MutexTypeOK, NEW t \in Threads, RLock(t)
    PROVE  MutexTypeOK' /\ \A u \in Threads \ {t} : MayRead(u) => MayRead(u)'
  BY DEF MutexTypeOK, RLock, MayRead

LEMMA LockEffect ==
    ASSUME MutexTypeOK, NEW t \in Threads, Lock(t)
    PROVE  MutexTypeOK' /\ \A u \in Threads : MayRead(u) => MayRead(u)'
  BY DEF MutexTypeOK, Lock, MayRead

\* Whoever gives up a lock it has does not either.
LEMMA RUnlockEffect ==
    ASSUME MutexTypeOK, NEW t \in Threads, MayRead(t), RUnlock(t, 1)
    PROVE  MutexTypeOK' /\ \A u \in Threads \ {t} : MayRead(u) => MayRead(u)'
  BY DEF MutexTypeOK, RUnlock, MayRead

LEMMA UnlockEffect ==
    ASSUME MutexTypeOK, NEW t \in Threads, Unlock(t)
    PROVE  MutexTypeOK' /\ \A u \in Threads : MayRead(u) => MayRead(u)'
  <1>1. readers' \in [Threads -> Nat] /\ blocked' = {} /\ \A u \in Threads : readers'[u] >= readers[u]
    BY DEF MutexTypeOK, Unlock
  <1>2. writer' \in Threads \cup {Nil} /\ waiting' \subseteq Threads
    BY DEF MutexTypeOK, Unlock
  <1>3. ASSUME NEW u \in Threads, MayRead(u)
        PROVE  MayRead(u)'
    BY <1>1, <1>3 DEF MutexTypeOK, MayRead
  <1> QED
    BY <1>1, <1>2, <1>3 DEF MutexTypeOK

\* Nobody reads while somebody writes.
LEMMA WritersExcludeReaders ==
    ASSUME NEW s \in Threads, MayWrite(s)
    PROVE  \A t \in Threads : ~ MayRead(t)
  BY DEF MayWrite, MayRead

------------------------------------------------------------------------------
\* The inductive invariant: streams and packets.

Labels == {"new", "register", "recv", "elect", "notify", "send", "put",
           "deregister", "deregistered", "closed", "idle", "rule"}
Listed == {"recv", "deregister"}
Unlisted == {"new", "register", "deregistered", "closed"}

PacketInv == PacketTypeOK /\ SendersHoldTheLock /\ StreamsAreListedOnce

\* One goroutine moves to another label.
LEMMA GotoEffect ==
    ASSUME PacketInv, NEW t \in Threads, NEW label \in Labels, Goto(t, label)
    PROVE  pc' \in [Threads -> Labels] /\ pc'[t] = label /\ \A u \in Threads \ {t} : pc'[u] = pc[u]
  BY DEF PacketInv, PacketTypeOK, Goto, Labels

\* The invariant is preserved by every step that moves one goroutine t and leaves
\* the list, the turns of the others and their read locks as they are, if t has
\* what its new label asks for.
LEMMA OneMoves ==
    ASSUME PacketInv, NEW t \in Threads, NEW label \in Labels, Goto(t, label),
           MutexTypeOK',
           responders' = responders,
           client' \in [Streams -> {"reading", "stalled", "gone"}],
           sender' \in [Streams -> BOOLEAN],
           queued' \in [Streams -> 0..QueueSize],
           turn' \in [Threads -> Nat \ {0}],
           \A u \in Threads \ {t} : turn'[u] = turn[u] /\ (MayRead(u) => MayRead(u)'),
           label = "put" => MayRead(t)' /\ turn'[t] \in 1..Len(responders),
           t \in Streams =>
               /\ label \in Listed => t \in ToSet(responders)
               /\ label \in Unlisted => t \notin ToSet(responders)
    PROVE  PacketInv'
  <1>1. pc' \in [Threads -> Labels] /\ pc'[t] = label /\ \A u \in Threads \ {t} : pc'[u] = pc[u]
    BY GotoEffect
  <1>2. PacketTypeOK'
    BY <1>1 DEF PacketInv, PacketTypeOK, MutexTypeOK, Labels
  <1>3. SendersHoldTheLock'
    <2>1. ASSUME NEW u \in Threads, pc'[u] = "put"
          PROVE  MayRead(u)' /\ turn'[u] \in 1..Len(responders')
      <3>1. CASE u = t
        BY <1>1, <2>1, <3>1
      <3>2. CASE u # t
        BY <1>1, <2>1, <3>2 DEF PacketInv, SendersHoldTheLock
      <3> QED
        BY <3>1, <3>2
    <2> QED
      BY <2>1 DEF SendersHoldTheLock
  <1>4. StreamsAreListedOnce'
    <2>1. ToSet(responders)' = ToSet(responders)
      BY DEF ToSet
    <2>2. ASSUME NEW u \in Streams
          PROVE  /\ pc'[u] \in Listed => u \in ToSet(responders)'
                 /\ pc'[u] \in Unlisted => u \notin ToSet(responders)'
      <3>1. CASE u = t
        BY <1>1, <2>1, <3>1
      <3>2. CASE u # t
        BY <1>1, <2>1, <3>2, PacketIOAssumption DEF PacketInv, StreamsAreListedOnce, Listed, Unlisted
      <3> QED
        BY <3>1, <3>2
    <2>3. \A i, j \in 1..Len(responders') : responders'[i] = responders'[j] => i = j
      BY DEF PacketInv, StreamsAreListedOnce
    <2> QED
      BY <2>2, <2>3 DEF StreamsAreListedOnce, Listed, Unlisted
  <1> QED
    BY <1>2, <1>3, <1>4 DEF PacketInv

\* Calls of Lock: a stream opens, is handled, and ends.
LEMMA LockStep ==
    ASSUME PacketInv, NEW s \in Streams,
           Open(s) \/ Arbitrate(s) \/ RefusePacketOut(s) \/ EndOfStream(s) \/ ArbitrateAgain(s)
    PROVE  PacketInv'
  <1>1. PICK label \in {"register", "elect", "deregister"} :
            /\ Goto(s, label) /\ Lock(s)
            /\ label = "register" => pc[s] = "new"
            /\ label = "deregister" => pc[s] = "recv"
    BY DEF Open, Arbitrate, RefusePacketOut, EndOfStream, ArbitrateAgain
  <1>2. UNCHANGED <<client, sender, queued, responders, turn>>
    BY DEF Open, Arbitrate, RefusePacketOut, EndOfStream, ArbitrateAgain
  <1>3. s \in Threads
    BY PacketIOAssumption
  <1>4. MutexTypeOK' /\ \A u \in Threads : MayRead(u) => MayRead(u)'
    BY <1>1, <1>3, LockEffect DEF PacketInv, PacketTypeOK, MutexTypeOK
  <1>5. /\ label \in Listed => s \in ToSet(responders)
        /\ label \in Unlisted => s \notin ToSet(responders)
    BY <1>1 DEF PacketInv, StreamsAreListedOnce, Listed, Unlisted
  <1> QED
    BY <1>1, <1>2, <1>3, <1>4, <1>5, OneMoves DEF PacketInv, PacketTypeOK, Labels

\* The election, in the critical section.
LEMMA ElectStep ==
    ASSUME PacketInv, NEW s \in Streams, Elect(s)
    PROVE  PacketInv'
  <1>1. s \in Threads /\ Goto(s, "notify") /\ Unlock(s) /\ UNCHANGED <<client, sender, queued, responders, turn>>
    BY PacketIOAssumption DEF Elect
  <1>2. MutexTypeOK' /\ \A u \in Threads : MayRead(u) => MayRead(u)'
    BY <1>1, UnlockEffect DEF PacketInv, PacketTypeOK, MutexTypeOK
  <1> QED
    BY <1>1, <1>2, OneMoves DEF PacketInv, PacketTypeOK, Labels, Listed, Unlisted

\* Whoever changes the list finds nobody sending.
LEMMA NobodySends ==
    ASSUME PacketInv, NEW s \in Streams, AddStreamResponder(s) \/ RemoveStreamResponder(s)
    PROVE  \A t \in Threads : pc[t] # "put" /\ ~ MayRead(t)
  <1>1. MayWrite(s) /\ s \in Threads
    BY PacketIOAssumption DEF AddStreamResponder, RemoveStreamResponder
  <1> QED
    BY <1>1, WritersExcludeReaders DEF PacketInv, SendersHoldTheLock

LEMMA AddStep ==
    ASSUME PacketInv, NEW s \in Streams, AddStreamResponder(s)
    PROVE  PacketInv'
  <1>1. /\ s \in Threads /\ pc[s] = "register" /\ Goto(s, "recv") /\ Unlock(s)
        /\ responders' = Append(responders, s) /\ sender' = [sender EXCEPT ![s] = TRUE]
        /\ UNCHANGED <<client, queued, turn>>
    BY PacketIOAssumption DEF AddStreamResponder
  <1>2. pc' \in [Threads -> Labels] /\ pc'[s] = "recv" /\ \A u \in Threads \ {s} : pc'[u] = pc[u]
    BY <1>1, GotoEffect DEF Labels
  <1>3. MutexTypeOK'
    BY <1>1, UnlockEffect DEF PacketInv, PacketTypeOK, MutexTypeOK
  <1>4. /\ responders \in Seq(Streams) /\ responders' \in Seq(Streams)
        /\ Len(responders) \in Nat /\ Len(responders') = Len(responders) + 1
        /\ responders'[Len(responders) + 1] = s
        /\ \A i \in 1..Len(responders) : responders'[i] = responders[i]
    BY <1>1 DEF PacketInv, PacketTypeOK
  <1>5. PacketTypeOK'
    BY <1>1, <1>2, <1>3, <1>4 DEF PacketInv, PacketTypeOK, MutexTypeOK, Labels
  <1>6. SendersHoldTheLock'
    BY <1>2, NobodySends DEF SendersHoldTheLock
  <1>7. /\ ToSet(responders) = {responders[i] : i \in 1..Len(responders)}
        /\ ToSet(responders)' = {responders'[i] : i \in 1..Len(responders')}
    BY <1>4 DEF ToSet
  <1>8. s \notin ToSet(responders)
    BY <1>1 DEF PacketInv, StreamsAreListedOnce
  <1>9. ToSet(responders)' = ToSet(responders) \cup {s}
    BY <1>4, <1>7
  <1>10. \A i, j \in 1..Len(responders') : responders'[i] = responders'[j] => i = j
    <2>1. ASSUME NEW i \in 1..Len(responders'), NEW j \in 1..Len(responders'), responders'[i] = responders'[j]
          PROVE  i = j
      <3>1. CASE i \in 1..Len(responders) /\ j \in 1..Len(responders)
        BY <1>4, <2>1, <3>1 DEF PacketInv, StreamsAreListedOnce
      <3>2. CASE i \in 1..Len(responders) /\ j = Len(responders) + 1
        BY <1>4, <1>7, <1>8, <2>1, <3>2
      <3>3. CASE i = Len(responders) + 1 /\ j \in 1..Len(responders)
        BY <1>4, <1>7, <1>8, <2>1, <3>3
      <3> QED
        BY <1>4, <3>1, <3>2, <3>3
    <2> QED
      BY <2>1
  <1>11. StreamsAreListedOnce'
    <2>1. ASSUME NEW u \in Streams
          PROVE  /\ pc'[u] \in Listed => u \in ToSet(responders)'
                 /\ pc'[u] \in Unlisted => u \notin ToSet(responders)'
      <3>1. CASE u = s
        BY <1>2, <1>9, <3>1 DEF Unlisted
      <3>2. CASE u # s
        BY <1>2, <1>9, <3>2, PacketIOAssumption DEF PacketInv, StreamsAreListedOnce, Listed, Unlisted
      <3> QED
        BY <3>1, <3>2
    <2> QED
      BY <1>10, <2>1 DEF StreamsAreListedOnce, Listed, Unlisted
  <1> QED
    BY <1>5, <1>6, <1>11 DEF PacketInv

LEMMA RemoveStep ==
    ASSUME PacketInv, NEW s \in Streams, RemoveStreamResponder(s)
    PROVE  PacketInv'
  <1>1. /\ s \in Threads /\ pc[s] = "deregister" /\ Goto(s, "deregistered") /\ Unlock(s)
        /\ responders' = RemoveFirst(responders, s)
        /\ UNCHANGED <<client, sender, queued, turn>>
    BY PacketIOAssumption DEF RemoveStreamResponder
  <1>2. pc' \in [Threads -> Labels] /\ pc'[s] = "deregistered" /\ \A u \in Threads \ {s} : pc'[u] = pc[u]
    BY <1>1, GotoEffect DEF Labels
  <1>3. MutexTypeOK'
    BY <1>1, UnlockEffect DEF PacketInv, PacketTypeOK, MutexTypeOK
  <1>4. responders \in Seq(Streams) /\ \A i, j \in 1..Len(responders) : responders[i] = responders[j] => i = j
    BY DEF PacketInv, PacketTypeOK, StreamsAreListedOnce
  <1>5. /\ responders' \in Seq(Streams)
        /\ \A i, j \in 1..Len(responders') : responders'[i] = responders'[j] => i = j
        /\ ToSet(responders)' = ToSet(responders) \ {s}
    BY <1>1, <1>4, RemoveFirstType, RemoveFirstOfOnce
  <1>6. PacketTypeOK'
    BY <1>1, <1>2, <1>3, <1>5 DEF PacketInv, PacketTypeOK, MutexTypeOK, Labels
  <1>7. SendersHoldTheLock'
    BY <1>2, NobodySends DEF SendersHoldTheLock
  <1>8. StreamsAreListedOnce'
    <2>1. ASSUME NEW u \in Streams
          PROVE  /\ pc'[u] \in Listed => u \in ToSet(responders)'
                 /\ pc'[u] \in Unlisted => u \notin ToSet(responders)'
      <3>1. CASE u = s
        BY <1>2, <1>5, <3>1 DEF Listed
      <3>2. CASE u # s
        BY <1>2, <1>5, <3>2, PacketIOAssumption DEF PacketInv, StreamsAreListedOnce, Listed, Unlisted
      <3> QED
        BY <3>1, <3>2
    <2> QED
      BY <1>5, <2>1 DEF StreamsAreListedOnce, Listed, Unlisted
  <1> QED
    BY <1>6, <1>7, <1>8 DEF PacketInv

------------------------------------------------------------------------------
\* Sending to all responders.

LEMMA RLockStep ==
    ASSUME PacketInv, NEW t \in Threads, BeginBroadcast(t) \/ Emit(t)
    PROVE  PacketInv'
  <1>1. PICK label \in {"send", "rule"} : Goto(t, label) /\ RLock(t)
    BY DEF BeginBroadcast, Emit
  <1>2. /\ UNCHANGED <<client, sender, queued, responders>>
        /\ turn' \in [Threads -> Nat \ {0}] /\ \A u \in Threads \ {t} : turn'[u] = turn[u]
    <2>1. CASE BeginBroadcast(t)
      BY <2>1 DEF PacketInv, PacketTypeOK, BeginBroadcast
    <2>2. CASE Emit(t)
      BY <2>2 DEF PacketInv, PacketTypeOK, Emit
    <2> QED
      BY <2>1, <2>2
  <1>3. MutexTypeOK' /\ \A u \in Threads \ {t} : MayRead(u) => MayRead(u)'
    BY <1>1, RLockEffect DEF PacketInv, PacketTypeOK, MutexTypeOK
  <1> QED
    BY <1>1, <1>2, <1>3, OneMoves DEF PacketInv, PacketTypeOK, Labels, Listed, Unlisted

\* The end of a broadcast, and of the look at the punt rules: RUnlock.
LEMMA RUnlockStep ==
    ASSUME PacketInv, NEW t \in Threads,
           EndBroadcast(t) \/ (t \in Emitters /\ HasPuntRule(t))
    PROVE  PacketInv'
  <1>1. MayRead(t) /\ RUnlock(t, 1)
    BY DEF EndBroadcast, HasPuntRule
  <1>2. PICK label \in {"notify", "idle", "recv", "closed"} :
            /\ Goto(t, label)
            /\ label = "recv" => t \in ToSet(responders)
            /\ label = "closed" => t \notin ToSet(responders)
    BY DEF EndBroadcast, HasPuntRule
  <1>3. /\ UNCHANGED <<client, sender, queued, responders>>
        /\ turn' \in [Threads -> Nat \ {0}] /\ \A u \in Threads \ {t} : turn'[u] = turn[u]
    <2>1. CASE EndBroadcast(t)
      BY <2>1 DEF PacketInv, PacketTypeOK, EndBroadcast
    <2>2. CASE HasPuntRule(t)
      BY <2>2 DEF PacketInv, PacketTypeOK, HasPuntRule
    <2> QED
      BY <2>1, <2>2
  <1>4. MutexTypeOK' /\ \A u \in Threads \ {t} : MayRead(u) => MayRead(u)'
    BY <1>1, RUnlockEffect DEF PacketInv, PacketTypeOK, MutexTypeOK
  <1> QED
    BY <1>2, <1>3, <1>4, OneMoves DEF PacketInv, PacketTypeOK, Labels, Listed, Unlisted

\* The steps of a broadcast, which leave the lock alone.
LEMMA SendStep ==
    ASSUME PacketInv, NEW t \in Threads, Skip(t) \/ Send(t) \/ Enqueue(t)
    PROVE  PacketInv'
  <1>1. UNCHANGED <<mutex, client, sender, responders>>
    BY DEF Skip, Send, Enqueue
  <1>2. MutexTypeOK' /\ \A u \in Threads : MayRead(u) => MayRead(u)'
    BY <1>1 DEF PacketInv, PacketTypeOK, MutexTypeOK, MayRead, mutex
  <1>3. turn' \in [Threads -> Nat \ {0}] /\ \A u \in Threads \ {t} : turn'[u] = turn[u]
    BY DEF PacketInv, PacketTypeOK, Skip, Send, Enqueue
  <1>4. CASE Skip(t)
    <2>1. Goto(t, "send") /\ queued' = queued
      BY <1>4 DEF Skip, AtTurn, Goto, PacketInv, PacketTypeOK
    <2> QED
      BY <1>1, <1>2, <1>3, <2>1, OneMoves DEF PacketInv, PacketTypeOK, Labels, Listed, Unlisted
  <1>5. CASE Send(t)
    <2>1. Goto(t, "put") /\ queued' = queued /\ turn' = turn
      BY <1>5 DEF Send
    <2>2. MayRead(t) /\ turn[t] \in 1..Len(responders)
      <3>1. turn[t] \in Nat \ {0} /\ Len(responders) \in Nat
        BY DEF PacketInv, PacketTypeOK
      <3> QED
        BY <1>5, <3>1 DEF Send, AtTurn
    <2> QED
      BY <1>1, <1>2, <1>3, <2>1, <2>2, OneMoves DEF PacketInv, PacketTypeOK, Labels, Listed, Unlisted
  <1>6. CASE Enqueue(t)
    <2>1. Goto(t, "send") /\ pc[t] = "put" /\ queued' = [queued EXCEPT ![Turn(t)] = @ + 1] /\ queued[Turn(t)] < QueueSize
      BY <1>6 DEF Enqueue
    <2>2. Turn(t) \in Streams
      BY <2>1, ElementOfSeq DEF PacketInv, PacketTypeOK, SendersHoldTheLock, Turn
    <2>3. queued' \in [Streams -> 0..QueueSize]
      BY <2>1, <2>2, PacketIOAssumption DEF PacketInv, PacketTypeOK
    <2> QED
      BY <1>1, <1>2, <1>3, <2>1, <2>3, OneMoves DEF PacketInv, PacketTypeOK, Labels, Listed, Unlisted
  <1> QED
    BY <1>4, <1>5, <1>6

\* Clients, and the goroutines that send what is queued, leave the lock, the list
\* and the handlers alone.
LEMMA ClientStep ==
    ASSUME PacketInv, UNCHANGED <<mutex, pc, responders, turn>>,
           client' \in [Streams -> {"reading", "stalled", "gone"}],
           sender' \in [Streams -> BOOLEAN],
           queued' \in [Streams -> 0..QueueSize]
    PROVE  PacketInv'
  <1>1. pc' = pc /\ responders' = responders /\ turn' = turn /\ mutex' = mutex
    OBVIOUS
  <1>2. PacketTypeOK'
    BY <1>1 DEF PacketInv, PacketTypeOK, MutexTypeOK, mutex
  <1>3. SendersHoldTheLock'
    BY <1>1 DEF PacketInv, SendersHoldTheLock, MayRead, mutex
  <1>4. StreamsAreListedOnce'
    BY <1>1 DEF PacketInv, StreamsAreListedOnce, ToSet
  <1> QED
    BY <1>2, <1>3, <1>4 DEF PacketInv

LEMMA PacketsKeepInv ==
    ASSUME PacketInv, PacketStep \/ Stimulus
    PROVE  PacketInv'
  <1>1. Streams \subseteq Threads /\ Emitters \subseteq Threads
    BY PacketIOAssumption
  <1>2. ASSUME NEW s \in Streams, HandleStream(s)
        PROVE  PacketInv'
    BY <1>1, <1>2, AddStep, ElectStep, LockStep, RemoveStep, RLockStep, RUnlockStep, SendStep
    DEF HandleStream, Broadcast
  <1>3. ASSUME NEW e \in Emitters, HandlePacket(e)
        PROVE  PacketInv'
    BY <1>1, <1>3, RLockStep, RUnlockStep, SendStep DEF HandlePacket, Broadcast
  <1>4. ASSUME NEW s \in Streams, SendQueued(s)
        PROVE  PacketInv'
    <2>1. queued' \in [Streams -> 0..QueueSize] /\ sender' \in [Streams -> BOOLEAN]
      BY <1>4, PacketIOAssumption DEF SendQueued, PacketInv, PacketTypeOK
    <2> QED
      BY <1>4, <2>1, ClientStep DEF SendQueued, PacketInv, PacketTypeOK
  <1>5. ASSUME NEW s \in Streams, NEW state \in {"reading", "stalled", "gone"}, ClientTurns(s, state)
        PROVE  PacketInv'
    <2>1. client' \in [Streams -> {"reading", "stalled", "gone"}]
      BY <1>5 DEF ClientTurns, PacketInv, PacketTypeOK
    <2> QED
      BY <1>5, <2>1, ClientStep DEF ClientTurns, PacketInv, PacketTypeOK
  <1> QED
    BY <1>1, <1>2, <1>3, <1>4, <1>5, LockStep, RLockStep DEF PacketStep, Stimulus

------------------------------------------------------------------------------
\* The inductive invariant: servers and requests.

\* More servers, and the same ones in another state, leave requests as they are.
LEMMA RequestsGrow ==
    ASSUME NEW m \in Nat, NEW n \in Nat, m <= n
    PROVE  Requests(m) \subseteq Requests(n)
  BY DEF Requests

\* A server moves on.
LEMMA MoveEffect ==
    ASSUME AgentTypeOK, NEW i \in DOMAIN servers,
           NEW place \in {"new", "failed", "created", "started", "serving", "draining", "ended"},
           Move(i, place)
    PROVE  servers' \in Seq(Servers) /\ Len(servers') = Len(servers)
  <1>1. i \in 1..Len(servers) /\ servers \in Seq(Servers)
    BY DEF AgentTypeOK
  <1>2. servers[i] \in Servers
    BY <1>1
  <1>3. [servers[i] EXCEPT !.at = place] \in Servers
    BY <1>2 DEF Servers
  <1>4. servers' = [servers EXCEPT ![i] = [servers[i] EXCEPT !.at = place]]
    BY DEF Move
  <1> QED
    BY <1>1, <1>3, <1>4, ExceptSeq

\* The goroutine of a server, and the end of an orderly stop.
LEMMA ServerStep ==
    ASSUME AgentTypeOK, NEW i \in DOMAIN servers, RunServer(i) \/ Drained(i)
    PROVE  AgentTypeOK' /\ Len(servers') = Len(servers)
  <1>1. UNCHANGED <<traffic, cancel, starts, request>> /\ panicked' \in BOOLEAN
    BY DEF RunServer, Listen, CloseDone, Serve, ServePanics, Drained, AgentTypeOK
  <1>2. servers' \in Seq(Servers) /\ Len(servers') = Len(servers)
    BY MoveEffect DEF RunServer, Listen, CloseDone, Serve, ServePanics, Drained, AgentTypeOK
  <1> QED
    BY <1>1, <1>2 DEF AgentTypeOK

\* Traffic starts and stops.
LEMMA TrafficStep ==
    ASSUME AgentTypeOK, NEW c \in Operators,
           StartTraffic(c) \/ \E mode \in {"orderly", "chaotic"} : StopTraffic(c, mode)
    PROVE  AgentTypeOK' /\ servers' = servers
  <1>1. servers' = servers /\ panicked' = panicked
    BY DEF StartTraffic, StopTraffic
  <1>2. request' \in [Operators -> Requests(Len(servers))]
    BY DEF AgentTypeOK, StartTraffic, StopTraffic, Requests
  <1>3. starts' \in 0..MaxStarts /\ cancel' \in 0..starts' /\ traffic' \subseteq 1..starts'
    <2>1. starts \in 0..MaxStarts /\ starts \in Nat /\ cancel \in 0..starts /\ traffic \subseteq 1..starts
      BY DeviceAgentAssumption DEF AgentTypeOK
    <2>2. CASE StartTraffic(c)
      <3>1. starts' = starts + 1 /\ starts < MaxStarts /\ cancel' = starts' /\ traffic' = traffic \cup {starts'}
        BY <2>2 DEF StartTraffic
      <3>2. starts' \in 0..MaxStarts /\ cancel' \in 0..starts' /\ 1..starts \subseteq 1..starts' /\ starts' \in 1..starts'
        BY <2>1, <3>1, DeviceAgentAssumption
      <3> QED
        BY <2>1, <3>1, <3>2
    <2>3. CASE \E mode \in {"orderly", "chaotic"} : StopTraffic(c, mode)
      BY <2>1, <2>3 DEF StopTraffic
    <2> QED
      BY <2>2, <2>3
  <1> QED
    BY <1>1, <1>2, <1>3 DEF AgentTypeOK

\* A start makes a server.
LEMMA StartStep ==
    ASSUME AgentTypeOK, NEW c \in Operators, StartAgent(c)
    PROVE  AgentTypeOK' /\ Len(servers') = Len(servers) + 1
  <1>1. [at |-> "new", stopped |-> FALSE] \in Servers
    BY DEF Servers
  <1>2. servers' \in Seq(Servers) /\ Len(servers) \in Nat /\ Len(servers') = Len(servers) + 1
    BY <1>1 DEF AgentTypeOK, StartAgent
  <1>3. request' \in [Operators -> Requests(Len(servers'))]
    <2>1. Requests(Len(servers)) \subseteq Requests(Len(servers'))
      BY <1>2, RequestsGrow
    <2>2. [op |-> "wait", server |-> Len(servers) + 1] \in Requests(Len(servers'))
      BY <1>2 DEF Requests
    <2> QED
      BY <2>1, <2>2 DEF AgentTypeOK, StartAgent
  <1> QED
    BY <1>2, <1>3 DEF AgentTypeOK, StartAgent

\* A request stops the last server, fails to, or is answered.
LEMMA StopStep ==
    ASSUME AgentTypeOK, NEW c \in Operators, StopServer(c)
    PROVE  AgentTypeOK' /\ Len(servers') = Len(servers)
  <1>1. servers \in Seq(Servers) /\ Len(servers) \in Nat /\ Current \in 1..Len(servers)
    <2>1. servers # <<>>
      BY DEF StopServer, HasServer
    <2> QED
      BY <2>1, EmptySeq DEF AgentTypeOK, Current
  <1>2. servers[Current] \in Servers
    BY <1>1
  <1>3. PICK place : /\ place \in {servers[Current].at, "draining", "ended"}
                     /\ servers' = [servers EXCEPT ![Current] = [at |-> place, stopped |-> TRUE]]
    BY DEF StopServer
  <1>4. [at |-> place, stopped |-> TRUE] \in Servers
    BY <1>2, <1>3 DEF Servers
  <1>5. servers' \in Seq(Servers) /\ Len(servers') = Len(servers)
    BY <1>1, <1>3, <1>4, ExceptSeq
  <1>6. request' \in [Operators -> Requests(Len(servers))]
    <2>1. [op |-> "drain", server |-> Current] \in Requests(Len(servers)) /\ Idle \in Requests(Len(servers))
      BY <1>1 DEF Requests, Idle
    <2> QED
      BY <2>1 DEF StopServer, AgentTypeOK
  <1> QED
    BY <1>5, <1>6 DEF StopServer, AgentTypeOK

LEMMA OperateStep ==
    ASSUME AgentTypeOK, NEW c \in Operators, Operate(c)
    PROVE  AgentTypeOK' /\ Len(servers') \in {Len(servers), Len(servers) + 1}
  <1>1. CASE StartAgent(c)
    BY <1>1, StartStep
  <1>2. CASE StartReturns(c) \/ OrderlyStopReturns(c)
    <2>1. Idle \in Requests(Len(servers))
      BY DEF Requests, Idle
    <2> QED
      BY <1>2, <2>1 DEF StartReturns, OrderlyStopReturns, AgentTypeOK
  <1>3. CASE StopPanics(c)
    BY <1>3 DEF StopPanics, AgentTypeOK
  <1> QED
    BY <1>1, <1>2, <1>3 DEF Operate

\* Every stream keeps its server, or gets one.
LEMMA OwnersStay ==
    ASSUME TypeOK, AgentTypeOK', Len(servers') \in {Len(servers), Len(servers) + 1}, owner' = owner
    PROVE  owner' \in [Streams -> 0..Len(servers')]
  <1>1. Len(servers) \in Nat
    BY DEF TypeOK, AgentTypeOK
  <1> QED
    BY <1>1 DEF TypeOK

------------------------------------------------------------------------------
\* The theorems.

LEMMA InitInv ==
    ASSUME Init
    PROVE  IInv
  <1>1. PacketTypeOK
    BY PacketIOAssumption DEF Init, PacketInit, MutexInit, PacketTypeOK
  <1>2. SendersHoldTheLock /\ StreamsAreListedOnce
    BY PacketIOAssumption DEF Init, PacketInit, SendersHoldTheLock, StreamsAreListedOnce, ToSet
  <1>3. AgentTypeOK
    <2>1. servers \in Seq(Servers) /\ Len(servers) = 0
      BY EmptySeq DEF Init, AgentInit
    <2>2. request \in [Operators -> Requests(Len(servers))]
      BY DEF Init, AgentInit, Idle, Requests
    <2>3. starts \in 0..MaxStarts /\ traffic \subseteq 1..starts /\ cancel \in 0..starts
      BY DeviceAgentAssumption DEF Init, AgentInit
    <2>4. panicked \in BOOLEAN
      BY DEF Init, AgentInit
    <2> QED
      BY <2>1, <2>2, <2>3, <2>4 DEF AgentTypeOK
  <1>4. owner \in [Streams -> 0..Len(servers)]
    BY DEF Init, AgentInit
  <1> QED
    BY <1>1, <1>2, <1>3, <1>4 DEF IInv, TypeOK

LEMMA NextInv ==
    ASSUME IInv, Next
    PROVE  IInv'
  <1>1. PacketInv /\ TypeOK /\ AgentTypeOK /\ DOMAIN servers = 1..Len(servers)
    BY DEF IInv, PacketInv, TypeOK, AgentTypeOK
  <1>2. SUFFICES PacketInv' /\ AgentTypeOK' /\ owner' \in [Streams -> 0..Len(servers')]
    BY DEF IInv, PacketInv, TypeOK
  <1>3. ASSUME NEW s \in Streams, NEW i \in DOMAIN servers, OpenStream(s, i)
        PROVE  PacketInv' /\ AgentTypeOK' /\ owner' \in [Streams -> 0..Len(servers')]
    <2>1. PacketInv'
      BY <1>1, <1>3, LockStep DEF OpenStream
    <2>2. AgentTypeOK' /\ owner' \in [Streams -> 0..Len(servers')]
      BY <1>1, <1>3 DEF OpenStream, agentVars, AgentTypeOK, TypeOK
    <2> QED
      BY <2>1, <2>2
  <1>4. ASSUME NEW c \in Operators, Stop(c)
        PROVE  PacketInv' /\ AgentTypeOK' /\ owner' \in [Streams -> 0..Len(servers')]
    <2>1. AgentTypeOK' /\ Len(servers') = Len(servers) /\ owner' = owner
      BY <1>1, <1>4, StopStep DEF Stop
    <2>2. client' \in [Streams -> {"reading", "stalled", "gone"}]
      BY <1>1, <1>4 DEF Stop, PacketInv, PacketTypeOK
    <2>3. PacketInv'
      BY <1>1, <1>4, <2>2, ClientStep DEF Stop, PacketInv, PacketTypeOK
    <2> QED
      BY <1>1, <2>1, <2>3, OwnersStay
  <1>5. ASSUME NEW i \in DOMAIN servers, Drain(i)
        PROVE  PacketInv' /\ AgentTypeOK' /\ owner' \in [Streams -> 0..Len(servers')]
    <2>1. AgentTypeOK' /\ Len(servers') = Len(servers) /\ owner' = owner
      BY <1>1, <1>5, ServerStep DEF Drain
    <2>2. UNCHANGED packetVars
      BY <1>5 DEF Drain
    <2>3. PacketInv'
      BY <1>1, <2>2, ClientStep DEF packetVars, PacketInv, PacketTypeOK
    <2> QED
      BY <1>1, <2>1, <2>3, OwnersStay
  <1>6. ASSUME Packets \/ Others
        PROVE  PacketInv' /\ AgentTypeOK' /\ owner' \in [Streams -> 0..Len(servers')]
    <2>1. PacketInv'
      BY <1>1, <1>6, PacketsKeepInv DEF Packets, Others
    <2>2. AgentTypeOK' /\ owner' \in [Streams -> 0..Len(servers')]
      BY <1>1, <1>6 DEF Packets, Others, agentVars, AgentTypeOK, TypeOK
    <2> QED
      BY <2>1, <2>2
  <1>7. ASSUME Agent \/ Operations
        PROVE  PacketInv' /\ AgentTypeOK' /\ owner' \in [Streams -> 0..Len(servers')]
    <2>1. AgentTypeOK' /\ Len(servers') \in {Len(servers), Len(servers) + 1}
      BY <1>1, <1>7, ServerStep, OperateStep, TrafficStep DEF Agent, Operations
    <2>2. UNCHANGED <<packetVars, owner>>
      BY <1>7 DEF Agent, Operations
    <2>3. PacketInv'
      BY <1>1, <2>2, ClientStep DEF packetVars, PacketInv, PacketTypeOK
    <2> QED
      BY <1>1, <2>1, <2>2, <2>3, OwnersStay
  <1> QED
    BY <1>3, <1>4, <1>5, <1>6, <1>7 DEF Next

\* The invariant holds: whoever puts a message into a queue has the read lock and
\* a responder to send to, and the list holds every registered stream once.
THEOREM InvariantHolds == Spec => []IInv
  <1>1. Init => IInv
    BY InitInv
  <1>2. IInv /\ [Next]_vars => IInv'
    <2>1. CASE Next
      BY <2>1, NextInv
    <2>2. CASE UNCHANGED vars
      BY <2>2 DEF vars, packetVars, agentVars, mutex, IInv, TypeOK, PacketTypeOK, AgentTypeOK,
                  SendersHoldTheLock, StreamsAreListedOnce, MayRead, ToSet
    <2> QED
      BY <2>1, <2>2
  <1> QED
    BY <1>1, <1>2, PTL DEF Spec

\* No queue ever holds more than it has room for, no goroutine sends to a place
\* beyond the end of the list, and no request waits for a server that was not
\* made.
THEOREM TypeCorrect == Spec => []TypeOK
  <1>1. IInv => TypeOK
    BY DEF IInv
  <1> QED
    BY <1>1, InvariantHolds, PTL

\* No message is put for a stream after its removal, and none twice for one
\* stream in one broadcast.
THEOREM ListedOnce == Spec => []StreamsAreListedOnce
  <1>1. IInv => StreamsAreListedOnce
    BY DEF IInv
  <1> QED
    BY <1>1, InvariantHolds, PTL

\* The list does not change while a goroutine sends to all responders.
THEOREM ListNeverChangesUnderSenders == Spec => ListIsStable
  <1>1. ASSUME IInv, [Next]_vars, NEW t \in Threads, MayRead(t)
        PROVE  responders' = responders
    <2>1. CASE \E s \in Streams : AddStreamResponder(s) \/ RemoveStreamResponder(s)
      BY <1>1, <2>1, NobodySends DEF IInv, TypeOK, PacketInv
    <2>2. CASE ~ \E s \in Streams : AddStreamResponder(s) \/ RemoveStreamResponder(s)
      BY <1>1, <2>2
      DEF Next, vars, packetVars, OpenStream, Open, Stop, Drain, Packets, PacketStep, Others, Stimulus,
          Agent, Operations, HandleStream, HandlePacket, Broadcast, Elect, EndOfStream, ArbitrateAgain,
          BeginBroadcast, Skip, Send, Enqueue, EndBroadcast, SendQueued, ClientTurns, Arbitrate, RefusePacketOut,
          Emit, HasPuntRule
    <2> QED
      BY <2>1, <2>2
  <1>2. IInv /\ [Next]_vars
        => [(\E t \in Threads : pc[t] \in {"send", "put"} /\ MayRead(t)) => responders' = responders]_vars
    BY <1>1
  <1> QED
    BY <1>2, InvariantHolds, PTL DEF Spec, ListIsStable
------------------------------------------------------------------------------
\* Starts and stops, one after another: the inductive invariant.

At(i) == servers[i].at
NoneFailed == \A i \in DOMAIN servers : At(i) # "failed"
OlderEnded == \A i \in 1..(Len(servers) - 1) : At(i) = "ended"
Quiet == servers = <<>> \/ At(Current) = "ended"

\* What the servers before the last one can be, and which requests the last one's
\* state goes with.
ServersInv ==
    /\ \A i \in 1..(Len(servers) - 1) : At(i) \in {"started", "serving", "ended"}
    /\ servers # <<>> /\ At(Current) # "new" => OlderEnded
    /\ servers # <<>> /\ At(Current) \in {"new", "created"} => \E c \in Operators : request[c].op = "wait"
    /\ servers # <<>> /\ At(Current) = "draining" => \E c \in Operators : request[c].op = "drain"
    /\ \A c \in Operators :
        /\ request[c].op \in {"wait", "drain"} => servers # <<>> /\ request[c].server = Current
        /\ request[c].op = "wait" => At(Current) \in {"new", "created", "started", "serving"}

\* The device can end all its traffic, except where a start has begun beside a
\* server that still runs, and that start will fail.
TrafficInv ==
    /\ (\A c \in Operators : request[c] = Idle) => traffic \subseteq {cancel} /\ (Quiet => traffic = {})
    /\ \A c \in Operators :
        /\ request[c].op \in {"orderly", "chaotic", "drain"} => traffic = {}
        /\ request[c].op = "start" /\ Quiet => traffic \subseteq {cancel}
        /\ request[c].op = "wait" /\ OlderEnded => traffic \subseteq {cancel}

\* The steps of servers and requests.
AgentStep ==
    \/ \E i \in DOMAIN servers : RunServer(i) \/ Drained(i)
    \/ \E c \in Operators :
        Operate(c) \/ StopServer(c) \/ StartTraffic(c) \/ \E mode \in {"orderly", "chaotic"} : StopTraffic(c, mode)

LEMMA AgentSteps ==
    ASSUME Next
    PROVE  AgentStep \/ UNCHANGED agentVars
  BY DEF Next, OpenStream, Stop, Drain, Packets, Others, Agent, Operations, AgentStep

\* The last server and its number.
LEMMA LastServer ==
    ASSUME AgentTypeOK, servers # <<>>
    PROVE  /\ Len(servers) \in Nat \ {0} /\ Current = Len(servers) /\ Current \in DOMAIN servers
           /\ DOMAIN servers = 1..Len(servers) /\ servers[Current] \in Servers
  BY EmptySeq DEF AgentTypeOK, Current

\* A server that moves on and no other does.
LEMMA OneServerMoves ==
    ASSUME AgentTypeOK, NEW i \in DOMAIN servers, NEW place, Move(i, place)
    PROVE  /\ Len(servers') = Len(servers) /\ DOMAIN servers' = DOMAIN servers /\ Current' = Current
           /\ servers'[i].at = place
           /\ \A j \in DOMAIN servers \ {i} : servers'[j] = servers[j]
  <1>1. DOMAIN servers = 1..Len(servers) /\ servers \in Seq(Servers) /\ Len(servers) \in Nat
    BY DEF AgentTypeOK
  <1>2. servers[i] \in Servers
    BY <1>1
  <1>3. servers' = [servers EXCEPT ![i] = [servers[i] EXCEPT !.at = place]]
    BY DEF Move
  <1>4. [servers[i] EXCEPT !.at = place].at = place
    BY <1>2 DEF Servers
  <1>5. servers'[i].at = place /\ \A j \in DOMAIN servers \ {i} : servers'[j] = servers[j]
    BY <1>1, <1>3, <1>4
  <1>6. DOMAIN servers' = 1..Len(servers) /\ Len(servers') = Len(servers)
    BY <1>1, <1>3
  <1> QED
    BY <1>1, <1>5, <1>6 DEF Current

\* The last server is stopped.
LEMMA StopEffect ==
    ASSUME AgentTypeOK, NEW c \in Operators, StopServer(c)
    PROVE  /\ servers # <<>> /\ servers' # <<>> /\ At(Current) \notin {"new", "failed"}
           /\ Len(servers') = Len(servers) /\ DOMAIN servers' = DOMAIN servers /\ Current' = Current
           /\ servers'[Current].at = IF At(Current) \notin {"serving", "draining"} THEN At(Current)
                                     ELSE IF request[c].op = "orderly" THEN "draining" ELSE "ended"
           /\ \A j \in DOMAIN servers \ {Current} : servers'[j] = servers[j]
  <1>1. servers # <<>> /\ At(Current) \notin {"new", "failed"}
    BY DEF StopServer, HasServer, At
  <1>2. servers \in Seq(Servers) /\ Len(servers) \in Nat \ {0} /\ Current \in DOMAIN servers /\ DOMAIN servers = 1..Len(servers)
    BY <1>1, LastServer DEF AgentTypeOK
  <1>3. PICK place : /\ place = IF At(Current) \notin {"serving", "draining"} THEN At(Current)
                                ELSE IF request[c].op = "orderly" THEN "draining" ELSE "ended"
                     /\ servers' = [servers EXCEPT ![Current] = [at |-> place, stopped |-> TRUE]]
    BY DEF StopServer, At
  <1>4. DOMAIN servers' = 1..Len(servers) /\ Len(servers') = Len(servers)
    BY <1>2, <1>3
  <1>5. servers'[Current] = [at |-> place, stopped |-> TRUE] /\ \A j \in DOMAIN servers \ {Current} : servers'[j] = servers[j]
    BY <1>2, <1>3
  <1>6. servers' # <<>>
    BY <1>2, <1>4
  <1> QED
    BY <1>1, <1>2, <1>3, <1>4, <1>5, <1>6 DEF Current

\* A start adds a server.
LEMMA StartEffect ==
    ASSUME AgentTypeOK, NEW c \in Operators, StartAgent(c)
    PROVE  /\ Len(servers) \in Nat /\ Len(servers') = Len(servers) + 1 /\ Current' = Current + 1 /\ Current = Len(servers)
           /\ servers' # <<>> /\ servers'[Len(servers) + 1].at = "new"
           /\ \A j \in 1..Len(servers) : servers'[j] = servers[j]
           /\ DOMAIN servers = 1..Len(servers) /\ DOMAIN servers' = 1..(Len(servers) + 1)
  <1>1. servers \in Seq(Servers) /\ Len(servers) \in Nat /\ DOMAIN servers = 1..Len(servers)
    BY DEF AgentTypeOK
  <1>2. [at |-> "new", stopped |-> FALSE] \in Servers
    BY DEF Servers
  <1>3. /\ Len(servers') = Len(servers) + 1 /\ DOMAIN servers' = 1..(Len(servers) + 1)
        /\ servers'[Len(servers) + 1] = [at |-> "new", stopped |-> FALSE]
        /\ \A j \in 1..Len(servers) : servers'[j] = servers[j]
    BY <1>1, <1>2 DEF StartAgent
  <1> QED
    BY <1>1, <1>3 DEF Current

\* A start that failed is never forgotten.
LEMMA FailuresStay ==
    ASSUME AgentTypeOK, AgentStep, NoneFailed'
    PROVE  NoneFailed
  <1>1. SUFFICES ASSUME NEW j \in DOMAIN servers, At(j) = "failed"
                 PROVE  j \in DOMAIN servers' /\ servers'[j].at = "failed"
    BY DEF NoneFailed, At
  <1>2. ASSUME NEW i \in DOMAIN servers, RunServer(i) \/ Drained(i)
        PROVE  j \in DOMAIN servers' /\ servers'[j].at = "failed"
    <2>1. CASE ServePanics(i)
      BY <1>1, <2>1 DEF ServePanics, At
    <2>2. CASE ~ ServePanics(i)
      <3>1. PICK place : Move(i, place) /\ At(i) # "failed"
        BY <1>2, <2>2 DEF RunServer, Listen, CloseDone, Serve, Drained, At
      <3> QED
        BY <1>1, <3>1, OneServerMoves DEF At
    <2> QED
      BY <2>1, <2>2
  <1>3. ASSUME NEW c \in Operators, StopServer(c)
        PROVE  j \in DOMAIN servers' /\ servers'[j].at = "failed"
    BY <1>1, <1>3, StopEffect DEF At
  <1>4. ASSUME NEW c \in Operators, StartAgent(c)
        PROVE  j \in DOMAIN servers' /\ servers'[j].at = "failed"
    <2>1. j \in 1..Len(servers) /\ j \in 1..(Len(servers) + 1)
      BY <1>4, StartEffect
    <2> QED
      BY <1>1, <1>4, <2>1, StartEffect DEF At
  <1>5. CASE servers' = servers
    BY <1>1, <1>5 DEF At
  <1> QED
    BY <1>2, <1>3, <1>4, <1>5
    DEF AgentStep, Operate, StartReturns, StopPanics, OrderlyStopReturns, StartTraffic, StopTraffic

TurnsInv == ServersInv /\ TrafficInv

\* A server comes to listen, serves or has drained.
LEMMA ServersTakeTurns ==
    ASSUME AgentTypeOK, TurnsInv, NoneFailed', OperatorsTakeTurns,
           NEW i \in DOMAIN servers, RunServer(i) \/ Drained(i)
    PROVE  TurnsInv'
  <1>1. request' = request /\ traffic' = traffic /\ cancel' = cancel
    BY DEF RunServer, Listen, CloseDone, Serve, ServePanics, Drained
  <1>2. CASE ServePanics(i)
    <2>1. servers' = servers
      BY <1>2 DEF ServePanics
    <2> QED
      BY <1>1, <2>1 DEF TurnsInv, ServersInv, TrafficInv, At, OlderEnded, Quiet, Current
  <1>3. CASE ~ ServePanics(i)
    <2>1. PICK place :
            /\ Move(i, place)
            /\ \/ At(i) = "new" /\ place = "created" /\ \A j \in DOMAIN servers : ~ Listening(j)
               \/ At(i) = "new" /\ place = "failed"
               \/ At(i) = "created" /\ place = "started"
               \/ At(i) = "started" /\ place = "serving"
               \/ At(i) = "draining" /\ place = "ended"
      BY <1>3 DEF RunServer, Listen, CloseDone, Serve, Drained, At
    <2>2. /\ Len(servers') = Len(servers) /\ DOMAIN servers' = DOMAIN servers /\ Current' = Current
          /\ servers'[i].at = place
          /\ \A j \in DOMAIN servers \ {i} : servers'[j] = servers[j]
      BY <2>1, OneServerMoves
    <2>3. place # "failed"
      BY <2>2 DEF NoneFailed, At
    <2>4. /\ servers # <<>> /\ Len(servers) \in Nat \ {0} /\ Current = Len(servers) /\ Current \in DOMAIN servers
          /\ DOMAIN servers = 1..Len(servers) /\ servers' # <<>>
      <3>1. servers \in Seq(Servers) /\ DOMAIN servers = 1..Len(servers) /\ i \in 1..Len(servers) /\ Len(servers) \in Nat
        BY DEF AgentTypeOK
      <3>2. Len(servers) > 0 /\ servers # <<>>
        BY <3>1
      <3>3. servers' # <<>>
        BY <2>2, <3>2, <3>1
      <3> QED
        BY <3>2, <3>3, LastServer
    \* A server before the last one only begins to serve, beside one that has not come to listen.
    <2>5. i = Current \/ (At(i) = "started" /\ place = "serving" /\ At(Current) = "new")
      BY <2>1, <2>4 DEF TurnsInv, ServersInv, OlderEnded
    \* Where the last one comes to listen, the others have ended.
    <2>6. (i = Current => \A j \in 1..(Len(servers) - 1) : servers'[j].at = "ended")
      <3>1. CASE At(i) = "new" /\ i = Current
        BY <2>1, <2>2, <2>3, <2>4, <3>1 DEF TurnsInv, ServersInv, Listening, At
      <3>2. CASE At(i) # "new" /\ i = Current
        BY <2>1, <2>2, <2>4, <3>2 DEF TurnsInv, ServersInv, OlderEnded, At
      <3> QED
        BY <3>1, <3>2
    <2>7. ServersInv'
      <3>1. \A j \in 1..(Len(servers) - 1) : servers'[j].at \in {"started", "serving", "ended"}
        BY <2>1, <2>2, <2>4, <2>5, <2>6 DEF TurnsInv, ServersInv, At
      <3>2. servers'[Current].at # "new" => \A j \in 1..(Len(servers) - 1) : servers'[j].at = "ended"
        BY <2>1, <2>2, <2>4, <2>5, <2>6 DEF At
      <3>3. servers'[Current].at \in {"new", "created"} => \E c \in Operators : request[c].op = "wait"
        BY <2>1, <2>2, <2>3, <2>4, <2>5 DEF TurnsInv, ServersInv, At
      <3>4. servers'[Current].at = "draining" => \E c \in Operators : request[c].op = "drain"
        BY <2>1, <2>2, <2>3, <2>4, <2>5 DEF TurnsInv, ServersInv, At
      <3>5. ASSUME NEW c \in Operators
            PROVE  /\ request[c].op \in {"wait", "drain"} => request[c].server = Current
                   /\ request[c].op = "wait" => servers'[Current].at \in {"new", "created", "started", "serving"}
        BY <2>1, <2>2, <2>3, <2>4, <2>5 DEF TurnsInv, ServersInv, At
      <3> QED
        BY <1>1, <2>2, <2>4, <3>1, <3>2, <3>3, <3>4, <3>5 DEF ServersInv, At, OlderEnded
    <2>8. TrafficInv'
      \* The last server ends where an orderly stop waits for it.
      <3>1. Quiet' => Quiet \/ \E c \in Operators : request[c].op = "drain"
        BY <2>1, <2>2, <2>4, <2>5 DEF Quiet, TurnsInv, ServersInv, At
      <3>2. OlderEnded' => OlderEnded
        BY <2>1, <2>2, <2>4, <2>5 DEF OlderEnded, At
      <3>3. (\A c \in Operators : request[c] = Idle) => traffic \subseteq {cancel} /\ (Quiet' => traffic = {})
        BY <3>1 DEF TurnsInv, TrafficInv, Idle
      <3>4. ASSUME NEW c \in Operators
            PROVE  /\ request[c].op \in {"orderly", "chaotic", "drain"} => traffic = {}
                   /\ request[c].op = "start" /\ Quiet' => traffic \subseteq {cancel}
                   /\ request[c].op = "wait" /\ OlderEnded' => traffic \subseteq {cancel}
        BY <3>1, <3>2 DEF TurnsInv, TrafficInv
      <3> QED
        BY <1>1, <3>3, <3>4 DEF TrafficInv
    <2> QED
      BY <2>7, <2>8 DEF TurnsInv
  <1> QED
    BY <1>2, <1>3

\* Where operators take turns, the others have nothing to do when one does something.
LEMMA OthersAreIdle ==
    ASSUME AgentTypeOK, OperatorsTakeTurns, OperatorsTakeTurns', NEW c \in Operators,
           Operate(c) \/ StopServer(c) \/ StartTraffic(c) \/ \E mode \in {"orderly", "chaotic"} : StopTraffic(c, mode)
    PROVE  \A d \in Operators \ {c} : request[d] = Idle /\ request'[d] = Idle
  <1>1. \A d \in Operators \ {c} : request'[d] = request[d]
    BY DEF AgentTypeOK, Operate, StopServer, StartTraffic, StopTraffic, StartAgent, StartReturns, StopPanics, OrderlyStopReturns
  <1>2. request[c] # Idle \/ request'[c] # Idle
    BY DEF AgentTypeOK, Operate, StopServer, StartTraffic, StopTraffic, StartAgent, StartReturns, StopPanics, OrderlyStopReturns,
           Idle, Stops
  <1>3. ASSUME NEW d \in Operators \ {c}
        PROVE  request[d] = Idle
    BY <1>1, <1>2 DEF OperatorsTakeTurns
  <1> QED
    BY <1>1, <1>3

\* Nobody waits for a start that was answered, or a stop.
LEMMA IdleTurns ==
    ASSUME TurnsInv, servers # <<>>, \A c \in Operators : request[c].op \notin {"wait", "drain"}
    PROVE  At(Current) \notin {"new", "created", "draining"} /\ OlderEnded
  BY DEF TurnsInv, ServersInv

\* Traffic starts and stops.
LEMMA TrafficTakesTurns ==
    ASSUME AgentTypeOK, TurnsInv, OperatorsTakeTurns, OperatorsTakeTurns', NEW c \in Operators,
           StartTraffic(c) \/ \E mode \in {"orderly", "chaotic"} : StopTraffic(c, mode)
    PROVE  TurnsInv'
  <1>1. /\ request[c] = Idle /\ servers' = servers
        /\ \A d \in Operators \ {c} : request[d] = Idle /\ request'[d] = Idle
    BY OthersAreIdle DEF StartTraffic, StopTraffic
  <1>2. request'[c].op \in {"start", "orderly", "chaotic"} /\ \A d \in Operators \ {c} : request'[d].op = "idle"
    <2>1. \A d \in Operators \ {c} : request'[d].op = "idle"
      BY <1>1 DEF Idle
    <2> QED
      BY <2>1 DEF StartTraffic, StopTraffic, AgentTypeOK
  <1>3. \A d \in Operators : request[d] = Idle /\ request[d].op = "idle"
    BY <1>1 DEF Idle
  <1>4. traffic \subseteq {cancel} /\ (Quiet => traffic = {})
    BY <1>3 DEF TurnsInv, TrafficInv
  <1>5. ServersInv'
    BY <1>1, <1>2, <1>3 DEF TurnsInv, ServersInv, OlderEnded, At, Current
  <1>6. TrafficInv'
    <2>1. Quiet' = Quiet
      BY <1>1 DEF Quiet, At, Current
    <2>2. request'[c] # Idle
      BY <1>2 DEF Idle
    <2>3. CASE StartTraffic(c)
      <3>1. request'[c].op = "start" /\ cancel' = starts' /\ traffic' = traffic \cup {starts'}
        BY <2>3 DEF StartTraffic, AgentTypeOK
      <3>2. Quiet' => traffic' \subseteq {cancel'}
        BY <1>4, <2>1, <3>1
      <3> QED
        BY <1>2, <2>2, <3>1, <3>2 DEF TrafficInv
    <2>4. CASE \E mode \in {"orderly", "chaotic"} : StopTraffic(c, mode)
      <3>1. request'[c].op \in {"orderly", "chaotic"} /\ traffic' = traffic \ {cancel}
        BY <2>4 DEF StopTraffic, AgentTypeOK
      <3>2. traffic' = {}
        BY <1>4, <3>1
      <3> QED
        BY <1>2, <2>2, <3>1, <3>2 DEF TrafficInv
    <2> QED
      BY <2>3, <2>4
  <1> QED
    BY <1>5, <1>6 DEF TurnsInv

\* A server is made.
LEMMA StartTakesTurns ==
    ASSUME AgentTypeOK, TurnsInv, NoneFailed, OperatorsTakeTurns, OperatorsTakeTurns', NEW c \in Operators, StartAgent(c)
    PROVE  TurnsInv'
  <1>1. /\ request[c].op = "start" /\ traffic' = traffic /\ cancel' = cancel
        /\ \A d \in Operators \ {c} : request[d] = Idle /\ request'[d] = Idle
    BY OthersAreIdle DEF StartAgent, Operate
  <1>2. /\ Len(servers) \in Nat /\ Len(servers') = Len(servers) + 1 /\ Current' = Current + 1 /\ Current = Len(servers)
        /\ servers' # <<>> /\ servers'[Len(servers) + 1].at = "new"
        /\ \A j \in 1..Len(servers) : servers'[j] = servers[j]
        /\ DOMAIN servers = 1..Len(servers)
    BY StartEffect
  <1>3. request'[c].op = "wait" /\ request'[c].server = Len(servers) + 1
    BY DEF StartAgent, AgentTypeOK
  <1>4. \A d \in Operators \ {c} : request[d].op = "idle" /\ request'[d].op = "idle"
    BY <1>1 DEF Idle
  <1>5. ASSUME servers # <<>>
        PROVE  /\ At(Current) \in {"started", "serving", "ended"} /\ OlderEnded
               /\ Current \in DOMAIN servers
    <2>1. Current \in DOMAIN servers /\ servers[Current] \in Servers
      BY <1>5, LastServer
    <2>2. At(Current) \notin {"new", "created", "draining"} /\ OlderEnded
      BY <1>1, <1>4, <1>5, IdleTurns
    <2>3. At(Current) # "failed"
      BY <2>1 DEF NoneFailed
    <2> QED
      BY <2>1, <2>2, <2>3 DEF Servers, At
  <1>6. ServersInv'
    <2>1. ASSUME NEW j \in 1..Len(servers)
          PROVE  servers'[j].at \in {"started", "serving", "ended"}
      <3>1. servers # <<>> /\ servers'[j] = servers[j]
        BY <1>2, EmptySeq
      <3>2. CASE j = Current
        BY <1>5, <3>1, <3>2 DEF At
      <3>3. CASE j # Current
        <4>1. j \in 1..(Len(servers) - 1)
          BY <1>2, <3>3
        <4> QED
          BY <1>5, <3>1, <4>1 DEF OlderEnded, At
      <3> QED
        BY <3>2, <3>3
    <2>2. Len(servers') - 1 = Len(servers)
      BY <1>2
    <2> QED
      BY <1>2, <1>3, <1>4, <2>1, <2>2 DEF ServersInv, At
  <1>7. TrafficInv'
    <2>1. OlderEnded' => Quiet
      <3>1. ASSUME OlderEnded', servers # <<>>
            PROVE  At(Current) = "ended"
        <4>1. Current \in 1..Len(servers) /\ Len(servers') - 1 = Len(servers)
          BY <1>2, <1>5, <3>1
        <4> QED
          BY <1>2, <3>1, <4>1 DEF OlderEnded, At
      <3> QED
        BY <3>1 DEF Quiet
    <2>2. Quiet => traffic \subseteq {cancel}
      BY <1>1 DEF TurnsInv, TrafficInv
    <2>3. request'[c] # Idle
      BY <1>3 DEF Idle
    <2> QED
      BY <1>1, <1>3, <1>4, <2>1, <2>2, <2>3 DEF TrafficInv
  <1> QED
    BY <1>6, <1>7 DEF TurnsInv

\* A request is answered.
LEMMA AnswersTakeTurns ==
    ASSUME AgentTypeOK, TurnsInv, OperatorsTakeTurns, OperatorsTakeTurns', NEW c \in Operators,
           StartReturns(c) \/ OrderlyStopReturns(c)
    PROVE  TurnsInv'
  <1>1. /\ servers' = servers /\ traffic' = traffic /\ cancel' = cancel
        /\ \A d \in Operators \ {c} : request[d] = Idle /\ request'[d] = Idle
        /\ request'[c] = Idle
    BY OthersAreIdle DEF StartReturns, OrderlyStopReturns, Operate, AgentTypeOK
  <1>2. \A d \in Operators : request'[d] = Idle /\ request'[d].op = "idle"
    BY <1>1 DEF Idle
  <1>3. \A d \in Operators \ {c} : request[d].op = "idle"
    BY <1>1 DEF Idle
  <1>4. Quiet' = Quiet /\ OlderEnded' = OlderEnded /\ Current' = Current /\ \A j \in DOMAIN servers : At(j)' = At(j)
    BY <1>1 DEF Quiet, OlderEnded, At, Current
  <1>5. CASE StartReturns(c)
    <2>1. request[c].op = "wait" /\ At(request[c].server) \notin {"new", "created"}
      BY <1>5 DEF StartReturns, At
    <2>2. servers # <<>> /\ At(Current) \in {"started", "serving"}
      BY <2>1 DEF TurnsInv, ServersInv
    <2>3. OlderEnded
      BY <2>2 DEF TurnsInv, ServersInv
    <2>4. traffic \subseteq {cancel}
      BY <2>1, <2>3 DEF TurnsInv, TrafficInv
    <2>5. ServersInv'
      BY <1>1, <1>2, <1>4, <2>2, <2>3 DEF TurnsInv, ServersInv, OlderEnded, At
    <2>6. TrafficInv'
      BY <1>1, <1>2, <1>4, <2>2, <2>4 DEF Quiet, TrafficInv
    <2> QED
      BY <2>5, <2>6 DEF TurnsInv
  <1>6. CASE OrderlyStopReturns(c)
    <2>1. request[c].op = "drain" /\ servers[request[c].server].at # "draining"
      BY <1>6 DEF OrderlyStopReturns
    <2>2. traffic = {}
      BY <2>1 DEF TurnsInv, TrafficInv
    <2>3. request[c].server = Current
      BY <2>1 DEF TurnsInv, ServersInv
    <2>4. ServersInv'
      BY <1>1, <1>2, <1>3, <1>4, <2>1, <2>3 DEF TurnsInv, ServersInv, OlderEnded, At
    <2>5. TrafficInv'
      BY <1>1, <1>2, <2>2 DEF TrafficInv
    <2> QED
      BY <2>4, <2>5 DEF TurnsInv
  <1> QED
    BY <1>5, <1>6

\* A server is stopped.
LEMMA StopsTakeTurns ==
    ASSUME AgentTypeOK, TurnsInv, OperatorsTakeTurns, OperatorsTakeTurns', NEW c \in Operators, StopServer(c)
    PROVE  TurnsInv'
  <1>1. /\ traffic' = traffic /\ cancel' = cancel /\ request[c].op \in {"orderly", "chaotic"}
        /\ \A d \in Operators \ {c} : request[d] = Idle /\ request'[d] = Idle
    BY OthersAreIdle DEF StopServer, Stops
  <1>2. request'[c] = IF request[c].op = "orderly" THEN [op |-> "drain", server |-> Current] ELSE Idle
    BY DEF StopServer, AgentTypeOK
  <1>3. /\ servers # <<>> /\ servers' # <<>> /\ At(Current) \notin {"new", "failed"}
        /\ Len(servers') = Len(servers) /\ DOMAIN servers' = DOMAIN servers /\ Current' = Current
        /\ servers'[Current].at = IF At(Current) \notin {"serving", "draining"} THEN At(Current)
                                  ELSE IF request[c].op = "orderly" THEN "draining" ELSE "ended"
        /\ \A j \in DOMAIN servers \ {Current} : servers'[j] = servers[j]
    BY StopEffect
  <1>4. \A d \in Operators \ {c} : request[d].op = "idle" /\ request'[d].op = "idle"
    BY <1>1 DEF Idle
  <1>5. At(Current) \notin {"new", "created", "draining"} /\ OlderEnded
    BY <1>1, <1>3, <1>4, IdleTurns
  <1>6. traffic = {}
    BY <1>1 DEF TurnsInv, TrafficInv
  <1>7. request'[c].op \in {"drain", "idle"} /\ (request[c].op = "orderly" => request'[c].op = "drain")
    BY <1>2 DEF Idle
  <1>8. ServersInv'
    <2>1. \A j \in 1..(Len(servers) - 1) : servers'[j].at = "ended"
      <3>1. \A j \in 1..(Len(servers) - 1) : j \in DOMAIN servers \ {Current}
        BY <1>3, LastServer
      <3> QED
        BY <1>3, <1>5, <3>1 DEF OlderEnded, At
    <2>2. /\ servers'[Current].at \notin {"new", "created"}
          /\ servers'[Current].at = "draining" => request[c].op = "orderly"
      BY <1>3, <1>5
    <2>3. request'[c].op = "drain" => request'[c].server = Current
      BY <1>2 DEF Idle
    <2> QED
      BY <1>3, <1>4, <1>7, <2>1, <2>2, <2>3 DEF ServersInv, OlderEnded, At
  <1>9. TrafficInv'
    BY <1>1, <1>4, <1>6, <1>7 DEF TrafficInv
  <1> QED
    BY <1>8, <1>9 DEF TurnsInv

LEMMA NextTakesTurns ==
    ASSUME AgentTypeOK, NoneFailed => TurnsInv, OperatorsTakeTurns, OperatorsTakeTurns', Next \/ UNCHANGED vars
    PROVE  (NoneFailed => TurnsInv)'
  <1>1. SUFFICES ASSUME NoneFailed'
                 PROVE  TurnsInv'
    OBVIOUS
  <1>2. CASE UNCHANGED agentVars
    <2>1. NoneFailed
      BY <1>1, <1>2 DEF NoneFailed, At, agentVars
    <2> QED
      BY <1>2, <2>1 DEF agentVars, TurnsInv, ServersInv, TrafficInv, OlderEnded, Quiet, At, Current
  <1>3. CASE AgentStep
    <2>1. NoneFailed /\ TurnsInv
      BY <1>1, <1>3, FailuresStay
    <2>2. ASSUME NEW c \in Operators, StopPanics(c)
          PROVE  TurnsInv'
      BY <2>1, <2>2 DEF StopPanics, TurnsInv, ServersInv, TrafficInv, OlderEnded, Quiet, At, Current
    <2> QED
      BY <1>1, <1>3, <2>1, <2>2, ServersTakeTurns, TrafficTakesTurns, StartTakesTurns, AnswersTakeTurns, StopsTakeTurns
      DEF AgentStep, Operate
  <1> QED
    BY <1>2, <1>3, AgentSteps DEF vars

\* Where operators take turns, a device that was stopped serves nobody and
\* simulates no traffic, however often it was started and stopped, unless a start
\* failed.
THEOREM StoppedDevicesAreQuiet == Spec => NothingRunsAfterStop
  <1>1. Init => (NoneFailed => TurnsInv)
    BY EmptySeq DEF Init, AgentInit, TurnsInv, ServersInv, TrafficInv, OlderEnded, Idle
  <1>2. IInv /\ (NoneFailed => TurnsInv) /\ OperatorsTakeTurns /\ OperatorsTakeTurns' /\ [Next]_vars
        => (NoneFailed => TurnsInv)'
    BY NextTakesTurns DEF IInv, TypeOK
  <1>3. IInv /\ (NoneFailed => TurnsInv) => (Stopped => NothingRuns)
    <2>1. SUFFICES ASSUME IInv, TurnsInv, servers # <<>>, At(Current) = "ended", \A c \in Operators : request[c] = Idle
                   PROVE  traffic = {} /\ \A i \in DOMAIN servers : ~ Listening(i)
      BY DEF Stopped, NothingRuns, NoneFailed, At
    <2>2. traffic = {}
      BY <2>1 DEF TurnsInv, TrafficInv, Quiet
    <2>3. OlderEnded
      BY <2>1 DEF TurnsInv, ServersInv
    <2>4. DOMAIN servers = 1..Len(servers) /\ Current = Len(servers) /\ Len(servers) \in Nat
      BY <2>1, LastServer DEF IInv, TypeOK
    <2>5. \A i \in DOMAIN servers : At(i) = "ended"
      BY <2>1, <2>3, <2>4 DEF OlderEnded
    <2> QED
      BY <2>2, <2>5 DEF Listening, At
  <1> QED
    BY <1>1, <1>2, <1>3, InvariantHolds, PTL DEF Spec, NothingRunsAfterStop
==============================================================================
