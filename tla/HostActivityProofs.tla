------------------------- MODULE HostActivityProofs --------------------------
(***************************************************************************)
(* Theorems about HostActivity, for any number of hosts, NICs and          *)
(* concurrent requests.                                                    *)
(***************************************************************************)
EXTENDS HostActivity, TLAPS

------------------------------------------------------------------------------
\* What the calls of the mutex leave.

\* RLock gives the goroutine one read lock, or makes it wait for one.
LEMMA RLockEffect ==
    ASSUME TypeOK, NEW t \in Threads, RLock(t), t \notin blocked
    PROVE  /\ readers' \in [Threads -> Nat] /\ blocked' \subseteq Threads
           /\ ReadLocks(t)' = ReadLocks(t) + 1
           /\ \A u \in Threads \ {t} : ReadLocks(u)' = ReadLocks(u) /\ (u \in blocked' <=> u \in blocked)
           /\ writer # Nil => UNCHANGED readers
           /\ blocked \subseteq blocked' /\ \A u \in Threads : readers'[u] >= readers[u]
           /\ UNCHANGED <<writer, waiting>>
  BY DEF TypeOK, RLock, ReadLocks

\* RUnlock takes read locks away from a goroutine that has them.
LEMMA RUnlockEffect ==
    ASSUME TypeOK, NEW t \in Threads, NEW n \in Nat, n <= readers[t], RUnlock(t, n)
    PROVE  /\ readers' \in [Threads -> Nat]
           /\ ReadLocks(t)' = ReadLocks(t) - n
           /\ \A u \in Threads \ {t} : ReadLocks(u)' = ReadLocks(u) /\ readers'[u] = readers[u]
           /\ UNCHANGED <<blocked, writer, waiting>>
  BY DEF TypeOK, RUnlock, ReadLocks

\* Lock changes who writes only if nobody did.
LEMMA LockEffect ==
    ASSUME TypeOK, NEW c \in Requests, Lock(c)
    PROVE  /\ UNCHANGED <<readers, blocked>>
           /\ \A t \in Threads : ReadLocks(t)' = ReadLocks(t)
           /\ writer' \in Requests \cup {Nil} /\ waiting' \subseteq Requests
           /\ writer # Nil => writer' = writer
  BY DEF TypeOK, Lock, ReadLocks

\* Unlock gives every goroutine the lock it waited for.
LEMMA UnlockEffect ==
    ASSUME TypeOK, NEW c \in Requests, Unlock(c)
    PROVE  /\ readers' \in [Threads -> Nat] /\ blocked' = {}
           /\ \A t \in Threads : ReadLocks(t)' = ReadLocks(t)
           /\ writer' \in Requests \cup {Nil} /\ waiting' \subseteq Requests
  BY DEF TypeOK, Unlock, ReadLocks

\* One goroutine moves to another label.
LEMMA GotoEffect ==
    ASSUME TypeOK, NEW t \in Threads, NEW label, Goto(t, label)
    PROVE  /\ pc'[t] = label /\ \A u \in Threads \ {t} : pc'[u] = pc[u]
           /\ label \in {"ended", "select", "random", "emit", "lookup", "send", "idle", "stop"} \cup Ops =>
                pc' \in [Threads -> {"ended", "select", "random", "emit", "lookup", "send", "idle", "stop"} \cup Ops]
  BY DEF TypeOK, Goto

------------------------------------------------------------------------------
\* The inductive invariant, one lemma per way a goroutine uses the mutex.

Labels == {"ended", "select", "random", "emit", "lookup", "send", "idle", "stop"} \cup Ops

\* The invariant is preserved by every step that moves one goroutine t to
\* another label, if its label agrees with its read locks, nobody else's read
\* locks change, and a removal that waits keeps the lock.
LEMMA OneMoves ==
    ASSUME IInv, NEW t \in Threads, NEW label \in Labels, Goto(t, label),
           readers' \in [Threads -> Nat], blocked' \subseteq Threads,
           waiting' \subseteq Requests, writer' \in Requests \cup {Nil},
           hosts' \subseteq Hosts, left' \in [Threads -> Nat],
           \A u \in Threads \ {t} : left'[u] = left[u], label \in {"lookup", "send"} => left'[t] > 0,
           held' \subseteq Threads,
           target' \in [Requests -> Hosts \cup {Nil}],
           \A c \in Requests : pc'[c] # "idle" => target'[c] \in Hosts,
           \A u \in Threads \ {t} : ReadLocks(u)' = ReadLocks(u),
           \A u \in Threads \ {t} : u \in blocked' => u \in blocked,
           \A c \in Requests \ {t} : pc[c] = "stop" => MayWrite(c)',
           t \in Hosts =>
               /\ label \in {"ended", "select", "random", "emit", "lookup", "send"}
               /\ label \in {"ended", "select", "emit", "send"} => ReadLocks(t)' = 0
               /\ label = "lookup" => ReadLocks(t)' = 1,
           t \in Requests =>
               /\ label \notin {"ended", "select", "random"}
               /\ label \in {"idle", "stop", "add", "remove", "change"} => ReadLocks(t)' = 0
               /\ label \in {"arps", "read"} => ReadLocks(t)' = 1
               /\ label \in {"emit", "send"} => ReadLocks(t)' = 1 /\ t \notin blocked'
               /\ label = "lookup" => ReadLocks(t)' = 2
               /\ label = "stop" => MayWrite(t)'
    PROVE  IInv'
  <1>1. pc' \in [Threads -> Labels] /\ pc'[t] = label /\ \A u \in Threads \ {t} : pc'[u] = pc[u]
    BY GotoEffect DEF IInv, Labels
  <1>2. Hosts \subseteq Threads /\ Requests \subseteq Threads
    BY HostActivityAssumption
  <1>3. TypeOK'
    BY <1>1, <1>2 DEF IInv, TypeOK, Labels
  <1>4. LocksHeld'
    BY <1>1, <1>2 DEF IInv, LocksHeld
  <1>5. RemovalHoldsLock'
    BY <1>1, <1>2 DEF IInv, RemovalHoldsLock
  <1> QED
    BY <1>3, <1>4, <1>5 DEF IInv

\* A goroutine that reads, asks to read, or asks to write does not disturb a
\* removal, which has the lock to itself.
LEMMA RemovalUndisturbed ==
    ASSUME IInv, NEW c \in Requests, pc[c] = "stop",
           NEW t \in Threads,
           \/ RLock(t)
           \/ MayRead(t)
           \/ t \in Requests /\ Lock(t)
           \/ UNCHANGED mutex
    PROVE  MayWrite(c) /\ ~ MayRead(t) /\ MayWrite(c)'
  <1>1. MayWrite(c) /\ writer # Nil
    BY HostActivityAssumption DEF IInv, RemovalHoldsLock, MayWrite
  <1>2. ~ MayRead(t)
    BY <1>1 DEF MayWrite, MayRead
  <1>3. CASE RLock(t) \/ UNCHANGED mutex
    BY <1>1, <1>2, <1>3 DEF RLock, MayWrite, mutex
  <1>4. CASE t \in Requests /\ Lock(t)
    BY <1>1, <1>2, <1>4 DEF Lock, MayWrite
  <1> QED
    BY <1>1, <1>2, <1>3, <1>4

\* Timers, recursive calls, lookups and requests that read: RLock.
LEMMA RLockStep ==
    ASSUME IInv, NEW t \in Threads,
           \/ t \in Hosts /\ (TimerFires(t) \/ PickAgain(t))
           \/ LookUpDevice(t)
           \/ \E op \in Ops \cap {"arps", "read"}, h \in Hosts : t \in Requests /\ Call(t, op, h)
    PROVE  IInv'
  <1>1. RLock(t) /\ hosts' = hosts /\ left' = left /\ held' = held
    BY DEF TimerFires, PickAgain, LookUpDevice, Call
  <1>2. t \notin blocked
    BY HostActivityAssumption
    DEF IInv, TypeOK, LocksHeld, ReadLocks, TimerFires, PickAgain, MayRead, LookUpDevice, Call
  <1>3. /\ readers' \in [Threads -> Nat] /\ blocked' \subseteq Threads
        /\ ReadLocks(t)' = ReadLocks(t) + 1
        /\ \A u \in Threads \ {t} : ReadLocks(u)' = ReadLocks(u) /\ (u \in blocked' <=> u \in blocked)
        /\ UNCHANGED <<writer, waiting>>
    BY <1>1, <1>2, RLockEffect DEF IInv
  <1>4. ASSUME NEW c \in Requests, pc[c] = "stop"
        PROVE  MayWrite(c)'
    BY <1>1, <1>4, RemovalUndisturbed
  <1>5. CASE t \in Hosts /\ TimerFires(t)
    <2>1. Goto(t, "random") /\ target' = target /\ t \notin Requests
      BY <1>5, HostActivityAssumption DEF TimerFires
    <2>2. \A c \in Requests : pc'[c] = pc[c]
      BY <2>1, HostActivityAssumption DEF Goto
    <2> QED
      BY <1>1, <1>3, <1>4, <2>1, <2>2, OneMoves, <1>5 DEF IInv, TypeOK, Labels
  <1>6. CASE t \in Hosts /\ PickAgain(t)
    <2>1. Goto(t, "random") /\ target' = target /\ t \notin Requests
      BY <1>6, HostActivityAssumption DEF PickAgain, Goto, IInv, TypeOK
    <2>2. \A c \in Requests : pc'[c] = pc[c]
      BY <2>1, HostActivityAssumption DEF Goto
    <2> QED
      BY <1>1, <1>3, <1>4, <2>1, <2>2, OneMoves, <1>6 DEF IInv, TypeOK, Labels
  <1>7. CASE LookUpDevice(t)
    <2>1. Goto(t, "lookup") /\ target' = target /\ pc[t] = "emit" /\ left[t] > 0
      BY <1>7 DEF LookUpDevice
    <2>2. \A c \in Requests : pc'[c] # "idle" => pc[c] # "idle"
      BY <2>1, HostActivityAssumption DEF Goto, IInv, TypeOK
    <2>3. t \in Hosts => ReadLocks(t)' = 1
      BY <1>3, <2>1 DEF IInv, LocksHeld
    <2>4. t \in Requests => ReadLocks(t)' = 2
      BY <1>3, <2>1 DEF IInv, LocksHeld
    <2> QED
      BY <1>1, <1>3, <1>4, <2>1, <2>2, <2>3, <2>4, OneMoves DEF IInv, TypeOK, Labels
  <1>8. CASE \E op \in Ops \cap {"arps", "read"}, h \in Hosts : t \in Requests /\ Call(t, op, h)
    <2>1. PICK op \in Ops \cap {"arps", "read"}, h \in Hosts : t \in Requests /\ Call(t, op, h)
      BY <1>8
    <2>2. Goto(t, op) /\ target' = [target EXCEPT ![t] = h] /\ pc[t] = "idle" /\ t \notin Hosts
      BY <2>1, HostActivityAssumption DEF Call
    <2>3. /\ target' \in [Requests -> Hosts \cup {Nil}]
          /\ \A c \in Requests : pc'[c] # "idle" => target'[c] \in Hosts
      BY <2>1, <2>2, HostActivityAssumption DEF Goto, IInv, TypeOK
    <2>4. ReadLocks(t)' = 1
      BY <1>3, <2>1, <2>2 DEF IInv, LocksHeld
    <2> QED
      BY <1>1, <1>3, <1>4, <2>1, <2>2, <2>3, <2>4, OneMoves DEF IInv, TypeOK, Labels
  <1> QED
    BY <1>5, <1>6, <1>7, <1>8

\* The end of a read: RUnlock.
LEMMA RUnlockStep ==
    ASSUME IInv, NEW t \in Threads,
           \/ t \in Hosts /\ (PickOther(t) \/ PickNone(t))
           \/ EndLookUp(t)
           \/ t \in Requests /\ EndOfRead(t)
    PROVE  IInv'
  <1> DEFINE n == IF pc[t] = "random" THEN readers[t] ELSE 1
  <1>1. MayRead(t) /\ RUnlock(t, n) /\ hosts' = hosts /\ target' = target /\ held' \subseteq Threads
    BY HostActivityAssumption DEF PickOther, PickNone, EndLookUp, EndOfRead, IInv, TypeOK
  <1>2. n \in Nat /\ n <= readers[t] /\ t \notin blocked /\ readers[t] = ReadLocks(t)
    BY <1>1 DEF IInv, TypeOK, MayRead, ReadLocks
  <1> HIDE DEF n
  <1>3. /\ readers' \in [Threads -> Nat]
        /\ ReadLocks(t)' = ReadLocks(t) - n
        /\ \A u \in Threads \ {t} : ReadLocks(u)' = ReadLocks(u)
        /\ UNCHANGED <<blocked, writer, waiting>>
    BY <1>1, <1>2, RUnlockEffect DEF IInv
  <1>4. ~ \E c \in Requests : pc[c] = "stop"
    BY <1>1 DEF IInv, RemovalHoldsLock, MayWrite, MayRead, TypeOK
  <1>5. CASE t \in Hosts /\ (PickOther(t) \/ PickNone(t))
    <2>1. PICK label \in {"emit", "select"} : Goto(t, label)
      BY <1>5 DEF PickOther, PickNone
    <2>2. ReadLocks(t)' = 0
      BY <1>2, <1>3, <1>5 DEF n, PickOther, PickNone, IInv, TypeOK
    <2>3. left' \in [Threads -> Nat] /\ \A u \in Threads \ {t} : left'[u] = left[u]
      BY <1>5, HostActivityAssumption DEF PickOther, PickNone, IInv, TypeOK
    <2>4. t \notin Requests /\ \A c \in Requests : pc'[c] = pc[c]
      BY <1>5, <2>1, HostActivityAssumption DEF Goto
    <2> QED
      BY <1>1, <1>2, <1>3, <1>4, <1>5, <2>1, <2>2, <2>3, <2>4, OneMoves DEF IInv, TypeOK, Labels
  <1>6. CASE EndLookUp(t)
    <2>1. Goto(t, "send") /\ pc[t] = "lookup" /\ n = 1 /\ left' = left /\ left[t] > 0
      BY <1>6 DEF EndLookUp, n, IInv, TypeOK
    <2>2. \A c \in Requests : pc'[c] # "idle" => pc[c] # "idle"
      BY <2>1, HostActivityAssumption DEF Goto, IInv, TypeOK
    <2>3. /\ t \in Hosts => ReadLocks(t)' = 0
          /\ t \in Requests => ReadLocks(t)' = 1 /\ t \notin blocked'
      BY <1>2, <1>3, <2>1 DEF IInv, LocksHeld
    <2> QED
      BY <1>1, <1>3, <1>4, <2>1, <2>2, <2>3, OneMoves DEF IInv, TypeOK, Labels
  <1>7. CASE t \in Requests /\ EndOfRead(t)
    <2>1. Goto(t, "idle") /\ pc[t] \in {"read", "arps", "emit"} /\ n = 1 /\ left' = left
      BY <1>7 DEF EndOfRead, n
    <2>2. ReadLocks(t)' = 0 /\ t \notin Hosts
      BY <1>3, <1>7, <2>1, HostActivityAssumption DEF IInv, LocksHeld
    <2>3. \A c \in Requests : pc'[c] # "idle" => pc[c] # "idle"
      BY <2>1, HostActivityAssumption DEF Goto, IInv, TypeOK
    <2> QED
      BY <1>1, <1>3, <1>4, <2>1, <2>2, <2>3, OneMoves DEF IInv, TypeOK, Labels
  <1> QED
    BY <1>5, <1>6, <1>7

\* Requests that write: Lock.
LEMMA LockStep ==
    ASSUME IInv, NEW c \in Requests, NEW op \in Ops \ {"arps", "read"}, NEW h \in Hosts,
           Call(c, op, h)
    PROVE  IInv'
  <1>1. /\ Lock(c) /\ Goto(c, op) /\ pc[c] = "idle" /\ hosts' = hosts /\ left' = left /\ held' = held
        /\ target' = [target EXCEPT ![c] = h]
    BY DEF Call
  <1>2. c \in Threads /\ c \notin Hosts /\ op \in {"add", "remove", "change"}
    BY HostActivityAssumption
  <1>3. /\ UNCHANGED <<readers, blocked>>
        /\ \A t \in Threads : ReadLocks(t)' = ReadLocks(t)
        /\ writer' \in Requests \cup {Nil} /\ waiting' \subseteq Requests
    BY <1>1, LockEffect DEF IInv
  <1>4. ASSUME NEW d \in Requests, pc[d] = "stop"
        PROVE  MayWrite(d)'
    BY <1>1, <1>2, <1>4, RemovalUndisturbed
  <1>5. /\ target' \in [Requests -> Hosts \cup {Nil}]
        /\ \A d \in Requests : pc'[d] # "idle" => target'[d] \in Hosts
    BY <1>1, <1>2, HostActivityAssumption DEF Goto, IInv, TypeOK
  <1>6. ReadLocks(c)' = 0
    BY <1>1, <1>2, <1>3 DEF IInv, LocksHeld
  <1> QED
    BY <1>1, <1>2, <1>3, <1>4, <1>5, <1>6, OneMoves DEF IInv, TypeOK, Labels

\* Steps that leave the mutex alone.
LEMMA LocalStep ==
    ASSUME IInv, NEW t \in Threads,
           \/ t \in Hosts /\ BackToSelect(t)
           \/ SendPacketIn(t)
           \/ t \in Requests /\ (StopHost(t) \/ EmitARPs(t))
    PROVE  IInv'
  <1>1. UNCHANGED mutex /\ hosts' = hosts /\ target' = target /\ held' = held
    BY DEF BackToSelect, SendPacketIn, StopHost, EmitARPs
  <1>2. /\ \A u \in Threads : ReadLocks(u)' = ReadLocks(u)
        /\ \A c \in Requests : MayWrite(c) => MayWrite(c)'
        /\ readers' = readers /\ blocked' = blocked /\ waiting' = waiting /\ writer' = writer
        /\ \A c \in Requests : pc[c] = "stop" => MayWrite(c)'
    BY <1>1 DEF mutex, ReadLocks, MayWrite, IInv, RemovalHoldsLock
  <1>3. CASE t \in Hosts /\ BackToSelect(t)
    <2>1. Goto(t, "select") /\ pc[t] = "emit" /\ left' = left /\ t \notin Requests
      BY <1>3, HostActivityAssumption DEF BackToSelect
    <2>2. ReadLocks(t)' = 0 /\ \A c \in Requests : pc'[c] = pc[c]
      BY <1>2, <1>3, <2>1, HostActivityAssumption DEF Goto, IInv, LocksHeld
    <2> QED
      BY <1>1, <1>2, <2>1, <2>2, OneMoves DEF IInv, TypeOK, Labels
  <1>4. CASE t \in Requests /\ StopHost(t)
    <2>1. Goto(t, "stop") /\ pc[t] = "remove" /\ left' = left /\ MayWrite(t) /\ t \notin Hosts
      BY <1>4, HostActivityAssumption DEF StopHost
    <2>2. ReadLocks(t)' = 0 /\ \A c \in Requests : pc'[c] # "idle" => pc[c] # "idle"
      BY <1>2, <1>4, <2>1, HostActivityAssumption DEF Goto, IInv, TypeOK, LocksHeld
    <2> QED
      BY <1>1, <1>2, <2>1, <2>2, OneMoves DEF IInv, TypeOK, Labels
  <1>5. CASE t \in Requests /\ EmitARPs(t)
    <2>1. Goto(t, "emit") /\ pc[t] = "arps" /\ t \notin blocked /\ t \notin Hosts
      BY <1>5, HostActivityAssumption DEF EmitARPs, MayRead
    <2>2. ReadLocks(t)' = 1 /\ \A c \in Requests : pc'[c] # "idle" => pc[c] # "idle"
      BY <1>2, <1>5, <2>1, HostActivityAssumption DEF Goto, IInv, TypeOK, LocksHeld
    <2>3. left' \in [Threads -> Nat] /\ \A u \in Threads \ {t} : left'[u] = left[u]
      BY <1>5, HostActivityAssumption DEF EmitARPs, IInv, TypeOK
    <2> QED
      BY <1>1, <1>2, <2>1, <2>2, <2>3, OneMoves DEF IInv, TypeOK, Labels
  <1>6. CASE SendPacketIn(t)
    <2>1. Goto(t, "emit") /\ pc[t] = "send"
      BY <1>6 DEF SendPacketIn
    <2>2. left' \in [Threads -> Nat] /\ \A u \in Threads \ {t} : left'[u] = left[u]
      BY <1>6, <2>1 DEF SendPacketIn, IInv, TypeOK
    <2>3. \A c \in Requests : pc'[c] # "idle" => pc[c] # "idle"
      BY <2>1, HostActivityAssumption DEF Goto, IInv, TypeOK
    <2>4. /\ t \in Hosts => ReadLocks(t)' = 0
          /\ t \in Requests => ReadLocks(t)' = 1 /\ t \notin blocked'
      BY <1>2, <2>1 DEF IInv, LocksHeld
    <2> QED
      BY <1>1, <1>2, <2>1, <2>2, <2>3, <2>4, OneMoves DEF IInv, TypeOK, Labels
  <1> QED
    BY <1>3, <1>4, <1>5, <1>6

\* The end of a write: Unlock.  Adding and removing a host move its goroutine
\* too, which holds no read lock then.
LEMMA UnlockStep ==
    ASSUME IInv, GoroutinesMatchHosts, NEW c \in Requests,
           AddHost(c) \/ RemoveUnknownHost(c) \/ RemoveHost(c) \/ ChangeInventory(c)
    PROVE  IInv'
  <1> DEFINE h == target[c]
  <1>1. /\ Unlock(c) /\ left' = left /\ held' = held /\ target' = target
        /\ MayWrite(c) /\ pc[c] \in {"add", "remove", "stop", "change"}
    BY DEF AddHost, RemoveUnknownHost, RemoveHost, ChangeInventory, IInv, RemovalHoldsLock
  <1>2. /\ c \in Threads /\ c \notin Hosts /\ h \in Hosts
        /\ Hosts \subseteq Threads /\ Requests \subseteq Threads /\ Hosts \cap Requests = {}
    BY <1>1, HostActivityAssumption DEF IInv, TypeOK
  <1>3. /\ readers' \in [Threads -> Nat] /\ blocked' = {}
        /\ \A t \in Threads : ReadLocks(t)' = ReadLocks(t)
        /\ writer' \in Requests \cup {Nil} /\ waiting' \subseteq Requests
    BY <1>1, UnlockEffect DEF IInv
  <1>4. \A d \in Requests \ {c} : pc[d] # "stop"
    BY <1>1, <1>2 DEF IInv, RemovalHoldsLock, MayWrite
  <1>5. PICK label \in {"ended", "select", "random", "emit", "lookup", "send"} :
            /\ pc' = [pc EXCEPT ![c] = "idle", ![h] = label]
            /\ label # pc[h] => pc[h] \in {"ended", "select"} /\ label \in {"ended", "select"}
            /\ hosts' \subseteq Hosts
    <2>1. pc[h] \in {"ended", "select", "random", "emit", "lookup", "send"}
      BY <1>2 DEF IInv, TypeOK
    <2>2. CASE AddHost(c)
      <3>1. h \notin hosts => pc[h] = "ended"
        BY <1>2 DEF GoroutinesMatchHosts
      <3>2. /\ pc' = [pc EXCEPT ![c] = "idle", ![h] = IF h \in hosts THEN pc[h] ELSE "select"]
            /\ hosts' \subseteq Hosts
        BY <1>2, <2>2 DEF AddHost, IInv, TypeOK
      <3> QED
        BY <2>1, <3>1, <3>2
    <2>3. CASE RemoveHost(c)
      BY <2>3 DEF RemoveHost, IInv, TypeOK
    <2>4. CASE RemoveUnknownHost(c) \/ ChangeInventory(c)
      <3>1. pc' = [pc EXCEPT ![c] = "idle", ![h] = pc[h]]
        BY <1>2, <2>4 DEF RemoveUnknownHost, ChangeInventory, Goto, IInv, TypeOK
      <3> QED
        BY <2>1, <2>4, <3>1 DEF RemoveUnknownHost, ChangeInventory, IInv, TypeOK
    <2> QED
      BY <2>2, <2>3, <2>4
  <1> HIDE DEF h
  <1>6. /\ pc' \in [Threads -> Labels] /\ pc'[c] = "idle" /\ pc'[h] = label
        /\ \A t \in Threads \ {c, h} : pc'[t] = pc[t]
    BY <1>2, <1>5 DEF IInv, TypeOK, Labels
  <1>7. TypeOK'
    BY <1>1, <1>2, <1>3, <1>5, <1>6 DEF IInv, TypeOK, Labels
  <1>8. LocksHeld'
    BY <1>1, <1>2, <1>3, <1>5, <1>6 DEF IInv, LocksHeld
  <1>9. RemovalHoldsLock'
    BY <1>2, <1>4, <1>6 DEF RemovalHoldsLock
  <1> QED
    BY <1>7, <1>8, <1>9 DEF IInv

\* Goroutines start and end with their hosts.
LEMMA GoroutinesStep ==
    ASSUME IInv, GoroutinesMatchHosts, [Next]_vars
    PROVE  GoroutinesMatchHosts'
  <1> USE HostActivityAssumption DEF GoroutinesMatchHosts, IInv, TypeOK, Goto
  <1>1. ASSUME NEW h \in Hosts, TimerFires(h) \/ HostStep(h)
        PROVE  GoroutinesMatchHosts'
    BY <1>1 DEF HostStep, TimerFires, PickOther, PickAgain, PickNone, LookUpDevice,
                EndLookUp, SendPacketIn, BackToSelect
  <1>2. ASSUME NEW c \in Requests, NEW op \in Ops, NEW h \in Hosts, Call(c, op, h)
        PROVE  GoroutinesMatchHosts'
    BY <1>2 DEF Call
  <1>3. ASSUME NEW c \in Requests, RequestStep(c)
        PROVE  GoroutinesMatchHosts'
    <2>1. CASE AddHost(c)
      BY <2>1 DEF AddHost
    <2>2. CASE RemoveHost(c)
      BY <2>2 DEF RemoveHost
    <2>3. CASE ~ AddHost(c) /\ ~ RemoveHost(c)
      BY <1>3, <2>3 DEF RequestStep, RemoveUnknownHost, StopHost, EmitARPs, LookUpDevice,
                        EndLookUp, SendPacketIn, EndOfRead, ChangeInventory
    <2> QED
      BY <2>1, <2>2, <2>3
  <1>4. ASSUME NEW t \in Threads, MakesRoom(t)
        PROVE  GoroutinesMatchHosts'
    BY <1>4 DEF MakesRoom
  <1>5. CASE UNCHANGED vars
    BY <1>5 DEF vars
  <1> QED
    BY <1>1, <1>2, <1>3, <1>4, <1>5 DEF Next

\* Every step of the goroutines and of the requests keeps the mutex and who waits for
\* whom consistent.
LEMMA InvStep ==
    ASSUME IInv, GoroutinesMatchHosts, [Next]_vars
    PROVE  IInv'
  <1>1. Hosts \subseteq Threads /\ Requests \subseteq Threads
    BY HostActivityAssumption
  <1>2. ASSUME NEW h \in Hosts, TimerFires(h) \/ HostStep(h)
        PROVE  IInv'
    BY <1>1, <1>2, RLockStep, RUnlockStep, LocalStep DEF HostStep
  <1>3. ASSUME NEW c \in Requests, NEW op \in Ops, NEW h \in Hosts, Call(c, op, h)
        PROVE  IInv'
    BY <1>1, <1>3, RLockStep, LockStep
  <1>4. ASSUME NEW c \in Requests, RequestStep(c)
        PROVE  IInv'
    BY <1>1, <1>4, RLockStep, RUnlockStep, LocalStep, UnlockStep DEF RequestStep
  <1>5. CASE UNCHANGED vars \/ \E t \in Threads : MakesRoom(t)
    BY <1>5 DEF vars, MakesRoom, mutex, IInv, TypeOK, LocksHeld, ReadLocks, RemovalHoldsLock, MayWrite
  <1> QED
    BY <1>2, <1>3, <1>4, <1>5 DEF Next

\* With no host and no request, nothing is locked and no goroutine runs.
LEMMA InvInit ==
    Init => IInv /\ GoroutinesMatchHosts
  BY HostActivityAssumption
  DEF Init, MutexInit, IInv, TypeOK, LocksHeld, ReadLocks, RemovalHoldsLock, GoroutinesMatchHosts

\* The goroutine of a host runs exactly as long as the host is in the inventory,
\* whatever requests and timers interleave.
THEOREM GoroutinesAlwaysMatch ==
    Spec => []GoroutinesMatchHosts
  <1>1. IInv /\ GoroutinesMatchHosts /\ [Next]_vars => (IInv /\ GoroutinesMatchHosts)'
    BY InvStep, GoroutinesStep
  <1> QED
    BY <1>1, InvInit, PTL DEF Spec

\* No goroutine leaves a read lock behind, and whoever waits for a goroutine to
\* stop has the lock to itself.
THEOREM LocksAreBalanced ==
    Spec => []IInv
  <1>1. IInv /\ GoroutinesMatchHosts /\ [Next]_vars => (IInv /\ GoroutinesMatchHosts)'
    BY InvStep, GoroutinesStep
  <1> QED
    BY <1>1, InvInit, PTL DEF Spec

------------------------------------------------------------------------------
\* Hangs.

\* A removal that waits for a goroutine that waits for the lock goes on doing so:
\* nobody else can unlock, and the goroutine does not get back to its select.
LEMMA RemovalStaysHung ==
    ASSUME IInv, [Next]_vars, NEW c \in Requests, pc[c] = "stop", target[c] \in blocked
    PROVE  Hung'
  <1>1. /\ MayWrite(c) /\ writer = c /\ writer # Nil
        /\ \A t \in Threads : readers[t] = 0 /\ ~ MayRead(t)
        /\ \A d \in Requests \ {c} : ~ MayWrite(d)
    BY HostActivityAssumption DEF IInv, RemovalHoldsLock, MayWrite, MayRead
  <1>2. pc[target[c]] # "select"
    BY HostActivityAssumption DEF IInv, TypeOK, LocksHeld, ReadLocks
  <1>3. ASSUME NEW t \in Threads, RLock(t)
        PROVE  blocked \subseteq blocked'
    BY <1>1, <1>3 DEF RLock
  <1>4. ASSUME NEW h \in Hosts, TimerFires(h) \/ HostStep(h)
        PROVE  pc'[c] = pc[c] /\ target' = target /\ blocked \subseteq blocked'
    <2>1. h \in Threads /\ h # c
      BY HostActivityAssumption
    <2>2. ~ (PickOther(h) \/ PickAgain(h) \/ PickNone(h) \/ EndLookUp(h))
      BY <1>1, <2>1 DEF PickOther, PickAgain, PickNone, EndLookUp
    <2>3. CASE TimerFires(h) \/ LookUpDevice(h)
      <3>1. RLock(h) /\ target' = target /\ pc' \in {[pc EXCEPT ![h] = "random"], [pc EXCEPT ![h] = "lookup"]}
        BY <2>3 DEF TimerFires, LookUpDevice, Goto
      <3>2. pc'[c] = pc[c]
        BY <2>1, <3>1, HostActivityAssumption DEF IInv, TypeOK
      <3> QED
        BY <1>3, <2>1, <3>1, <3>2
    <2>4. CASE SendPacketIn(h) \/ BackToSelect(h)
      <3>1. UNCHANGED mutex /\ target' = target /\ pc' \in {[pc EXCEPT ![h] = "emit"], [pc EXCEPT ![h] = "select"]}
        BY <2>4 DEF SendPacketIn, BackToSelect, Goto
      <3> QED
        BY <2>1, <3>1, HostActivityAssumption DEF IInv, TypeOK, mutex
    <2> QED
      BY <1>4, <2>2, <2>3, <2>4 DEF HostStep
  <1>5. ASSUME NEW d \in Requests, NEW op \in Ops, NEW h \in Hosts, Call(d, op, h)
        PROVE  pc'[c] = pc[c] /\ target'[c] = target[c] /\ blocked \subseteq blocked'
    BY <1>1, <1>3, <1>5, HostActivityAssumption DEF Call, Goto, Lock, IInv, TypeOK
  <1>6. ASSUME NEW d \in Requests, RequestStep(d)
        PROVE  pc'[c] = pc[c] /\ target' = target /\ blocked \subseteq blocked'
    <2>1. d \in Threads
      BY HostActivityAssumption
    <2>2. ~ (EmitARPs(d) \/ EndLookUp(d) \/ EndOfRead(d))
      BY <1>1, <2>1 DEF EmitARPs, EndLookUp, EndOfRead
    <2>3. ~ (AddHost(d) \/ RemoveUnknownHost(d) \/ StopHost(d) \/ ChangeInventory(d))
      BY <1>1 DEF AddHost, RemoveUnknownHost, StopHost, ChangeInventory
    <2>4. ~ RemoveHost(d)
      BY <1>1, <1>2 DEF RemoveHost, IInv, RemovalHoldsLock
    <2>5. CASE LookUpDevice(d)
      BY <1>3, <2>1, <2>5 DEF LookUpDevice, Goto
    <2>6. CASE SendPacketIn(d)
      BY <2>6 DEF SendPacketIn, Goto, mutex
    <2> QED
      BY <1>6, <2>2, <2>3, <2>4, <2>5, <2>6 DEF RequestStep
  <1>7. CASE UNCHANGED vars \/ \E t \in Threads : MakesRoom(t)
    BY <1>7 DEF vars, MakesRoom, mutex, Hung
  <1> QED
    BY <1>4, <1>5, <1>6, <1>7 DEF Next, Hung

\* A goroutine that waits for a read lock it has keeps the writer out, and the
\* writer keeps it waiting.
LEMMA ReaderStaysHung ==
    ASSUME IInv, [Next]_vars, NEW t \in blocked, readers[t] > 0
    PROVE  Hung'
  <1>1. t \in Threads /\ ~ MayRead(t) /\ readers \in [Threads -> Nat]
    BY DEF MayRead, IInv, TypeOK
  <1>2. \A d \in Requests : ~ MayWrite(d)
    BY <1>1 DEF MayWrite
  <1>3. ASSUME NEW u \in Threads, RLock(u)
        PROVE  t \in blocked' /\ readers'[t] > 0
    BY <1>1, <1>3 DEF RLock
  <1>4. ASSUME NEW u \in Threads, NEW n \in Nat, RUnlock(u, n), MayRead(u)
        PROVE  t \in blocked' /\ readers'[t] > 0
    BY <1>1, <1>4 DEF RUnlock
  <1>5. ASSUME NEW u \in Threads, LookUpDevice(u) \/ EndLookUp(u)
        PROVE  t \in blocked' /\ readers'[t] > 0
    BY <1>3, <1>4, <1>5 DEF LookUpDevice, EndLookUp
  <1>6. CASE UNCHANGED mutex
    BY <1>1, <1>6 DEF mutex, Hung
  <1>7. ASSUME NEW h \in Hosts, TimerFires(h) \/ HostStep(h)
        PROVE  Hung'
    <2>1. h \in Threads /\ readers[h] \in Nat
      BY <1>1, HostActivityAssumption
    <2> QED
      BY <1>3, <1>4, <1>5, <1>6, <1>7, <2>1
      DEF HostStep, TimerFires, PickOther, PickAgain, PickNone, SendPacketIn, BackToSelect, Hung
  <1>8. ASSUME NEW d \in Requests, NEW op \in Ops, NEW h \in Hosts, Call(d, op, h)
        PROVE  t \in blocked' /\ readers'[t] > 0
    BY <1>1, <1>3, <1>8, HostActivityAssumption DEF Call, Lock
  <1>9. ASSUME NEW d \in Requests, RequestStep(d)
        PROVE  Hung'
    <2>1. d \in Threads
      BY HostActivityAssumption
    <2>2. CASE StopHost(d) \/ EmitARPs(d) \/ SendPacketIn(d)
      BY <1>6, <2>2 DEF StopHost, EmitARPs, SendPacketIn
    <2>3. CASE EndOfRead(d) \/ LookUpDevice(d) \/ EndLookUp(d)
      BY <1>4, <1>5, <2>1, <2>3 DEF EndOfRead, Hung
    <2>4. ~ (AddHost(d) \/ RemoveUnknownHost(d) \/ RemoveHost(d) \/ ChangeInventory(d))
      BY <1>2 DEF AddHost, RemoveUnknownHost, RemoveHost, ChangeInventory, IInv, RemovalHoldsLock
    <2> QED
      BY <1>9, <2>2, <2>3, <2>4 DEF RequestStep
  <1>10. ASSUME NEW u \in Threads, MakesRoom(u)
         PROVE  Hung'
    BY <1>6, <1>10 DEF MakesRoom
  <1> QED
    BY <1>6, <1>7, <1>8, <1>9, <1>10 DEF Next, Hung, vars

\* A hang never ends by itself: no timer, goroutine or request resolves it.
THEOREM HangsLast ==
    Spec => HangIsForever
  <1>1. IInv /\ [Next]_vars => (Hung => Hung')
    BY RemovalStaysHung, ReaderStaysHung DEF Hung
  <1>2. IInv /\ [Next]_vars => [Hung => Hung']_vars
    BY <1>1
  <1> QED
    BY <1>2, LocksAreBalanced, PTL DEF Spec, HangIsForever
==============================================================================
