------------------------------- MODULE RWMutex -------------------------------
(***************************************************************************)
(* sync.RWMutex of Go's library: a writer that has called Lock keeps new   *)
(* readers out, also while it waits for the readers that are in, and       *)
(* Unlock lets in the readers that were kept out before the next writer.   *)
(*                                                                         *)
(* A call is one action here; the goroutine that made it continues when    *)
(* MayRead or MayWrite holds.                                              *)
(***************************************************************************)
EXTENDS Naturals

CONSTANTS Threads, Nil

VARIABLES
    readers,    \* how many read locks each goroutine holds
    blocked,    \* goroutines kept out by a writer
    writer,     \* the goroutine whose Lock comes first, Nil if none
    waiting     \* goroutines whose Lock waits for that one's Unlock

mutex == <<readers, blocked, writer, waiting>>

MutexInit ==
    /\ readers = [t \in Threads |-> 0]
    /\ blocked = {}
    /\ writer = Nil
    /\ waiting = {}

MayRead(t) == t \notin blocked /\ readers[t] > 0
MayWrite(t) == writer = t /\ \A u \in Threads : readers[u] = 0

RLock(t) ==
    /\ IF writer = Nil
       THEN readers' = [readers EXCEPT ![t] = @ + 1] /\ UNCHANGED blocked
       ELSE blocked' = blocked \cup {t} /\ UNCHANGED readers
    /\ UNCHANGED <<writer, waiting>>

\* t gives back n of its read locks.
RUnlock(t, n) ==
    /\ readers' = [readers EXCEPT ![t] = @ - n]
    /\ UNCHANGED <<blocked, writer, waiting>>

Lock(t) ==
    /\ IF writer = Nil
       THEN writer' = t /\ UNCHANGED waiting
       ELSE waiting' = waiting \cup {t} /\ UNCHANGED writer
    /\ UNCHANGED <<readers, blocked>>

Unlock(t) ==
    /\ readers' = [u \in Threads |-> readers[u] + IF u \in blocked THEN 1 ELSE 0]
    /\ blocked' = {}
    /\ \/ waiting = {} /\ writer' = Nil /\ UNCHANGED waiting
       \/ \E w \in waiting : writer' = w /\ waiting' = waiting \ {w}
==============================================================================
