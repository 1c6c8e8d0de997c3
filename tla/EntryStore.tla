----------------------------- MODULE EntryStore ------------------------------
(***************************************************************************)
(* What a P4Runtime client may expect of the forwarding state of a device: *)
(* a map from the entries it can name to their values.  An entry comes     *)
(* into being by an insertion and only where there is none, changes where  *)
(* there is one, and goes by a deletion.  An update touches no entry but   *)
(* the one it names.  Pipeline implements this specification.              *)
(***************************************************************************)
CONSTANTS
    Names,      \* what identifies an entry
    Values,
    Absent      \* no entry

VARIABLES
    store,      \* name -> value, or Absent
    request     \* the update that comes next, Absent if there is none

vars == <<store, request>>

Requests == [type : {"insert", "modify", "delete"}, name : Names]

Init ==
    /\ store = [n \in Names |-> Absent]
    /\ request = Absent

Insert(n, v) ==
    /\ store[n] = Absent
    /\ store' = [store EXCEPT ![n] = v]

Modify(n, v) ==
    /\ store[n] # Absent
    /\ store' = [store EXCEPT ![n] = v]

Delete(n) == store' = [store EXCEPT ![n] = Absent]

\* The update is done or refused, and the next one comes.
Update ==
    /\ request \in Requests
    /\ \/ request.type = "insert" /\ \E v \in Values : Insert(request.name, v)
       \/ request.type = "modify" /\ \E v \in Values : Modify(request.name, v)
       \/ request.type = "delete" /\ Delete(request.name)
       \/ UNCHANGED store
    /\ request' \in Requests \cup {Absent}

\* A batch begins, or has updates of what has no name.
Request ==
    /\ request' \in Requests \cup {Absent}
    /\ UNCHANGED store

\* A new pipeline configuration starts from nothing, between batches.
Reset ==
    /\ request = Absent
    /\ store' = [n \in Names |-> Absent]
    /\ UNCHANGED request

Next == Update \/ Request \/ Reset

Spec == Init /\ [][Next]_vars
==============================================================================
