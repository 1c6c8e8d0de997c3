--------------------------- MODULE ElectionService ---------------------------
(***************************************************************************)
(* What mastership arbitration promises its clients, with no threads, no   *)
(* locks and no messages:                                                  *)
(*   - the election recorded for a role is only ever replaced by a higher  *)
(*     one;                                                                *)
(*   - a stream is told OK only for an election ID that was recorded, and  *)
(*     no two streams are told OK for the same role and election ID.       *)
(* Mastership implements this specification.                               *)
(***************************************************************************)
EXTENDS Uint128

CONSTANTS
    Streams, Roles, Elections,
    None        \* no election

VARIABLES
    highest,    \* the highest election recorded for each role, None at first
    oks         \* every OK given, as [stream, role, id]

vars == <<highest, oks>>

Init ==
    /\ highest = [r \in Roles |-> None]
    /\ oks = {}

\* An election ID wins a role.
Elect(r, e) ==
    /\ highest[r] = None \/ Larger(e, highest[r])
    /\ highest' = [highest EXCEPT ![r] = e]
    /\ UNCHANGED oks

\* Stream s is told that it holds election e of role r.
Confirm(s, r, e) ==
    /\ highest[r] # None
    /\ ~ Larger(e, highest[r])
    /\ \A ok \in oks : ok.role = r /\ ok.id = e => ok.stream = s
    /\ oks' = oks \cup {[stream |-> s, role |-> r, id |-> e]}
    /\ UNCHANGED highest

Next ==
    \E r \in Roles, e \in Elections :
        \/ Elect(r, e)
        \/ \E s \in Streams : Confirm(s, r, e)

Spec == Init /\ [][Next]_vars
==============================================================================
