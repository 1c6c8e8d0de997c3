---------------------------- MODULE MCMastership -----------------------------
(***************************************************************************)
(* Instances of Mastership for TLC, and one more environment.              *)
(***************************************************************************)
EXTENDS MastershipTurns

CONSTANTS s1, s2, s3

\* s1 and s2 belong to one client, which multiplexes them on a connection.
MCAddress == [s \in Streams |-> IF s = s3 THEN "b" ELSE "a"]

\* 1, 2 and 2^64: the smallest set whose order needs both halves.
One == [high |-> 0, low |-> 1]
Two == [high |-> 0, low |-> 2]
Big == [high |-> 1, low |-> 0]

TwoElections == {Two, Big}
ThreeElections == {One, Two, Big}

Twins == Permutations({s1, s2})

------------------------------------------------------------------------------
\* Clients that stay, and claim concurrently.

NobodyLeaves == \A s \in Streams : call'[s].closing => call[s].closing

StayingSpec == Init /\ [][Next /\ ClaimsAreDistinct /\ NobodyLeaves]_vars
==============================================================================
