--------------------------- MODULE MastershipTurns ----------------------------
(***************************************************************************)
(* Mastership with clients that take turns: a client opens a stream, sends *)
(* a claim or leaves when the device is done with all the others, and no   *)
(* election ID is used twice.                                              *)
(***************************************************************************)
EXTENDS Mastership

\* No client uses an election ID that was used before.
ClaimsAreDistinct ==
    \A s \in Streams : received'[s] # received[s] =>
        \A t \in Streams : \A n \in 1..Len(received[t]) :
            received[t][n].id # Last(received'[s]).id

\* Whether s is being served, or is open and has not arbitrated yet.
Busy(s) ==
    \/ pc[s] \notin {"new", "recv", "closed"}
    \/ pc[s] = "recv" /\ received[s] = <<>>

ClientsTakeTurns ==
    \A s \in Streams :
        pc[s] # pc'[s] /\ pc[s] \in {"new", "recv"} => \A t \in Streams \ {s} : ~ Busy(t)

SerialNext == Next /\ ClaimsAreDistinct /\ ClientsTakeTurns
SerialSpec == Init /\ [][SerialNext]_vars

------------------------------------------------------------------------------
\* The inductive invariant behind HolderWasToldOk and OthersWereToldNo, for clients
\* that all use the default role.

\* A claim is known by its election ID.
OneClaimPerElection ==
    \A s, t \in Streams : \A m \in 1..Len(received[s]), n \in 1..Len(received[t]) :
        received[s][m].id = received[t][n].id => s = t /\ m = n

OneIsBusy == \A s, t \in Streams : Busy(s) /\ Busy(t) => s = t

\* RecordRoleElection has returned a winner, which stream s is telling the others.
Telling(s) == pc[s] \in {"rlock", "check", "notify", "mark"}

\* What the handler of a stream has latched, and works with.
LatchedBy(s) ==
    /\ latchedRole[s] = Nil
    /\ pc[s] = "new" => received[s] = <<>>
    /\ pc[s] = "latch" => call[s].unlatched = {"electionID"}
    /\ pc[s] = "record" => call[s].arg = latchedID[s]
    /\ pc[s] = "recv" /\ received[s] # <<>> => latchedID[s] # Nil
    /\ (pc[s] = "record" \/ Telling(s)) /\ ~ call[s].closing => latchedID[s] # Nil
    /\ pc[s] \notin {"check", "notify", "mark"} => call[s].next = 1
Latches == \A s \in Streams : LatchedBy(s)

\* sentCode is the status that was queued last, but for a response that is not
\* marked as sent yet.
SentIsLast ==
    \A r \in Streams :
        \/ LastCode(r) = sentCode[r]
        \/ \E s \in Streams : pc[s] = "mark" /\ Turn(s) = r
MarkIsLast == \A s \in Streams : pc[s] = "mark" => HasTurn(s) /\ LastCode(Turn(s)) = call[s].code

\* Stream r latched the recorded election.
HasWon(r) == DefaultRole \in DOMAIN roleConfigs /\ latchedID[r] = roleConfigs[DefaultRole]

\* Stream r was told whether it did.
Told(r) == sentCode[r] = "OK" <=> HasWon(r)

\* There is a recorded election, and the handler of stream s works with it, or with
\* nil where no responder latched it.
KnowsWinner(s) ==
    /\ DefaultRole \in DOMAIN roleConfigs
    /\ \A r \in ToSet(responders) : latchedID[r] = call[s].max <=> HasWon(r)

\* The responders whose turn is over were told, and the one whose turn it is will be.
ToldInTurn(s) ==
    /\ Telling(s) => KnowsWinner(s)
    /\ pc[s] \in {"notify", "mark"} =>
        \A i \in 1..Len(responders) : i < call[s].next => Told(responders[i])
    /\ pc[s] = "mark" => (call[s].code = "OK" <=> HasWon(Turn(s)))

\* When nobody is telling, everybody that arbitrated knows.
AllWereTold ==
    (\A s \in Streams : ~ Telling(s)) =>
        \A r \in Streams : pc[r] = "recv" /\ received[r] # <<>> =>
            DefaultRole \in DOMAIN roleConfigs /\ Told(r)

TurnsInv ==
    /\ OneClaimPerElection
    /\ OneIsBusy
    /\ Latches
    /\ SentIsLast
    /\ MarkIsLast
    /\ \A s \in Streams : ToldInTurn(s)
    /\ AllWereTold
==============================================================================
