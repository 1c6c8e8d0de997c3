----------------------------- MODULE Mastership ------------------------------
(***************************************************************************)
(* P4Runtime mastership arbitration of one simulated device.               *)
(*                                                                         *)
(* Each element of Streams is one StreamChannel call (p4runtime.go:201)    *)
(* and the goroutine that serves it.  The handlers share the device's      *)
(* responder list and role map; ds.lock is a readers-writer lock that      *)
(* RecordRoleElection, AddStreamResponder and RemoveStreamResponder take   *)
(* exclusively for their whole body, so they are single actions, and that  *)
(* RunMastershipArbitration re-takes shared for the notifications, which   *)
(* therefore interleave with the notifications of the other handlers.      *)
(*                                                                         *)
(* The code compares roles and election IDs by POINTER when it notifies    *)
(* and by value when it elects.  A pointer is <<stream, n>>: the role and  *)
(* the election ID of the n-th arbitration message that stream received.   *)
(***************************************************************************)
EXTENDS Uint128, SequencesExt

CONSTANTS
    Streams,        \* StreamChannel calls, one after the other or at once
    Address,        \* the peer address of each stream
    Roles,          \* role names
    DefaultRole,    \* the name "" of messages that carry no role
    Elections,      \* election IDs that clients use
    Writers,        \* concurrent Write / SetForwardingPipelineConfig calls
    MaxMessages,    \* bound: arbitration messages a client sends on a stream
    Nil             \* the nil pointer

Pointers == Streams \X (Nat \ {0})

ASSUME MastershipAssumption ==
    /\ DefaultRole \in Roles
    /\ Elections \subseteq Uint128Values
    /\ MaxMessages \in Nat
    /\ Nil \notin Pointers
    /\ Nil \notin Elections
    /\ DOMAIN Address = Streams

VARIABLES
    received,       \* the arbitration messages each stream has received
    pc,             \* where the goroutine of each stream is
    call,           \* locals of its running RunMastershipArbitration
    latchedRole,    \* streamState.role, a pointer
    latchedID,      \* streamState.electionID, a pointer
    sentCode,       \* streamState.sentCode
    queued,         \* responses put on streamState.streamResponses so far
    responders,     \* ds.streamResponders
    connections,    \* ds.Device.Connections, as peer addresses
    roleConfigs,    \* ds.roleConfigs: role name -> winning electionID
    writer,         \* progress of each Write call
    applied,        \* [role, id] of every Write that reached ProcessWrite
    panicked        \* a handler dereferenced nil: the process is gone

latchVars == <<latchedRole, latchedID>>
arbitrationVars == <<received, pc, call, latchVars, sentCode, queued>>
deviceVars == <<responders, connections, roleConfigs>>
writeVars == <<writer, applied>>
vars == <<arbitrationVars, deviceVars, writeVars, panicked>>

Messages == [role : Roles, id : Elections]
NoCode == "none"
Codes == {"OK", "NOT_FOUND", "ALREADY_EXISTS", "INVALID_ARGUMENT"}
Fields == {"role", "electionID"}

------------------------------------------------------------------------------
\* Pointers and what they point to.

Message(p) == received[p[1]][p[2]]
ElectionOf(p) == Message(p).id
RoleName(p) == IF p = Nil THEN DefaultRole ELSE Message(p).role

\* The Role of a message: nil when the message carries none.
RolePointer(p) == IF RoleName(p) = DefaultRole THEN Nil ELSE p

\* The message stream s receives next.
PreviousArrival(s) == <<s, Len(received[s])>>
Arrival(s) == <<s, Len(received[s]) + 1>>

\* Handlers inside the shared section of RunMastershipArbitration; the lock
\* can be taken exclusively only when there is none.
Readers == {s \in Streams : pc[s] \in {"check", "notify", "mark"}}
Exclusive == ~ panicked /\ Readers = {}

At(s, label) == pc[s] = label /\ ~ panicked
Goto(s, label) == pc' = [pc EXCEPT ![s] = label]
SetCall(s, locals) == call' = [call EXCEPT ![s] = locals]

\* The locals of a handler that runs no arbitration; failCode starts as
\* NOT_FOUND (device.go:343).
NoCall == [arg |-> Nil, max |-> Nil, closing |-> FALSE, unlatched |-> {},
           next |-> 1, fail |-> "NOT_FOUND", code |-> "OK"]

\* A nil dereference in a handler takes the whole process down.
Panic ==
    /\ panicked' = TRUE
    /\ UNCHANGED <<arbitrationVars, deviceVars, writeVars>>

------------------------------------------------------------------------------
\* The stream comes and goes.

\* A new stream is registered with the device: AddStreamResponder.
Open(s) ==
    /\ At(s, "new") /\ Exclusive
    /\ responders' = Append(responders, s)
    /\ connections' = Append(connections, Address[s])
    /\ Goto(s, "recv")
    /\ UNCHANGED <<received, call, latchVars, sentCode, queued, roleConfigs,
                   writeVars, panicked>>

\* The first occurrence only: two streams of one client share an address.
RemoveEvery(seq, e) == SelectSeq(seq, LAMBDA x : x # e)
RemoveOne(seq, e) == RemoveFirst(seq, e)

\* Recv fails or ends: the responder is removed, and arbitration is run once
\* more with whatever role and election ID the stream latched last.
Close(s) ==
    /\ At(s, "recv") /\ Exclusive
    /\ connections' = RemoveOne(connections, Address[s])
    /\ responders' = RemoveFirst(responders, s)
    /\ SetCall(s, [call[s] EXCEPT !.arg = latchedID[s],
                               !.closing = TRUE])
    /\ Goto(s, "record")
    /\ UNCHANGED <<received, latchVars, sentCode, queued, roleConfigs,
                   writeVars, panicked>>

------------------------------------------------------------------------------
\* LatchMastershipArbitration, which takes no lock.

\* Writing nil over a nil role is not seen by anybody.
FieldsToWrite(s, r) ==
    IF r = DefaultRole /\ latchedRole[s] = Nil THEN {"electionID"} ELSE Fields

Receive(s, r, e) ==
    /\ At(s, "recv")
    /\ Len(received[s]) < MaxMessages
    /\ received' = [received EXCEPT ![s] = Append(@, [role |-> r, id |-> e])]
    /\ SetCall(s, [call[s] EXCEPT !.arg = Arrival(s),
                               !.unlatched = FieldsToWrite(s, r)])
    /\ Goto(s, "latch")
    /\ UNCHANGED <<latchVars, sentCode, queued, deviceVars, writeVars, panicked>>

\* Other handlers may be reading the two fields while they are written, and
\* may see either one first.
Latched(s, field) ==
    /\ At(s, "latch")
    /\ field \in call[s].unlatched
    /\ SetCall(s, [call[s] EXCEPT !.unlatched = @ \ {field}])
    /\ Goto(s, IF call[s].unlatched = {field} THEN "record" ELSE "latch")
    /\ UNCHANGED <<received, sentCode, queued, deviceVars, writeVars, panicked>>

LatchRole(s) ==
    /\ Latched(s, "role")
    /\ latchedRole' = [latchedRole EXCEPT ![s] = RolePointer(call[s].arg)]
    /\ UNCHANGED latchedID

LatchElectionID(s) ==
    /\ Latched(s, "electionID")
    /\ latchedID' = [latchedID EXCEPT ![s] = call[s].arg]
    /\ UNCHANGED latchedRole

------------------------------------------------------------------------------
\* RecordRoleElection, under the exclusive lock.

\* The claim is the first for its role.
FirstClaim(p) == RoleName(p) \notin DOMAIN roleConfigs

\* The comparison with the winner would dereference nil.
ComparesNil(p) ==
    /\ ~ FirstClaim(p)
    /\ p = Nil \/ roleConfigs[RoleName(p)] = Nil

BeatsUnlessLower(a, b) == Larger(a, b) \/ a = b
BeatsByEitherHalf(a, b) == a.high > b.high \/ a.low > b.low
Beats(a, b) == Larger(a, b)

Wins(p) == ~ FirstClaim(p) => Beats(ElectionOf(p), ElectionOf(roleConfigs[RoleName(p)]))

ReportedNever(p, winner) == Nil

\* What is returned for a claim that does not win: nil if the same ID already
\* claimed the role.
Reported(p, winner) == IF ElectionOf(p) = ElectionOf(winner) THEN Nil ELSE winner

\* Comparing election IDs dereferences both of them.
RecordPanics(s) ==
    /\ At(s, "record") /\ Exclusive
    /\ ComparesNil(call[s].arg)
    /\ Panic

\* The claim becomes the winner of its role.
RecordWinner(s) ==
    LET p == call[s].arg IN
    /\ At(s, "record") /\ Exclusive
    /\ ~ ComparesNil(p) /\ Wins(p)
    /\ roleConfigs' = [r \in DOMAIN roleConfigs \cup {RoleName(p)} |->
                          IF r = RoleName(p) THEN p ELSE roleConfigs[r]]
    /\ SetCall(s, [call[s] EXCEPT !.max = p])
    /\ Goto(s, "rlock")
    /\ UNCHANGED <<received, latchVars, sentCode, queued, responders, connections,
                   writeVars, panicked>>

RecordLoser(s) ==
    LET p == call[s].arg IN
    /\ At(s, "record") /\ Exclusive
    /\ ~ ComparesNil(p) /\ ~ Wins(p)
    /\ SetCall(s, [call[s] EXCEPT !.max = Reported(p, roleConfigs[RoleName(p)])])
    /\ Goto(s, "rlock")
    /\ UNCHANGED <<received, latchVars, sentCode, queued, deviceVars, writeVars, panicked>>

------------------------------------------------------------------------------
\* The rest of RunMastershipArbitration, under the shared lock: find out
\* whether the winner is still connected, then notify every responder.

BeginNotification(s) ==
    /\ At(s, "rlock")
    /\ IF call[s].max = Nil
       THEN /\ SetCall(s, [call[s] EXCEPT !.fail = "INVALID_ARGUMENT"])
            /\ Goto(s, "notify")
       ELSE /\ Goto(s, "check")
            /\ UNCHANGED call
    /\ UNCHANGED <<received, latchVars, sentCode, queued, deviceVars, writeVars, panicked>>

\* streamState.IsMaster compares roles by pointer or name, IDs by value.
SameRole(r, p) ==
    \/ latchedRole[r] = RolePointer(p)
    \/ /\ latchedRole[r] # Nil /\ RolePointer(p) # Nil
       /\ RoleName(latchedRole[r]) = RoleName(p)
IsMaster(r, p, max) == SameRole(r, p) /\ ElectionOf(latchedID[r]) = ElectionOf(max)

\* The responder whose turn it is.
Turn(s) == responders[call[s].next]
HasTurn(s) == call[s].next <= Len(responders)

\* A responder of the role that has no election ID yet cannot be asked.
CheckPanics(s) ==
    /\ At(s, "check") /\ HasTurn(s)
    /\ SameRole(Turn(s), call[s].arg) /\ latchedID[Turn(s)] = Nil
    /\ Panic

CheckResponder(s) ==
    /\ At(s, "check") /\ HasTurn(s)
    /\ SameRole(Turn(s), call[s].arg) => latchedID[Turn(s)] # Nil
    /\ IF IsMaster(Turn(s), call[s].arg, call[s].max)
       THEN /\ SetCall(s, [call[s] EXCEPT !.next = 1, !.fail = "ALREADY_EXISTS"])
            /\ Goto(s, "notify")
       ELSE /\ SetCall(s, [call[s] EXCEPT !.next = @ + 1])
            /\ UNCHANGED pc
    /\ UNCHANGED <<received, latchVars, sentCode, queued, deviceVars, writeVars, panicked>>

\* No responder holds the winning ID.
MasterNotFound(s) ==
    /\ At(s, "check") /\ ~ HasTurn(s)
    /\ SetCall(s, [call[s] EXCEPT !.next = 1])
    /\ Goto(s, "notify")
    /\ UNCHANGED <<received, latchVars, sentCode, queued, deviceVars, writeVars, panicked>>

\* streamState.SendMastershipArbitration: the status for responder r.
StatusByValue(r, p, max, fail) ==
    IF max # Nil /\ latchedID[r] # Nil
       /\ ElectionOf(latchedID[r]) = ElectionOf(max)
    THEN "OK" ELSE fail
Status(r, p, max, fail) ==
    IF latchedID[r] = max /\ latchedRole[r] = RolePointer(p) THEN "OK" ELSE fail

\* The role of r is read twice, before and after the status is allocated; if r
\* latches another one in between it is refused.
Statuses(r, p, max, fail) ==
    {Status(r, p, max, fail)} \cup
    IF pc[r] = "latch" /\ "role" \in call[r].unlatched THEN {fail} ELSE {}

\* The responder is skipped if the role is another one, as a pointer, or if
\* it was sent this code last.
SkipsAfterFirst(r, p, code) == latchedRole[r] # RolePointer(p) \/ sentCode[r] # NoCode
SkipsZeroCode(r, p, code) ==
    \/ latchedRole[r] # RolePointer(p)
    \/ sentCode[r] = code
    \/ sentCode[r] = NoCode /\ code = "OK"
Skips(r, p, code) == latchedRole[r] # RolePointer(p) \/ sentCode[r] = code

NotifyResponder(s) ==
    LET r == Turn(s)
        p == call[s].arg
        max == call[s].max
    IN
    /\ At(s, "notify") /\ HasTurn(s)
    /\ \E code \in Statuses(r, p, max, call[s].fail) :
        IF Skips(r, p, code)
        THEN /\ SetCall(s, [call[s] EXCEPT !.next = @ + 1])
             /\ UNCHANGED <<pc, queued>>
        ELSE /\ queued' = [queued EXCEPT ![r] = Append(@, [code |-> code, max |-> max])]
             /\ SetCall(s, [call[s] EXCEPT !.code = code])
             /\ Goto(s, "mark")
    /\ UNCHANGED <<received, latchVars, sentCode, deviceVars, writeVars, panicked>>

\* sentCode is set after the response was queued, under no exclusive lock.
MarkSent(s) ==
    /\ At(s, "mark")
    /\ sentCode' = [sentCode EXCEPT ![Turn(s)] = call[s].code]
    /\ SetCall(s, [call[s] EXCEPT !.next = @ + 1])
    /\ Goto(s, "notify")
    /\ UNCHANGED <<received, latchVars, queued, deviceVars, writeVars, panicked>>

EndNotification(s) ==
    /\ At(s, "notify") /\ ~ HasTurn(s)
    /\ Goto(s, IF call[s].closing THEN "closed" ELSE "recv")
    /\ SetCall(s, NoCall)
    /\ UNCHANGED <<received, latchVars, sentCode, queued, deviceVars, writeVars, panicked>>

------------------------------------------------------------------------------
\* Server.Write and Server.SetForwardingPipelineConfig: mastership is checked
\* with no lock held, the update applied later under the exclusive lock.

IdleWriter == [role |-> DefaultRole, id |-> Nil]

\* DeviceSimulator.IsMaster returned no error.
HasLostMastership(r, e) ==
    /\ r \in DOMAIN roleConfigs
    /\ ~ Larger(ElectionOf(roleConfigs[r]), e)
HasMastership(r, e) ==
    /\ r \in DOMAIN roleConfigs
    /\ ElectionOf(roleConfigs[r]) = e

\* A call that is refused leaves nothing behind, and has no action.
CheckMastership(w, r, e) ==
    /\ ~ panicked
    /\ writer[w] = IdleWriter
    /\ r \in DOMAIN roleConfigs => roleConfigs[r] # Nil
    /\ HasMastership(r, e)
    /\ writer' = [writer EXCEPT ![w] = [role |-> r, id |-> e]]
    /\ UNCHANGED <<arbitrationVars, deviceVars, applied, panicked>>

CheckMastershipPanics(w, r) ==
    /\ ~ panicked
    /\ writer[w] = IdleWriter
    /\ r \in DOMAIN roleConfigs
    /\ roleConfigs[r] = Nil
    /\ Panic

ApplyWrite(w) ==
    /\ Exclusive
    /\ writer[w] # IdleWriter
    /\ applied' = applied \cup {writer[w]}
    /\ writer' = [writer EXCEPT ![w] = IdleWriter]
    /\ UNCHANGED <<arbitrationVars, deviceVars, panicked>>

\* The unlocked read of the role map meets the write of a handler about to
\* record: the Go runtime ends the process.
MapFault(w) ==
    /\ writer[w] = IdleWriter
    /\ \E s \in Streams :
        /\ At(s, "record") /\ Exclusive
        /\ ~ ComparesNil(call[s].arg) /\ Wins(call[s].arg)
    /\ Panic

------------------------------------------------------------------------------
Init ==
    /\ received = [s \in Streams |-> <<>>]
    /\ pc = [s \in Streams |-> "new"]
    /\ call = [s \in Streams |-> NoCall]
    /\ latchedRole = [s \in Streams |-> Nil]
    /\ latchedID = [s \in Streams |-> Nil]
    /\ sentCode = [s \in Streams |-> NoCode]
    /\ queued = [s \in Streams |-> <<>>]
    /\ responders = <<>>
    /\ connections = <<>>
    /\ roleConfigs = <<>>
    /\ writer = [w \in Writers |-> IdleWriter]
    /\ applied = {}
    /\ panicked = FALSE

\* What the goroutine of stream s does by itself.
Handle(s) ==
    \/ LatchRole(s) \/ LatchElectionID(s)
    \/ RecordPanics(s) \/ RecordWinner(s) \/ RecordLoser(s)
    \/ BeginNotification(s)
    \/ CheckPanics(s)
    \/ CheckResponder(s)
    \/ MasterNotFound(s)
    \/ NotifyResponder(s)
    \/ MarkSent(s)
    \/ EndNotification(s)

\* What its client makes it do.
Client(s) ==
    \/ Open(s)
    \/ Close(s)
    \/ \E r \in Roles, e \in Elections : Receive(s, r, e)

Write(w) ==
    \/ \E r \in Roles, e \in Elections : CheckMastership(w, r, e)
    \/ \E r \in Roles : CheckMastershipPanics(w, r)
    \/ ApplyWrite(w)
    \/ MapFault(w)

Next ==
    \/ \E s \in Streams : Handle(s) \/ Client(s)
    \/ \E w \in Writers : Write(w)

Spec == Init /\ [][Next]_vars

\* The Go scheduler runs every goroutine; a pending exclusive lock of ds.lock
\* keeps new readers out.  Clients owe nothing.
Fairness == \A s \in Streams : WF_vars(Handle(s))
LiveSpec == Spec /\ Fairness

------------------------------------------------------------------------------
\* Properties.

PointersOrNil == Pointers \cup {Nil}

Calls == [arg : PointersOrNil, max : PointersOrNil, closing : BOOLEAN,
          unlatched : SUBSET Fields, next : Nat \ {0},
          fail : Codes \ {"OK"}, code : Codes]

Labels == {"new", "recv", "latch", "record", "rlock", "check", "notify",
           "mark", "closed"}

\* The pointer leads to a message that was received.
Valid(p) == p = Nil \/ (p \in Pointers /\ p[2] <= Len(received[p[1]]))

\* Type invariant: every variable has its type, and no pointer dangles.
TypeOK ==
    /\ received \in [Streams -> Seq(Messages)]
    /\ pc \in [Streams -> Labels]
    /\ call \in [Streams -> Calls]
    /\ latchedRole \in [Streams -> PointersOrNil]
    /\ latchedID \in [Streams -> PointersOrNil]
    /\ sentCode \in [Streams -> Codes \cup {NoCode}]
    /\ queued \in [Streams -> Seq([code : Codes, max : PointersOrNil])]
    /\ responders \in Seq(Streams)
    /\ connections \in Seq({Address[s] : s \in Streams})
    /\ DOMAIN roleConfigs \subseteq Roles
    /\ \A r \in DOMAIN roleConfigs : Valid(roleConfigs[r])
    /\ \A s \in Streams :
        /\ Valid(call[s].arg) /\ Valid(call[s].max)
        /\ Valid(latchedRole[s]) /\ Valid(latchedID[s])
        /\ \A i \in 1..Len(queued[s]) : Valid(queued[s][i].max)
    /\ writer \in [Writers -> Messages \cup {IdleWriter}]
    /\ applied \subseteq Messages
    /\ panicked \in BOOLEAN

\* Message n of stream s has not been through RecordRoleElection yet.
Pending(s, n) ==
    /\ pc[s] \in {"latch", "record"}
    /\ ~ call[s].closing
    /\ n = Len(received[s])

\* A claim that was received and has been through RecordRoleElection.
RecordedClaim(p) == p # Nil /\ Valid(p) /\ ~ Pending(p[1], p[2])

\* Some stream recorded this role and election.
WasRecorded(m) ==
    \E s \in Streams : \E n \in 1..Len(received[s]) :
        ~ Pending(s, n) /\ received[s][n] = m

\* The role of the claim has a winner, no lower than the claim.
HasWinner(p) ==
    /\ RoleName(p) \in DOMAIN roleConfigs
    /\ roleConfigs[RoleName(p)] # Nil
    /\ ~ Larger(ElectionOf(p), ElectionOf(roleConfigs[RoleName(p)]))

\* Once a claim went through RecordRoleElection its role has a winner no lower
\* than the claim, whatever the handlers did in between and whoever left.
WinnerIsHighest ==
    \A s \in Streams : \A n \in 1..Len(received[s]) :
        ~ Pending(s, n) => HasWinner(<<s, n>>)

\* The OKs that name an election.  The code also sends OKs with a nil election
\* ID; those name none.
Oks ==
    {ok \in [stream : Streams, role : Roles, id : Elections] :
        \E i \in 1..Len(queued[ok.stream]) :
            /\ queued[ok.stream][i].code = "OK"
            /\ queued[ok.stream][i].max # Nil
            /\ Message(queued[ok.stream][i].max) = [role |-> ok.role, id |-> ok.id]}

\* Two streams are never both told OK for the same election of the same role,
\* even if both sent it and however their notifications interleave.
OneOkPerElection ==
    \A a, b \in Oks : a.role = b.role /\ a.id = b.id => a.stream = b.stream

Highest ==
    [r \in Roles |-> IF r \in DOMAIN roleConfigs /\ roleConfigs[r] # Nil
                     THEN ElectionOf(roleConfigs[r]) ELSE Nil]

Abstract == INSTANCE ElectionService WITH None <- Nil, highest <- Highest, oks <- Oks

\* Arbitration implements the abstract service: recorded elections only grow,
\* and OK is given to one stream per election, never above the recorded one.
ImplementsElectionService == Abstract!Spec

\* The device lists one connection for each registered responder, with its
\* address, although connections are removed by address and one client may
\* have several streams; and the responders are the streams being served.
ConnectionsMatchResponders ==
    /\ IsInjective(responders)
    /\ ToSet(responders) =
        {s \in Streams : pc[s] \notin {"new", "closed"} /\ ~ call[s].closing}
    /\ \A a \in ToSet(connections) \cup {Address[s] : s \in ToSet(responders)} :
        Cardinality({i \in DOMAIN connections : connections[i] = a}) =
        Cardinality({i \in DOMAIN responders : Address[responders[i]] = a})

\* A Write that reached the pipeline carried an election that some stream had
\* recorded for the role, and that the role's winner has not fallen below.
WritesWereMasters ==
    \A w \in applied :
        /\ WasRecorded(w)
        /\ w.role \in DOMAIN roleConfigs
        /\ ~ Larger(w.id, ElectionOf(roleConfigs[w.role]))

AtRest == ~ panicked /\ \A s \in Streams : pc[s] \in {"new", "recv", "closed"}

\* Stream s is served, and the election it latched is the recorded one.
Holds(s, r) ==
    /\ pc[s] = "recv"
    /\ r \in DOMAIN roleConfigs
    /\ roleConfigs[r] # Nil
    /\ latchedID[s] = roleConfigs[r]

LastCode(s) == IF queued[s] = <<>> THEN NoCode ELSE Last(queued[s]).code

\* When no arbitration is running, the stream that holds the recorded election
\* was last told OK (core.go:77).
HolderWasToldOk ==
    AtRest => \A s \in Streams, r \in Roles : Holds(s, r) => LastCode(s) = "OK"

\* When no arbitration is running, a stream that arbitrated for a role and does
\* not hold it was last told something else than OK.
OthersWereToldNo ==
    AtRest => \A s \in Streams :
        /\ pc[s] = "recv" /\ received[s] # <<>>
        /\ \A r \in Roles : ~ Holds(s, r)
        => LastCode(s) # "OK"

\* The handler of stream s has come to the end of its responders.
HasNotified(s) == pc[s] = "notify" /\ ~ HasTurn(s)

\* The status of the claim that s handles, for s itself.
OwnStatus(s) == Status(s, call[s].arg, call[s].max, call[s].fail)

\* Every claim is handled to its end, unless the process is gone, and its stream has
\* been told the claim's own status by then, whoever else notified the stream
\* meanwhile.  Not always in a response to the claim: if sentCode is that status,
\* on account of another stream even, none follows (p4runtime.go:153).  Nor is it
\* always the last that the stream was told: sentCode is set by several handlers
\* without a lock, and may be older than the last response.
ClaimIsToldItsStatus ==
    \A s \in Streams :
        pc[s] = "latch" ~>
            \/ /\ HasNotified(s)
               /\ \E i \in 1..Len(queued[s]) : queued[s][i].code = OwnStatus(s)
            \/ panicked

------------------------------------------------------------------------------
\* The inductive invariant behind WinnerIsHighest, OneOkPerElection,
\* WritesWereMasters and ImplementsElectionService, from its parts.

\* A goroutine that has not recorded its claim works on the last message of
\* its stream; only Close works on an older one.
PendingIsLast ==
    \A s \in Streams :
        /\ call[s].arg # Nil => call[s].arg[1] = s
        /\ pc[s] \in {"new", "recv", "latch"} => ~ call[s].closing
        /\ pc[s] \in {"latch", "record"} /\ ~ call[s].closing =>
               call[s].arg # Nil /\ call[s].arg[2] = Len(received[s])

\* A stream latches its own messages only.
LatchIsOwn == \A s \in Streams : latchedID[s] # Nil => latchedID[s][1] = s

\* The winning pointers the code still works with or has sent.
Winners ==
    {roleConfigs[r] : r \in DOMAIN roleConfigs}
    \cup {call[s].max : s \in Streams}
    \cup UNION {{queued[s][i].max : i \in 1..Len(queued[s])} : s \in Streams}

\* Only claims that were recorded win, each for its own role; a nil election
\* ID can be found for the default role only.
WinnersWereRecorded ==
    /\ \A p \in Winners : p # Nil => RecordedClaim(p)
    /\ \A r \in DOMAIN roleConfigs :
        IF roleConfigs[r] = Nil THEN r = DefaultRole ELSE RoleName(roleConfigs[r]) = r

\* A role and an election have one winning pointer.
WinnersAreUnique ==
    \A p, q \in Winners \ {Nil} : Message(p) = Message(q) => p = q

\* OK goes to the stream whose message won.
OkIsOwn ==
    \A s \in Streams : \A i \in 1..Len(queued[s]) :
        queued[s][i].code = "OK" /\ queued[s][i].max # Nil => queued[s][i].max[1] = s

\* Every Write under way or applied carries an election that was recorded.
WritesWereRecorded ==
    \A w \in applied \cup {writer[x] : x \in Writers} :
        w # IdleWriter => WasRecorded(w)

\* The inductive invariant: every pointer that RecordRoleElection returned
\* (device.go:295), wherever a handler, a response or the role map still keeps
\* it, leads to the one message that claimed that election, and only the stream
\* that sent the message was told OK for it.
IInv ==
    /\ TypeOK
    /\ PendingIsLast
    /\ LatchIsOwn
    /\ WinnerIsHighest
    /\ WinnersWereRecorded
    /\ WinnersAreUnique
    /\ OkIsOwn
    /\ WritesWereRecorded
==============================================================================
