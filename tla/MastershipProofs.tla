-------------------------- MODULE MastershipProofs ---------------------------
(***************************************************************************)
(* Theorems about Mastership, for any number of streams, roles, elections, *)
(* writers and messages.                                                   *)
(***************************************************************************)
EXTENDS MastershipTurns, ListLemmas

------------------------------------------------------------------------------
\* Pointers stay valid and keep pointing to the same message.

\* What leads to a received message is a pointer.
LEMMA PointerType ==
    ASSUME TypeOK, NEW p, Valid(p), p # Nil
    PROVE  /\ p \in Pointers
           /\ p[1] \in Streams
           /\ p[2] \in 1..Len(received[p[1]])
           /\ Message(p) \in Messages
           /\ RoleName(p) \in Roles
           /\ ElectionOf(p) \in Elections
  <1>1. p \in Pointers /\ p[2] <= Len(received[p[1]])
    BY DEF Valid
  <1>2. p[1] \in Streams /\ p[2] \in Nat \ {0}
    BY <1>1 DEF Pointers
  <1>3. received[p[1]] \in Seq(Messages)
    BY <1>2 DEF TypeOK
  <1>4. p[2] \in 1..Len(received[p[1]])
    BY <1>1, <1>2, <1>3
  <1>5. Message(p) \in Messages
    BY <1>3, <1>4 DEF Message
  <1> QED
    BY <1>1, <1>2, <1>4, <1>5 DEF Messages, RoleName, ElectionOf

\* Pointers come into being with the messages of StreamChannel only.
LEMMA OnlyReceiveAllocates ==
    ASSUME [Next]_vars
    PROVE  UNCHANGED received \/ \E s \in Streams, r \in Roles, e \in Elections : Receive(s, r, e)
  BY DEF Next, Handle, Client, Write, Open, Close, Latched, LatchRole, LatchElectionID,
         RecordPanics, RecordWinner, RecordLoser, BeginNotification, CheckPanics,
         CheckResponder, MasterNotFound, NotifyResponder, MarkSent, EndNotification,
         CheckMastership, CheckMastershipPanics, ApplyWrite, MapFault, Panic,
         vars, arbitrationVars

\* A received message is one more pointer, and leaves the others where they lead.
LEMMA ReceiveAllocates ==
    ASSUME TypeOK, NEW s \in Streams, NEW r \in Roles, NEW e \in Elections, Receive(s, r, e)
    PROVE  /\ received' \in [Streams -> Seq(Messages)]
           /\ Len(received[s]) \in Nat
           /\ Len(received'[s]) = Len(received[s]) + 1
           /\ \A t \in Streams \ {s} : received'[t] = received[t]
           /\ \A t \in Streams : \A n \in 1..Len(received[t]) : received'[t][n] = received[t][n]
  <1>1. received[s] \in Seq(Messages) /\ [role |-> r, id |-> e] \in Messages
    BY DEF TypeOK, Messages
  <1>2. received' = [received EXCEPT ![s] = Append(received[s], [role |-> r, id |-> e])]
    BY DEF Receive
  <1> QED
    BY <1>1, <1>2 DEF TypeOK

\* A pointer that leads to a message always leads to that message.
LEMMA HeapGrows ==
    ASSUME TypeOK, [Next]_vars, NEW p, Valid(p)
    PROVE  /\ Valid(p)'
           /\ p # Nil => Message(p)' = Message(p)
  <1>1. CASE UNCHANGED received
    BY <1>1 DEF Valid, Message
  <1>2. CASE \E s \in Streams, r \in Roles, e \in Elections : Receive(s, r, e)
    <2>1. PICK s \in Streams, r \in Roles, e \in Elections : Receive(s, r, e)
      BY <1>2
    <2>2. p # Nil => p \in Pointers /\ p[1] \in Streams /\ p[2] \in 1..Len(received[p[1]])
      BY PointerType
    <2> QED
      BY <2>1, <2>2, ReceiveAllocates DEF Valid, Message
  <1> QED
    BY <1>1, <1>2, OnlyReceiveAllocates

------------------------------------------------------------------------------
\* Type correctness.

\* Only the locals of one call and the label of one goroutine are replaced.
LEMMA SetCallType ==
    ASSUME TypeOK, NEW s \in Streams, NEW c \in Calls, Valid(c.arg), Valid(c.max),
           SetCall(s, c)
    PROVE  /\ call' \in [Streams -> Calls]
           /\ \A t \in Streams : Valid(call'[t].arg) /\ Valid(call'[t].max)
  BY DEF TypeOK, SetCall

\* A handler moves to another label.
LEMMA GotoType ==
    ASSUME TypeOK, NEW s \in Streams, NEW label \in Labels, Goto(s, label)
    PROVE  pc' \in [Streams -> Labels]
  BY DEF TypeOK, Goto

\* The updates of the locals keep their types.
LEMMA SetArgClosing ==
    ASSUME TypeOK, NEW s \in Streams, NEW p \in PointersOrNil, Valid(p),
           SetCall(s, [call[s] EXCEPT !.arg = p, !.closing = TRUE])
    PROVE  /\ call' \in [Streams -> Calls]
           /\ \A t \in Streams : Valid(call'[t].arg) /\ Valid(call'[t].max)
  <1> DEFINE c == [call[s] EXCEPT !.arg = p, !.closing = TRUE]
  <1>1. call[s] \in Calls /\ Valid(call[s].arg) /\ Valid(call[s].max)
    BY DEF TypeOK
  <1>2. c \in Calls /\ Valid(c.arg) /\ Valid(c.max)
    BY <1>1 DEF Calls
  <1> HIDE DEF c
  <1>3. SetCall(s, c)
    BY DEF c
  <1> QED
    BY <1>2, <1>3, SetCallType

\* RecordRoleElection returns the winner to the call.
LEMMA SetMax ==
    ASSUME TypeOK, NEW s \in Streams, NEW p \in PointersOrNil, Valid(p),
           SetCall(s, [call[s] EXCEPT !.max = p])
    PROVE  /\ call' \in [Streams -> Calls]
           /\ \A t \in Streams : Valid(call'[t].arg) /\ Valid(call'[t].max)
  <1> DEFINE c == [call[s] EXCEPT !.max = p]
  <1>1. call[s] \in Calls /\ Valid(call[s].arg) /\ Valid(call[s].max)
    BY DEF TypeOK
  <1>2. c \in Calls /\ Valid(c.arg) /\ Valid(c.max)
    BY <1>1 DEF Calls
  <1> HIDE DEF c
  <1>3. SetCall(s, c)
    BY DEF c
  <1> QED
    BY <1>2, <1>3, SetCallType

\* A notification moves on to the next responder.
LEMMA SetNext ==
    ASSUME TypeOK, NEW s \in Streams, NEW n \in Nat \ {0},
           SetCall(s, [call[s] EXCEPT !.next = n])
    PROVE  /\ call' \in [Streams -> Calls]
           /\ \A t \in Streams : Valid(call'[t].arg) /\ Valid(call'[t].max)
  <1> DEFINE c == [call[s] EXCEPT !.next = n]
  <1>1. call[s] \in Calls /\ Valid(call[s].arg) /\ Valid(call[s].max)
    BY DEF TypeOK
  <1>2. c \in Calls /\ Valid(c.arg) /\ Valid(c.max)
    BY <1>1 DEF Calls
  <1> HIDE DEF c
  <1>3. SetCall(s, c)
    BY DEF c
  <1> QED
    BY <1>2, <1>3, SetCallType

\* A notification starts with the first responder and the failure status of the call.
LEMMA SetNextFail ==
    ASSUME TypeOK, NEW s \in Streams, NEW n \in Nat \ {0}, NEW f \in Codes \ {"OK"},
           SetCall(s, [call[s] EXCEPT !.next = n, !.fail = f])
    PROVE  /\ call' \in [Streams -> Calls]
           /\ \A t \in Streams : Valid(call'[t].arg) /\ Valid(call'[t].max)
  <1> DEFINE c == [call[s] EXCEPT !.next = n, !.fail = f]
  <1>1. call[s] \in Calls /\ Valid(call[s].arg) /\ Valid(call[s].max)
    BY DEF TypeOK
  <1>2. c \in Calls /\ Valid(c.arg) /\ Valid(c.max)
    BY <1>1 DEF Calls
  <1> HIDE DEF c
  <1>3. SetCall(s, c)
    BY DEF c
  <1> QED
    BY <1>2, <1>3, SetCallType

\* The failure status of a call changes.
LEMMA SetFail ==
    ASSUME TypeOK, NEW s \in Streams, NEW f \in Codes \ {"OK"},
           SetCall(s, [call[s] EXCEPT !.fail = f])
    PROVE  /\ call' \in [Streams -> Calls]
           /\ \A t \in Streams : Valid(call'[t].arg) /\ Valid(call'[t].max)
  <1> DEFINE c == [call[s] EXCEPT !.fail = f]
  <1>1. call[s] \in Calls /\ Valid(call[s].arg) /\ Valid(call[s].max)
    BY DEF TypeOK
  <1>2. c \in Calls /\ Valid(c.arg) /\ Valid(c.max)
    BY <1>1 DEF Calls
  <1> HIDE DEF c
  <1>3. SetCall(s, c)
    BY DEF c
  <1> QED
    BY <1>2, <1>3, SetCallType

\* The status of the message being sent changes.
LEMMA SetCode ==
    ASSUME TypeOK, NEW s \in Streams, NEW f \in Codes,
           SetCall(s, [call[s] EXCEPT !.code = f])
    PROVE  /\ call' \in [Streams -> Calls]
           /\ \A t \in Streams : Valid(call'[t].arg) /\ Valid(call'[t].max)
  <1> DEFINE c == [call[s] EXCEPT !.code = f]
  <1>1. call[s] \in Calls /\ Valid(call[s].arg) /\ Valid(call[s].max)
    BY DEF TypeOK
  <1>2. c \in Calls /\ Valid(c.arg) /\ Valid(c.max)
    BY <1>1 DEF Calls
  <1> HIDE DEF c
  <1>3. SetCall(s, c)
    BY DEF c
  <1> QED
    BY <1>2, <1>3, SetCallType

\* One field less is left to latch (LatchMastershipArbitration).
LEMMA SetUnlatched ==
    ASSUME TypeOK, NEW s \in Streams, NEW F \in SUBSET Fields,
           SetCall(s, [call[s] EXCEPT !.unlatched = F])
    PROVE  /\ call' \in [Streams -> Calls]
           /\ \A t \in Streams : Valid(call'[t].arg) /\ Valid(call'[t].max)
  <1> DEFINE c == [call[s] EXCEPT !.unlatched = F]
  <1>1. call[s] \in Calls /\ Valid(call[s].arg) /\ Valid(call[s].max)
    BY DEF TypeOK
  <1>2. c \in Calls /\ Valid(c.arg) /\ Valid(c.max)
    BY <1>1 DEF Calls
  <1> HIDE DEF c
  <1>3. SetCall(s, c)
    BY DEF c
  <1> QED
    BY <1>2, <1>3, SetCallType

\* Every variable keeps its type and every pointer leads to a message.
LEMMA TypeStep ==
    ASSUME TypeOK, [Next]_vars
    PROVE  TypeOK'
  <1> USE MastershipAssumption
  <1>a. \A p : Valid(p) => Valid(p)'
    BY HeapGrows
  <1>b. \A p : Valid(p) => p \in PointersOrNil
    BY DEF Valid, PointersOrNil
  <1>c. \A s \in Streams : call[s] \in Calls /\ Valid(call[s].arg) /\ Valid(call[s].max)
    BY DEF TypeOK
  <1>d. \A label \in {"recv", "latch", "record", "rlock", "check", "notify", "mark", "closed"} :
            label \in Labels
    BY DEF Labels
  <1>1. ASSUME NEW s \in Streams, Open(s)
        PROVE  TypeOK'
    <2>1. pc' \in [Streams -> Labels]
      BY <1>1, <1>d, GotoType DEF Open
    <2>2. responders' \in Seq(Streams)
      BY <1>1 DEF Open, TypeOK
    <2>3. connections' \in Seq({Address[t] : t \in Streams})
      BY <1>1 DEF Open, TypeOK
    <2> QED
      BY <1>1, <1>a, <2>1, <2>2, <2>3 DEF Open, TypeOK, latchVars, writeVars
  <1>2. ASSUME NEW s \in Streams, Close(s)
        PROVE  TypeOK'
    <2>1. responders' \in Seq(Streams)
      BY <1>2, RemoveFirstType DEF Close, TypeOK
    <2>2. connections' \in Seq({Address[t] : t \in Streams})
      BY <1>2, RemoveFirstType DEF Close, RemoveOne, TypeOK
    <2>3. pc' \in [Streams -> Labels]
      BY <1>2, <1>d, GotoType DEF Close
    <2>4. latchedID[s] \in PointersOrNil /\ Valid(latchedID[s])
      BY DEF TypeOK
    <2>5. /\ call' \in [Streams -> Calls]
          /\ \A t \in Streams : Valid(call'[t].arg) /\ Valid(call'[t].max)
      BY <1>2, <2>4, SetArgClosing DEF Close
    <2> QED
      BY <1>2, <1>a, <2>1, <2>2, <2>3, <2>5 DEF Close, TypeOK, latchVars, writeVars
  <1>3. ASSUME NEW s \in Streams, NEW r \in Roles, NEW e \in Elections, Receive(s, r, e)
        PROVE  TypeOK'
    <2>a. received[s] \in Seq(Messages) /\ [role |-> r, id |-> e] \in Messages
      BY DEF TypeOK, Messages
    <2>b. received' = [received EXCEPT ![s] = Append(received[s], [role |-> r, id |-> e])]
      BY <1>3 DEF Receive
    <2>1. received' \in [Streams -> Seq(Messages)]
      BY <2>a, <2>b DEF TypeOK
    <2>2. pc' \in [Streams -> Labels]
      <3>1. Goto(s, "latch")
        BY <1>3 DEF Receive
      <3> QED
        BY <3>1, <1>d, GotoType
    <2>3. PICK p \in Pointers : p = Arrival(s) /\ p[1] = s /\ p[2] = Len(received[s]) + 1
      <3>1. Len(received[s]) + 1 \in Nat \ {0}
        BY <2>a
      <3>2. Arrival(s) \in Pointers
        BY <3>1 DEF Pointers, Arrival
      <3> QED
        BY <3>2 DEF Arrival
    <2>4. Valid(p)'
      <3>1. Len(received'[s]) = Len(received[s]) + 1 /\ Len(received[s]) \in Nat
        BY <2>a, <2>b DEF TypeOK
      <3> QED
        BY <2>3, <3>1 DEF Valid
    <2>5. PICK c \in Calls :
             /\ c = [call[s] EXCEPT !.arg = p, !.unlatched = FieldsToWrite(s, r)]
             /\ c.arg = p
             /\ c.max = call[s].max
      <3>1. FieldsToWrite(s, r) \in SUBSET Fields
        BY DEF FieldsToWrite, Fields
      <3>2. [call[s] EXCEPT !.arg = p, !.unlatched = FieldsToWrite(s, r)] \in Calls
        BY <1>c, <3>1 DEF Calls, PointersOrNil
      <3> QED
        BY <1>c, <3>2 DEF Calls
    <2>6. call' = [call EXCEPT ![s] = c]
      BY <1>3, <2>3, <2>5 DEF Receive, SetCall
    <2>7. call' \in [Streams -> Calls]
      BY <2>6 DEF TypeOK
    <2>8. \A t \in Streams : Valid(call[t].arg)' /\ Valid(call[t].max)'
      BY <1>a, <1>c, <2>4, <2>5, <2>6 DEF TypeOK
    <2>9. UNCHANGED <<latchedRole, latchedID, sentCode, queued, responders, connections,
                      roleConfigs, writer, applied, panicked>>
      BY <1>3 DEF Receive, latchVars, deviceVars, writeVars
    <2> QED
      BY <1>a, <2>1, <2>2, <2>7, <2>8, <2>9 DEF TypeOK
  <1>4. ASSUME NEW s \in Streams, Latched(s, "role") \/ Latched(s, "electionID")
        PROVE  /\ pc' \in [Streams -> Labels]
               /\ call' \in [Streams -> Calls]
               /\ \A t \in Streams : Valid(call'[t].arg) /\ Valid(call'[t].max)
    <2>1. PICK field \in Fields : Latched(s, field)
      BY <1>4 DEF Fields
    <2>2. call[s].unlatched \ {field} \in SUBSET Fields
      BY <1>c DEF Calls
    <2>3. SetCall(s, [call[s] EXCEPT !.unlatched = call[s].unlatched \ {field}])
      BY <2>1 DEF Latched
    <2>4. \E label \in {"latch", "record"} : Goto(s, label)
      BY <2>1 DEF Latched
    <2>5. pc' \in [Streams -> Labels]
      BY <1>d, <2>4, GotoType
    <2> QED
      BY <2>2, <2>3, <2>5, SetUnlatched
  <1>5. ASSUME NEW s \in Streams, LatchRole(s)
        PROVE  TypeOK'
    <2>1. Valid(RolePointer(call[s].arg))
      BY <1>c DEF RolePointer, Valid
    <2>2. /\ latchedRole' \in [Streams -> PointersOrNil]
          /\ \A t \in Streams : Valid(latchedRole'[t])
      BY <1>5, <1>b, <2>1 DEF LatchRole, TypeOK
    <2> QED
      BY <1>4, <1>5, <1>a, <2>2 DEF LatchRole, Latched, TypeOK, deviceVars, writeVars
  <1>6. ASSUME NEW s \in Streams, LatchElectionID(s)
        PROVE  TypeOK'
    <2>1. /\ latchedID' \in [Streams -> PointersOrNil]
          /\ \A t \in Streams : Valid(latchedID'[t])
      BY <1>6, <1>b, <1>c DEF LatchElectionID, TypeOK
    <2> QED
      BY <1>4, <1>6, <1>a, <2>1 DEF LatchElectionID, Latched, TypeOK, deviceVars, writeVars
  <1>7. ASSUME NEW s \in Streams, RecordWinner(s)
        PROVE  TypeOK'
    <2>1. RoleName(call[s].arg) \in Roles
      BY <1>c, PointerType DEF RoleName
    <2>2. /\ DOMAIN roleConfigs' \subseteq Roles
          /\ \A r \in DOMAIN roleConfigs' : Valid(roleConfigs'[r])
      BY <1>7, <1>c, <2>1 DEF RecordWinner, TypeOK
    <2>3. pc' \in [Streams -> Labels]
      BY <1>7, <1>d, GotoType DEF RecordWinner
    <2>4. /\ call' \in [Streams -> Calls]
          /\ \A t \in Streams : Valid(call'[t].arg) /\ Valid(call'[t].max)
      BY <1>7, <1>b, <1>c, SetMax DEF RecordWinner
    <2> QED
      BY <1>7, <1>a, <2>2, <2>3, <2>4 DEF RecordWinner, TypeOK, latchVars, writeVars
  <1>8. ASSUME NEW s \in Streams, RecordLoser(s)
        PROVE  TypeOK'
    <2> DEFINE p == call[s].arg
    <2>1. RoleName(p) \in DOMAIN roleConfigs
      BY <1>8 DEF RecordLoser, Wins, FirstClaim
    <2>2. Valid(roleConfigs[RoleName(p)])
      BY <2>1 DEF TypeOK
    <2>3. Valid(Reported(p, roleConfigs[RoleName(p)]))
      BY <2>2 DEF Reported, Valid
    <2>4. pc' \in [Streams -> Labels]
      BY <1>8, <1>d, GotoType DEF RecordLoser
    <2>5. /\ call' \in [Streams -> Calls]
          /\ \A t \in Streams : Valid(call'[t].arg) /\ Valid(call'[t].max)
      BY <1>8, <1>b, <2>3, SetMax DEF RecordLoser
    <2> QED
      BY <1>8, <1>a, <2>4, <2>5 DEF RecordLoser, TypeOK, latchVars, deviceVars, writeVars
  <1>9. ASSUME NEW s \in Streams, BeginNotification(s)
        PROVE  TypeOK'
    <2>1. pc' \in [Streams -> Labels]
      BY <1>9, <1>d, GotoType DEF BeginNotification
    <2>2. /\ call' \in [Streams -> Calls]
          /\ \A t \in Streams : Valid(call'[t].arg) /\ Valid(call'[t].max)
      <3>1. CASE UNCHANGED call
        BY <3>1, <1>c DEF TypeOK
      <3>2. CASE SetCall(s, [call[s] EXCEPT !.fail = "INVALID_ARGUMENT"])
        BY <3>2, SetFail DEF Codes
      <3> QED
        BY <1>9, <3>1, <3>2 DEF BeginNotification
    <2> QED
      BY <1>9, <1>a, <2>1, <2>2 DEF BeginNotification, TypeOK, latchVars, deviceVars, writeVars
  <1>10. ASSUME NEW s \in Streams, CheckResponder(s)
         PROVE  TypeOK'
    <2>1. pc' \in [Streams -> Labels]
      BY <1>10, <1>d, GotoType DEF CheckResponder, TypeOK
    <2>2. /\ call' \in [Streams -> Calls]
          /\ \A t \in Streams : Valid(call'[t].arg) /\ Valid(call'[t].max)
      <3>1. call[s].next + 1 \in Nat \ {0}
        BY <1>c DEF Calls
      <3>2. CASE SetCall(s, [call[s] EXCEPT !.next = 1, !.fail = "ALREADY_EXISTS"])
        <4>1. 1 \in Nat \ {0} /\ "ALREADY_EXISTS" \in Codes
          BY DEF Codes
        <4> QED
          BY <3>2, <4>1, SetNextFail
      <3>3. CASE SetCall(s, [call[s] EXCEPT !.next = call[s].next + 1])
        BY <3>1, <3>3, SetNext
      <3> QED
        BY <1>10, <3>2, <3>3 DEF CheckResponder
    <2> QED
      BY <1>10, <1>a, <2>1, <2>2 DEF CheckResponder, TypeOK, latchVars, deviceVars, writeVars
  <1>11. ASSUME NEW s \in Streams, MasterNotFound(s)
         PROVE  TypeOK'
    <2>1. pc' \in [Streams -> Labels]
      BY <1>11, <1>d, GotoType DEF MasterNotFound
    <2>2. /\ call' \in [Streams -> Calls]
          /\ \A t \in Streams : Valid(call'[t].arg) /\ Valid(call'[t].max)
      BY <1>11, SetNext DEF MasterNotFound
    <2> QED
      BY <1>11, <1>a, <2>1, <2>2 DEF MasterNotFound, TypeOK, latchVars, deviceVars, writeVars
  <1>12. ASSUME NEW s \in Streams, NotifyResponder(s)
         PROVE  TypeOK'
    <2>0. PICK code \in Statuses(Turn(s), call[s].arg, call[s].max, call[s].fail) :
              IF Skips(Turn(s), call[s].arg, code)
              THEN /\ SetCall(s, [call[s] EXCEPT !.next = call[s].next + 1])
                   /\ UNCHANGED queued
              ELSE /\ queued' = [queued EXCEPT ![Turn(s)] =
                                   Append(queued[Turn(s)], [code |-> code, max |-> call[s].max])]
                   /\ SetCall(s, [call[s] EXCEPT !.code = code])
      BY <1>12 DEF NotifyResponder
    <2> DEFINE r == Turn(s)
    <2>1. pc' \in [Streams -> Labels]
      BY <1>12, <1>d, GotoType DEF NotifyResponder, TypeOK
    <2>2. r \in Streams
      BY <1>12, <1>c DEF NotifyResponder, Turn, HasTurn, TypeOK, Calls
    <2>3. code \in Codes
      BY <1>c, <2>0 DEF Statuses, Status, Calls, Codes
    <2> HIDE DEF r
    <2>4. /\ call' \in [Streams -> Calls]
          /\ \A t \in Streams : Valid(call'[t].arg) /\ Valid(call'[t].max)
      <3>1. call[s].next + 1 \in Nat \ {0}
        BY <1>c DEF Calls
      <3>2. CASE SetCall(s, [call[s] EXCEPT !.code = code])
        BY <2>3, <3>2, SetCode
      <3>3. CASE SetCall(s, [call[s] EXCEPT !.next = call[s].next + 1])
        BY <3>1, <3>3, SetNext
      <3> QED
        BY <2>0, <3>2, <3>3 DEF r
    <2>5. /\ queued' \in [Streams -> Seq([code : Codes, max : PointersOrNil])]
          /\ \A t \in Streams : \A i \in 1..Len(queued'[t]) : Valid(queued'[t][i].max)
      <3> DEFINE response == [code |-> code, max |-> call[s].max]
      <3>1. CASE queued' = [queued EXCEPT ![r] = Append(queued[r], response)]
        <4>1. response \in [code : Codes, max : PointersOrNil] /\ Valid(response.max)
          BY <1>c, <2>3 DEF Calls
        <4>2. queued[r] \in Seq([code : Codes, max : PointersOrNil])
          BY <2>2 DEF TypeOK
        <4> HIDE DEF response
        <4>3. Append(queued[r], response) \in Seq([code : Codes, max : PointersOrNil])
          BY <4>1, <4>2
        <4>4. \A i \in 1..Len(Append(queued[r], response)) :
                  Valid(Append(queued[r], response)[i].max)
          <5>1. \A i \in 1..Len(queued[r]) : Valid(queued[r][i].max)
            BY <2>2 DEF TypeOK
          <5>2. ASSUME NEW i \in 1..(Len(queued[r]) + 1)
                PROVE  Append(queued[r], response)[i] =
                           IF i \in 1..Len(queued[r]) THEN queued[r][i] ELSE response
            BY <4>2
          <5>3. Len(Append(queued[r], response)) = Len(queued[r]) + 1
            BY <4>2
          <5> QED
            BY <4>1, <5>1, <5>2, <5>3
        <4> QED
          BY <2>2, <3>1, <4>3, <4>4 DEF TypeOK
      <3>2. CASE UNCHANGED queued
        BY <3>2 DEF TypeOK
      <3> QED
        BY <2>0, <3>1, <3>2 DEF r
    <2> QED
      BY <1>12, <1>a, <2>1, <2>4, <2>5
      DEF NotifyResponder, TypeOK, latchVars, deviceVars, writeVars
  <1>13. ASSUME NEW s \in Streams, MarkSent(s)
         PROVE  TypeOK'
    <2>1. pc' \in [Streams -> Labels]
      BY <1>13, <1>d, GotoType DEF MarkSent
    <2>2. /\ call' \in [Streams -> Calls]
          /\ \A t \in Streams : Valid(call'[t].arg) /\ Valid(call'[t].max)
      <3>1. call[s].next + 1 \in Nat \ {0}
        BY <1>c DEF Calls
      <3> QED
        BY <1>13, <3>1, SetNext DEF MarkSent
    <2>3. sentCode' \in [Streams -> Codes \cup {NoCode}]
      BY <1>13, <1>c DEF MarkSent, TypeOK, Calls
    <2> QED
      BY <1>13, <1>a, <2>1, <2>2, <2>3 DEF MarkSent, TypeOK, latchVars, deviceVars, writeVars
  <1>14. ASSUME NEW s \in Streams, EndNotification(s)
         PROVE  TypeOK'
    <2>1. pc' \in [Streams -> Labels]
      BY <1>14, <1>d, GotoType DEF EndNotification
    <2>2. NoCall \in Calls /\ Valid(NoCall.arg) /\ Valid(NoCall.max)
      BY DEF NoCall, Calls, PointersOrNil, Codes, Fields, Valid
    <2>3. /\ call' \in [Streams -> Calls]
          /\ \A t \in Streams : Valid(call'[t].arg) /\ Valid(call'[t].max)
      BY <1>14, <2>2, SetCallType DEF EndNotification
    <2> QED
      BY <1>14, <1>a, <2>1, <2>3 DEF EndNotification, TypeOK, latchVars, deviceVars, writeVars
  <1>15. ASSUME NEW w \in Writers, NEW r \in Roles, NEW e \in Elections,
                CheckMastership(w, r, e)
         PROVE  TypeOK'
    <2>1. writer' \in [Writers -> Messages \cup {IdleWriter}]
      BY <1>15 DEF CheckMastership, TypeOK, Messages
    <2> QED
      BY <1>15, <1>a, <2>1
      DEF CheckMastership, TypeOK, arbitrationVars, latchVars, deviceVars
  <1>16. ASSUME NEW w \in Writers, ApplyWrite(w)
         PROVE  TypeOK'
    <2>1. writer' \in [Writers -> Messages \cup {IdleWriter}]
      BY <1>16 DEF ApplyWrite, TypeOK
    <2>2. applied' \subseteq Messages
      BY <1>16 DEF ApplyWrite, TypeOK
    <2> QED
      BY <1>16, <1>a, <2>1, <2>2 DEF ApplyWrite, TypeOK, arbitrationVars, latchVars, deviceVars
  <1>17. CASE Panic
    BY <1>17, <1>a DEF Panic, TypeOK, arbitrationVars, latchVars, deviceVars, writeVars
  <1>18. CASE UNCHANGED vars
    BY <1>18, <1>a DEF vars, TypeOK, arbitrationVars, latchVars, deviceVars, writeVars
  <1> QED
    BY <1>1, <1>2, <1>3, <1>5, <1>6, <1>7, <1>8, <1>9, <1>10, <1>11, <1>12, <1>13,
       <1>14, <1>15, <1>16, <1>17, <1>18
    DEF Next, Handle, Client, Write, RecordPanics, CheckPanics, CheckMastershipPanics, MapFault

\* Before any stream is opened every variable has its type.
LEMMA InitType ==
    ASSUME Init
    PROVE  TypeOK
  <1>1. NoCall \in Calls /\ NoCall.arg = Nil /\ NoCall.max = Nil
    BY DEF NoCall, Calls, PointersOrNil, Codes, Fields
  <1>2. call \in [Streams -> Calls] /\ pc \in [Streams -> Labels]
    BY <1>1 DEF Init, Labels
  <1>3. \A s \in Streams : Valid(call[s].arg) /\ Valid(call[s].max)
    BY <1>1 DEF Init, Valid
  <1>4. /\ received \in [Streams -> Seq(Messages)]
        /\ queued \in [Streams -> Seq([code : Codes, max : PointersOrNil])]
        /\ \A s \in Streams : Len(queued[s]) = 0
    BY DEF Init
  <1>5. responders \in Seq(Streams) /\ connections \in Seq({Address[s] : s \in Streams})
    BY DEF Init
  <1>6. DOMAIN roleConfigs = {}
    BY DEF Init
  <1>7. /\ latchedRole \in [Streams -> PointersOrNil]
        /\ latchedID \in [Streams -> PointersOrNil]
        /\ \A s \in Streams : Valid(latchedRole[s]) /\ Valid(latchedID[s])
    BY DEF Init, PointersOrNil, Valid
  <1>8. /\ sentCode \in [Streams -> Codes \cup {NoCode}]
        /\ writer \in [Writers -> Messages \cup {IdleWriter}]
        /\ applied \subseteq Messages
        /\ panicked \in BOOLEAN
    BY DEF Init
  <1> QED
    BY <1>2, <1>3, <1>4, <1>5, <1>6, <1>7, <1>8 DEF TypeOK

\* Spec => []TypeOK: no handler ever follows a pointer to a message that was
\* not received, in any interleaving of any number of streams.
THEOREM TypeCorrect == Spec => []TypeOK
  <1>1. Init => TypeOK
    BY InitType
  <1>2. TypeOK /\ [Next]_vars => TypeOK'
    BY TypeStep
  <1> QED
    BY <1>1, <1>2, PTL DEF Spec

------------------------------------------------------------------------------
\* Election IDs are totally ordered.

\* The order of election IDs, high half first, is transitive.
LEMMA LargerTransitive ==
    ASSUME NEW a \in Elections, NEW b \in Elections, NEW c \in Elections,
           Larger(a, b), Larger(b, c)
    PROVE  Larger(a, c)
  BY MastershipAssumption DEF Larger, Uint128Values

\* No election ID is larger than itself.
LEMMA LargerIrreflexive ==
    ASSUME NEW a \in Elections
    PROVE  ~ Larger(a, a)
  BY MastershipAssumption DEF Larger, Uint128Values

------------------------------------------------------------------------------
\* What was recorded stays recorded.

\* A claim that went through RecordRoleElection stays recorded, with its message.
LEMMA RecordedStays ==
    ASSUME TypeOK, PendingIsLast, [Next]_vars, NEW p, RecordedClaim(p)
    PROVE  /\ RecordedClaim(p)'
           /\ Message(p)' = Message(p)
           /\ ElectionOf(p)' = ElectionOf(p)
           /\ RoleName(p)' = RoleName(p)
  <1>1. p # Nil /\ Valid(p) /\ ~ Pending(p[1], p[2])
    BY DEF RecordedClaim
  <1>2. p \in Pointers /\ p[1] \in Streams /\ p[2] \in 1..Len(received[p[1]])
    BY <1>1, PointerType
  <1>3. Valid(p)' /\ Message(p)' = Message(p)
    BY <1>1, HeapGrows
  <1> DEFINE s == p[1]
             Sending == pc[s] \in {"latch", "record"} /\ ~ call[s].closing
  <1>4. Sending' => Sending \/ received'[s] # received[s]
    <2> SUFFICES ASSUME Sending'
                 PROVE  Sending \/ received'[s] # received[s]
      OBVIOUS
    <2>a. pc \in [Streams -> Labels] /\ call \in [Streams -> Calls]
      BY DEF TypeOK
    <2>1. ASSUME NEW t \in Streams, Open(t)
          PROVE  Sending
      BY <1>2, <2>1, <2>a DEF Open, Goto, At
    <2>2. ASSUME NEW t \in Streams, Close(t)
          PROVE  Sending
      BY <1>2, <2>2, <2>a DEF Close, Goto, SetCall, At, Calls
    <2>3. ASSUME NEW t \in Streams, NEW r \in Roles, NEW e \in Elections, Receive(t, r, e)
          PROVE  Sending \/ received'[s] # received[s]
      <3>1. CASE t = s
        BY <2>3, <3>1, ReceiveAllocates
      <3>2. CASE t # s
        BY <1>2, <2>3, <3>2, <2>a DEF Receive, Goto, SetCall
      <3> QED
        BY <3>1, <3>2
    <2>4. ASSUME NEW t \in Streams, LatchRole(t) \/ LatchElectionID(t)
          PROVE  Sending
      <3>1. PICK field \in Fields : Latched(t, field)
        BY <2>4 DEF LatchRole, LatchElectionID, Fields
      <3>2. call'[t].closing = call[t].closing
        BY <3>1, <2>a DEF Latched, SetCall, Calls
      <3> QED
        BY <1>2, <2>a, <3>1, <3>2 DEF Latched, Goto, SetCall, At
    <2>5. ASSUME NEW t \in Streams,
                 RecordWinner(t) \/ RecordLoser(t) \/ BeginNotification(t) \/ CheckResponder(t)
                 \/ MasterNotFound(t) \/ NotifyResponder(t) \/ MarkSent(t) \/ EndNotification(t)
          PROVE  Sending
      <3>1. /\ \A u \in Streams \ {t} : pc'[u] = pc[u] /\ call'[u] = call[u]
            /\ pc'[t] \notin {"latch", "record"}
        BY <2>5, <2>a
        DEF RecordWinner, RecordLoser, BeginNotification, CheckResponder, MasterNotFound,
            NotifyResponder, MarkSent, EndNotification, Goto, SetCall, At
      <3> QED
        BY <1>2, <3>1
    <2>6. CASE UNCHANGED <<pc, call>>
      BY <2>6
    <2> QED
      BY <2>1, <2>2, <2>3, <2>4, <2>5, <2>6
      DEF Next, Handle, Client, Write, RecordPanics, CheckPanics, CheckMastership,
          CheckMastershipPanics, ApplyWrite, MapFault, Panic, vars, arbitrationVars
  <1>5. ~ Pending(p[1], p[2])'
    <2>1. CASE received'[s] # received[s]
      <3>1. PICK t \in Streams, r \in Roles, e \in Elections : Receive(t, r, e)
        BY <2>1, OnlyReceiveAllocates
      <3>2. t = s
        BY <1>2, <2>1, <3>1, ReceiveAllocates
      <3>3. Len(received[s]) \in Nat /\ Len(received'[s]) = Len(received[s]) + 1
        BY <3>1, <3>2, ReceiveAllocates
      <3> QED
        BY <1>2, <3>3 DEF Pending
    <2>2. CASE received'[s] = received[s]
      BY <1>1, <1>4, <2>2 DEF Pending
    <2> QED
      BY <2>1, <2>2
  <1> QED
    BY <1>1, <1>3, <1>5 DEF RecordedClaim, ElectionOf, RoleName

------------------------------------------------------------------------------
\* The handlers' labels and arguments.

\* The steps that neither start nor latch a claim leave the arguments of the
\* calls alone, or forget them.
LEMMA LocalSteps ==
    ASSUME TypeOK, NEW s \in Streams,
           RecordWinner(s) \/ RecordLoser(s) \/ BeginNotification(s) \/ CheckResponder(s)
           \/ MasterNotFound(s) \/ NotifyResponder(s) \/ MarkSent(s) \/ EndNotification(s)
    PROVE  /\ UNCHANGED received /\ UNCHANGED latchedID
           /\ \A t \in Streams \ {s} : pc'[t] = pc[t] /\ call'[t] = call[t]
           /\ pc'[s] \notin {"new", "latch", "record"}
           /\ pc'[s] = "recv" => call'[s] = NoCall
           /\ \/ call'[s].arg = call[s].arg /\ call'[s].closing = call[s].closing
              \/ call'[s] = NoCall
  <1>a. pc \in [Streams -> Labels] /\ call \in [Streams -> Calls]
    BY DEF TypeOK
  <1>1. CASE RecordWinner(s)
    BY <1>1, <1>a DEF RecordWinner, Goto, SetCall, Calls, latchVars
  <1>2. CASE RecordLoser(s)
    BY <1>2, <1>a DEF RecordLoser, Goto, SetCall, Calls, latchVars
  <1>3. CASE BeginNotification(s)
    BY <1>3, <1>a DEF BeginNotification, Goto, SetCall, Calls, latchVars
  <1>4. CASE CheckResponder(s)
    <2>1. /\ UNCHANGED received /\ UNCHANGED latchedID
          /\ \A t \in Streams \ {s} : pc'[t] = pc[t]
          /\ pc'[s] \in {"check", "notify"}
      BY <1>4, <1>a DEF CheckResponder, Goto, latchVars, At
    <2>2. CASE SetCall(s, [call[s] EXCEPT !.next = 1, !.fail = "ALREADY_EXISTS"])
      BY <1>a, <2>1, <2>2 DEF SetCall, Calls
    <2>3. CASE SetCall(s, [call[s] EXCEPT !.next = call[s].next + 1])
      BY <1>a, <2>1, <2>3 DEF SetCall, Calls
    <2> QED
      BY <1>4, <2>2, <2>3 DEF CheckResponder
  <1>5. CASE MasterNotFound(s)
    BY <1>5, <1>a DEF MasterNotFound, Goto, SetCall, Calls, latchVars
  <1>6. CASE NotifyResponder(s)
    BY <1>6, <1>a DEF NotifyResponder, Goto, SetCall, Calls, latchVars, At
  <1>7. CASE MarkSent(s)
    BY <1>7, <1>a DEF MarkSent, Goto, SetCall, Calls, latchVars
  <1>8. CASE EndNotification(s)
    BY <1>8, <1>a DEF EndNotification, Goto, SetCall, Calls, latchVars
  <1> QED
    BY <1>1, <1>2, <1>3, <1>4, <1>5, <1>6, <1>7, <1>8

\* A claim on its way to RecordRoleElection is the last message of its stream.
LEMMA PendingIsLastStep ==
    ASSUME TypeOK, PendingIsLast, LatchIsOwn, [Next]_vars
    PROVE  PendingIsLast'
  <1>a. pc \in [Streams -> Labels] /\ call \in [Streams -> Calls]
    BY DEF TypeOK
  <1>1. ASSUME NEW s \in Streams, Open(s)
        PROVE  PendingIsLast'
    BY <1>1, <1>a DEF Open, Goto, At, PendingIsLast
  <1>2. ASSUME NEW s \in Streams, Close(s)
        PROVE  PendingIsLast'
    <2>1. call'[s].arg = latchedID[s] /\ call'[s].closing
      BY <1>2, <1>a DEF Close, SetCall, Calls
    <2>2. pc'[s] = "record" /\ \A t \in Streams \ {s} : pc'[t] = pc[t] /\ call'[t] = call[t]
      BY <1>2, <1>a DEF Close, SetCall, Goto
    <2>3. UNCHANGED received
      BY <1>2 DEF Close
    <2> QED
      BY <2>1, <2>2, <2>3 DEF PendingIsLast, LatchIsOwn
  <1>3. ASSUME NEW s \in Streams, NEW r \in Roles, NEW e \in Elections, Receive(s, r, e)
        PROVE  PendingIsLast'
    <2>1. call'[s].arg = Arrival(s) /\ call'[s].closing = call[s].closing
      BY <1>3, <1>a DEF Receive, SetCall, Calls
    <2>2. /\ pc[s] = "recv" /\ pc'[s] = "latch"
          /\ \A t \in Streams \ {s} : pc'[t] = pc[t] /\ call'[t] = call[t]
      BY <1>3, <1>a DEF Receive, SetCall, Goto, At
    <2>3. /\ Len(received'[s]) = Len(received[s]) + 1
          /\ Len(received[s]) \in Nat
          /\ \A t \in Streams \ {s} : received'[t] = received[t]
      BY <1>3, ReceiveAllocates
    <2>4. Arrival(s) # Nil
      BY <2>3, MastershipAssumption DEF Arrival, Pointers
    <2>5. Arrival(s)[1] = s /\ Arrival(s)[2] = Len(received'[s])
      BY <2>3 DEF Arrival
    <2> QED
      BY <2>1, <2>2, <2>3, <2>4, <2>5 DEF PendingIsLast
  <1>4. ASSUME NEW s \in Streams, LatchRole(s) \/ LatchElectionID(s)
        PROVE  PendingIsLast'
    <2>1. PICK field \in Fields : Latched(s, field)
      BY <1>4 DEF LatchRole, LatchElectionID, Fields
    <2>2. call'[s].arg = call[s].arg /\ call'[s].closing = call[s].closing
      BY <2>1, <1>a DEF Latched, SetCall, Calls
    <2>3. /\ pc[s] = "latch" /\ pc'[s] \in {"latch", "record"}
          /\ \A t \in Streams \ {s} : pc'[t] = pc[t] /\ call'[t] = call[t]
          /\ UNCHANGED received
      BY <2>1, <1>a DEF Latched, SetCall, Goto, At
    <2> QED
      BY <2>2, <2>3 DEF PendingIsLast
  <1>5. ASSUME NEW s \in Streams,
               RecordWinner(s) \/ RecordLoser(s) \/ BeginNotification(s) \/ CheckResponder(s)
               \/ MasterNotFound(s) \/ NotifyResponder(s) \/ MarkSent(s) \/ EndNotification(s)
        PROVE  PendingIsLast'
    <2>1. NoCall.arg = Nil /\ NoCall.closing = FALSE
      BY DEF NoCall
    <2> QED
      BY <1>5, <2>1, LocalSteps DEF PendingIsLast
  <1>6. CASE UNCHANGED <<received, pc, call>>
    BY <1>6 DEF PendingIsLast
  <1> QED
    BY <1>1, <1>2, <1>3, <1>4, <1>5, <1>6
    DEF Next, Handle, Client, Write, RecordPanics, CheckPanics, CheckMastership,
        CheckMastershipPanics, ApplyWrite, MapFault, Panic, vars, arbitrationVars

\* A stream latches the election IDs of its own messages only.
LEMMA LatchIsOwnStep ==
    ASSUME TypeOK, PendingIsLast, LatchIsOwn, [Next]_vars
    PROVE  LatchIsOwn'
  <1>1. ASSUME NEW s \in Streams, LatchElectionID(s)
        PROVE  LatchIsOwn'
    BY <1>1 DEF LatchElectionID, Latched, At, PendingIsLast, LatchIsOwn, TypeOK
  <1>2. CASE UNCHANGED latchedID
    BY <1>2 DEF LatchIsOwn
  <1>3. CASE \E s \in Streams :
                RecordWinner(s) \/ RecordLoser(s) \/ BeginNotification(s) \/ CheckResponder(s)
                \/ MasterNotFound(s) \/ NotifyResponder(s) \/ MarkSent(s) \/ EndNotification(s)
    BY <1>2, <1>3, LocalSteps
  <1> QED
    BY <1>1, <1>2, <1>3
    DEF Next, Handle, Client, Write, Open, Close, Receive, LatchRole, RecordPanics,
        CheckPanics, CheckMastership, CheckMastershipPanics, ApplyWrite, MapFault, Panic,
        vars, arbitrationVars, latchVars

------------------------------------------------------------------------------
\* Claims are recorded one at a time, by the handler that made them.

\* A claim becomes recorded when its own handler leaves RecordRoleElection.
LEMMA NewlyRecorded ==
    ASSUME TypeOK, PendingIsLast, [Next]_vars,
           NEW p, ~ RecordedClaim(p), RecordedClaim(p)'
    PROVE  \E s \in Streams : /\ p = call[s].arg
                              /\ RecordWinner(s) \/ RecordLoser(s)
  <1>a. pc \in [Streams -> Labels] /\ call \in [Streams -> Calls]
    BY DEF TypeOK
  <1>b. TypeOK' /\ p # Nil /\ Valid(p)'
    BY TypeStep DEF RecordedClaim
  <1>c. p \in Pointers /\ p[1] \in Streams /\ p[2] \in Nat \ {0} /\ p = <<p[1], p[2]>>
    BY <1>b DEF Valid, Pointers
  <1> DEFINE s == p[1]
             n == p[2]
  <1>1. Pending(s, n) => \/ RecordWinner(s) \/ RecordLoser(s)
                         \/ Pending(s, n)'
    <2> SUFFICES ASSUME Pending(s, n), ~ RecordWinner(s), ~ RecordLoser(s)
                 PROVE  Pending(s, n)'
      OBVIOUS
    <2>1. pc[s] \in {"latch", "record"} /\ ~ call[s].closing /\ n = Len(received[s])
      BY DEF Pending
    <2>2. ASSUME NEW t \in Streams \ {s},
                 Open(t) \/ Close(t) \/ (\E r \in Roles, e \in Elections : Receive(t, r, e))
                 \/ Latched(t, "role") \/ Latched(t, "electionID")
          PROVE  Pending(s, n)'
      <3>1. pc'[s] = pc[s] /\ call'[s] = call[s]
        BY <1>a, <1>c, <2>2 DEF Open, Close, Receive, Latched, Goto, SetCall
      <3>2. received'[s] = received[s]
        BY <1>c, <2>2, ReceiveAllocates DEF Open, Close, Latched
      <3> QED
        BY <2>1, <3>1, <3>2 DEF Pending
    <2>3. CASE Latched(s, "role") \/ Latched(s, "electionID")
      <3>1. PICK field \in Fields : Latched(s, field)
        BY <2>3 DEF Fields
      <3>2. call'[s].closing = call[s].closing
        BY <1>a, <1>c, <3>1 DEF Latched, SetCall, Calls
      <3>3. pc'[s] \in {"latch", "record"} /\ UNCHANGED received
        BY <1>a, <1>c, <3>1 DEF Latched, Goto
      <3> QED
        BY <2>1, <3>2, <3>3 DEF Pending
    <2>4. ASSUME NEW t \in Streams \ {s},
                 RecordWinner(t) \/ RecordLoser(t) \/ BeginNotification(t) \/ CheckResponder(t)
                 \/ MasterNotFound(t) \/ NotifyResponder(t) \/ MarkSent(t) \/ EndNotification(t)
          PROVE  Pending(s, n)'
      BY <1>c, <2>1, <2>4, LocalSteps DEF Pending
    <2>5. CASE UNCHANGED <<received, pc, call>>
      BY <2>1, <2>5 DEF Pending
    <2>6. /\ ~ Open(s) /\ ~ Close(s) /\ \A r \in Roles, e \in Elections : ~ Receive(s, r, e)
          /\ ~ BeginNotification(s) /\ ~ CheckResponder(s) /\ ~ MasterNotFound(s)
          /\ ~ NotifyResponder(s) /\ ~ MarkSent(s) /\ ~ EndNotification(s)
      BY <2>1 DEF Open, Close, Receive, BeginNotification, CheckResponder, MasterNotFound,
                  NotifyResponder, MarkSent, EndNotification, At
    <2> QED
      BY <2>2, <2>3, <2>4, <2>5, <2>6
      DEF Next, Handle, Client, Write, LatchRole, LatchElectionID, RecordPanics, CheckPanics,
          CheckMastership, CheckMastershipPanics, ApplyWrite, MapFault, Panic, vars,
          arbitrationVars
  <1>2. ~ Valid(p) => Pending(s, n)'
    <2> SUFFICES ASSUME ~ Valid(p)
                 PROVE  Pending(s, n)'
      OBVIOUS
    <2>1. PICK t \in Streams, r \in Roles, e \in Elections : Receive(t, r, e)
      BY <1>b, OnlyReceiveAllocates DEF Valid
    <2>2. t = s
      BY <1>b, <1>c, <2>1, ReceiveAllocates DEF Valid
    <2>3. n = Len(received'[s])
      BY <1>b, <1>c, <2>1, <2>2, ReceiveAllocates DEF Valid
    <2>4. pc'[s] = "latch" /\ call'[s].closing = call[s].closing /\ pc[s] = "recv"
      BY <1>a, <2>1, <2>2 DEF Receive, Goto, SetCall, Calls, At
    <2> QED
      BY <1>c, <2>3, <2>4 DEF Pending, PendingIsLast
  <1>3. Pending(s, n) /\ Valid(p)
    BY <1>b, <1>2 DEF RecordedClaim
  <1>4. RecordWinner(s) \/ RecordLoser(s)
    BY <1>1, <1>3 DEF RecordedClaim
  <1>5. call[s].arg = p
    <2>1. call[s].arg # Nil /\ call[s].arg[1] = s /\ call[s].arg[2] = n
      BY <1>3, <1>c DEF Pending, PendingIsLast
    <2>2. call[s].arg \in Pointers
      BY <1>a, <1>c, <2>1 DEF Calls, PointersOrNil
    <2> QED
      BY <1>c, <2>1, <2>2 DEF Pointers
  <1> QED
    BY <1>c, <1>4, <1>5

\* The claim a handler brings to RecordRoleElection is recorded afterwards.
LEMMA ArgumentRecorded ==
    ASSUME TypeOK, PendingIsLast, NEW s \in Streams,
           RecordWinner(s) \/ RecordLoser(s), call[s].arg # Nil
    PROVE  RecordedClaim(call[s].arg)'
  <1>1. call[s].arg[1] = s /\ Valid(call[s].arg)
    BY DEF PendingIsLast, TypeOK
  <1>2. pc'[s] = "rlock" /\ UNCHANGED received /\ call'[s].arg = call[s].arg
    BY DEF RecordWinner, RecordLoser, Goto, SetCall, TypeOK, Calls
  <1> QED
    BY <1>1, <1>2 DEF RecordedClaim, Pending, Valid

------------------------------------------------------------------------------
\* Winning pointers.

\* The role map, the running calls and the queues hold winners only.
LEMMA WinnerKinds ==
    /\ \A r \in DOMAIN roleConfigs : roleConfigs[r] \in Winners
    /\ \A s \in Streams : call[s].max \in Winners
    /\ \A s \in Streams : \A i \in 1..Len(queued[s]) : queued[s][i].max \in Winners
  BY DEF Winners

\* Only RecordWinner brings in a new winning pointer.
LEMMA WinnersGrow ==
    ASSUME TypeOK, [Next]_vars, NEW p \in Winners', p # Nil
    PROVE  \/ p \in Winners
           \/ \E s \in Streams : RecordWinner(s) /\ p = call[s].arg
  <1>a. call \in [Streams -> Calls]
    BY DEF TypeOK
  <1>b. NoCall.max = Nil
    BY DEF NoCall
  <1>1. ASSUME NEW s \in Streams, RecordWinner(s)
        PROVE  p \in Winners \/ p = call[s].arg
    <2>1. UNCHANGED queued
      BY <1>1 DEF RecordWinner
    <2>2. \A t \in Streams : call'[t].max = call[t].max \/ call'[t].max = call[s].arg
      BY <1>1, <1>a DEF RecordWinner, SetCall, Calls
    <2>3. \A r \in DOMAIN roleConfigs' :
              roleConfigs'[r] = call[s].arg \/ (r \in DOMAIN roleConfigs /\ roleConfigs'[r] = roleConfigs[r])
      BY <1>1 DEF RecordWinner
    <2> QED
      BY <2>1, <2>2, <2>3 DEF Winners
  <1>2. ASSUME NEW s \in Streams, NotifyResponder(s)
        PROVE  p \in Winners
    <2>1. UNCHANGED roleConfigs /\ \A t \in Streams : call'[t].max = call[t].max
      BY <1>2, <1>a DEF NotifyResponder, SetCall, Calls, deviceVars
    <2>2. \A t \in Streams : \A i \in 1..Len(queued'[t]) :
              queued'[t][i].max = call[s].max \/ (i \in 1..Len(queued[t]) /\ queued'[t][i] = queued[t][i])
      <3>1. CASE UNCHANGED queued
        BY <3>1
      <3>2. ASSUME NEW r \in Streams, NEW code,
                   queued' = [queued EXCEPT ![r] = Append(queued[r], [code |-> code, max |-> call[s].max])]
            PROVE  \A t \in Streams : \A i \in 1..Len(queued'[t]) :
                       queued'[t][i].max = call[s].max
                       \/ (i \in 1..Len(queued[t]) /\ queued'[t][i] = queued[t][i])
        <4> DEFINE response == [code |-> code, max |-> call[s].max]
        <4>1. response.max = call[s].max
          OBVIOUS
        <4> HIDE DEF response
        <4>2. queued' = [queued EXCEPT ![r] = Append(queued[r], response)]
          BY <3>2 DEF response
        <4>3. \A t \in Streams : queued[t] \in Seq([code : Codes, max : PointersOrNil])
          BY DEF TypeOK
        <4>4. \A i \in 1..Len(queued'[r]) :
                  queued'[r][i] = response \/ (i \in 1..Len(queued[r]) /\ queued'[r][i] = queued[r][i])
          <5>1. queued'[r] = Append(queued[r], response)
            BY <4>2 DEF TypeOK
          <5>2. Len(Append(queued[r], response)) = Len(queued[r]) + 1
            BY <4>3
          <5>3. \A i \in 1..(Len(queued[r]) + 1) : Append(queued[r], response)[i] =
                    IF i = Len(queued[r]) + 1 THEN response ELSE queued[r][i]
            BY <4>3
          <5> QED
            BY <4>3, <5>1, <5>2, <5>3
        <4> QED
          BY <4>1, <4>2, <4>4 DEF TypeOK
      <3>3. Turn(s) \in Streams
        BY <1>2 DEF NotifyResponder, Turn, HasTurn, TypeOK, Calls
      <3> QED
        BY <1>2, <3>1, <3>2, <3>3 DEF NotifyResponder
    <2> QED
      BY SMTT(30), <2>1, <2>2, WinnerKinds DEF Winners
  <1>3. ASSUME NEW s \in Streams, RecordLoser(s)
        PROVE  p \in Winners
    <2> DEFINE winner == roleConfigs[RoleName(call[s].arg)]
    <2>1. UNCHANGED <<queued, roleConfigs>>
      BY <1>3 DEF RecordLoser, deviceVars
    <2>2. winner \in Winners
      BY <1>3, WinnerKinds DEF RecordLoser, Wins, FirstClaim
    <2>3. \A t \in Streams :
              call'[t].max = call[t].max \/ call'[t].max = Nil \/ call'[t].max = winner
      BY <1>3, <1>a DEF RecordLoser, SetCall, Calls, Reported
    <2> HIDE DEF winner
    <2> QED
      BY <2>1, <2>2, <2>3 DEF Winners
  <1>4. ASSUME \A t \in Streams : call'[t].max = call[t].max \/ call'[t].max = Nil,
               UNCHANGED <<queued, roleConfigs>>
        PROVE  p \in Winners
    BY <1>4 DEF Winners
  <1>5. ASSUME NEW s \in Streams,
               Close(s) \/ (\E r \in Roles, e \in Elections : Receive(s, r, e))
               \/ LatchRole(s) \/ LatchElectionID(s)
               \/ BeginNotification(s) \/ CheckResponder(s) \/ MasterNotFound(s)
               \/ MarkSent(s) \/ EndNotification(s)
        PROVE  p \in Winners
    <2>1. \A t \in Streams : call'[t].max = call[t].max \/ call'[t].max = Nil
      <3>1. CASE Close(s)
        BY <3>1, <1>a DEF Close, SetCall, Calls
      <3>2. CASE \E r \in Roles, e \in Elections : Receive(s, r, e)
        BY <3>2, <1>a DEF Receive, SetCall, Calls
      <3>3. CASE LatchRole(s) \/ LatchElectionID(s)
        BY <3>3, <1>a DEF LatchRole, LatchElectionID, Latched, SetCall, Calls
      <3>4. CASE BeginNotification(s)
        BY <3>4, <1>a DEF BeginNotification, SetCall, Calls
      <3>5. CASE CheckResponder(s)
        <4>1. CASE SetCall(s, [call[s] EXCEPT !.next = 1, !.fail = "ALREADY_EXISTS"])
          BY <4>1, <1>a DEF SetCall, Calls
        <4>2. CASE SetCall(s, [call[s] EXCEPT !.next = call[s].next + 1])
          BY <4>2, <1>a DEF SetCall, Calls
        <4> QED
          BY <3>5, <4>1, <4>2 DEF CheckResponder
      <3>6. CASE MasterNotFound(s) \/ MarkSent(s)
        BY <3>6, <1>a DEF MasterNotFound, MarkSent, SetCall, Calls
      <3>7. CASE EndNotification(s)
        BY <3>7, <1>a, <1>b DEF EndNotification, SetCall
      <3> QED
        BY <1>5, <3>1, <3>2, <3>3, <3>4, <3>5, <3>6, <3>7
    <2>2. UNCHANGED <<queued, roleConfigs>>
      BY <1>5
      DEF Close, Receive, LatchRole, LatchElectionID, Latched, BeginNotification,
          CheckResponder, MasterNotFound, MarkSent, EndNotification, deviceVars
    <2> QED
      BY <1>4, <2>1, <2>2
  <1>6. CASE UNCHANGED <<call, queued, roleConfigs>>
    BY <1>4, <1>6
  <1> QED
    BY <1>1, <1>2, <1>3, <1>5, <1>6
    DEF Next, Handle, Client, Write, Open, RecordPanics, CheckPanics, CheckMastership,
        CheckMastershipPanics, ApplyWrite, MapFault, Panic, vars, arbitrationVars, deviceVars

------------------------------------------------------------------------------
\* The rest of the inductive invariant.

\* Only RecordWinner writes the role map, for its own role.
LEMMA OnlyWinnersAreRecorded ==
    ASSUME [Next]_vars
    PROVE  UNCHANGED roleConfigs \/ \E s \in Streams : RecordWinner(s)
  BY DEF Next, Handle, Client, Write, Open, Close, Receive, Latched, LatchRole,
         LatchElectionID, RecordPanics, RecordLoser, BeginNotification, CheckPanics,
         CheckResponder, MasterNotFound, NotifyResponder, MarkSent, EndNotification,
         CheckMastership, CheckMastershipPanics, ApplyWrite, MapFault, Panic,
         vars, arbitrationVars, deviceVars

\* A claim that has a winner keeps one.
LEMMA HasWinnerStays ==
    ASSUME TypeOK, PendingIsLast, WinnersWereRecorded, [Next]_vars,
           NEW p, RecordedClaim(p), HasWinner(p)
    PROVE  HasWinner(p)'
  <1> DEFINE r == RoleName(p)
             w == roleConfigs[r]
  <1>1. r \in DOMAIN roleConfigs /\ w # Nil /\ ~ Larger(ElectionOf(p), ElectionOf(w))
    BY DEF HasWinner
  <1>2. RoleName(p)' = r /\ ElectionOf(p)' = ElectionOf(p) /\ ElectionOf(p) \in Elections
    BY RecordedStays, PointerType DEF RecordedClaim
  <1>3. RecordedClaim(w) /\ ElectionOf(w) \in Elections /\ RoleName(w) = r
    BY <1>1, WinnerKinds, PointerType DEF WinnersWereRecorded, RecordedClaim
  <1>4. CASE UNCHANGED roleConfigs
    <2>1. ElectionOf(roleConfigs[r])' = ElectionOf(w)
      BY <1>2, <1>3, <1>4, RecordedStays
    <2> QED
      BY <1>1, <1>2, <1>4, <2>1 DEF HasWinner
  <1>5. ASSUME NEW s \in Streams, RecordWinner(s)
        PROVE  HasWinner(p)'
    <2> DEFINE q == call[s].arg
    <2>1. /\ DOMAIN roleConfigs' = DOMAIN roleConfigs \cup {RoleName(q)}
          /\ \A x \in DOMAIN roleConfigs' :
                roleConfigs'[x] = IF x = RoleName(q) THEN q ELSE roleConfigs[x]
          /\ UNCHANGED received
      BY <1>5 DEF RecordWinner
    <2>2. CASE r # RoleName(q)
      <3>1. roleConfigs'[r] = w
        BY <1>1, <2>1, <2>2
      <3>2. ElectionOf(roleConfigs[RoleName(p)])' = ElectionOf(w)
        BY <1>2, <2>1, <3>1 DEF ElectionOf, Message
      <3> QED
        BY <1>1, <1>2, <2>1, <3>1, <3>2 DEF HasWinner
    <2>3. CASE r = RoleName(q)
      <3>1. q # Nil /\ Larger(ElectionOf(q), ElectionOf(w))
        BY <1>1, <1>5, <2>3 DEF RecordWinner, ComparesNil, Wins, FirstClaim, Beats
      <3>2. ElectionOf(q) \in Elections
        BY <3>1, PointerType DEF TypeOK
      <3>3. ~ Larger(ElectionOf(p), ElectionOf(q))
        <4>1. Larger(ElectionOf(p), ElectionOf(q)) => Larger(ElectionOf(p), ElectionOf(w))
          BY <1>2, <1>3, <3>1, <3>2, LargerTransitive
        <4> QED
          BY <1>1, <4>1
      <3>4. roleConfigs'[r] = q
        BY <1>1, <2>1, <2>3
      <3>5. ElectionOf(roleConfigs[RoleName(p)])' = ElectionOf(q)
        BY <1>2, <2>1, <3>4 DEF ElectionOf, Message
      <3> QED
        BY <1>1, <1>2, <2>1, <3>1, <3>3, <3>4, <3>5 DEF HasWinner
    <2> QED
      BY <2>2, <2>3
  <1> QED
    BY <1>4, <1>5, OnlyWinnersAreRecorded

\* WinnerIsHighest, read for one claim.
LEMMA RecordedHasWinner ==
    ASSUME TypeOK, WinnerIsHighest, NEW p, RecordedClaim(p)
    PROVE  HasWinner(p)
  <1>1. p \in Pointers /\ p[1] \in Streams /\ p[2] \in 1..Len(received[p[1]])
    BY PointerType DEF RecordedClaim
  <1>2. p = <<p[1], p[2]>> /\ ~ Pending(p[1], p[2])
    BY <1>1 DEF Pointers, RecordedClaim
  <1> QED
    BY <1>1, <1>2 DEF WinnerIsHighest

\* Every step leaves each role with a winner no lower than its recorded claims.
LEMMA WinnerIsHighestStep ==
    ASSUME TypeOK, PendingIsLast, WinnersWereRecorded, WinnerIsHighest, [Next]_vars
    PROVE  WinnerIsHighest'
  <1>1. \A p : RecordedClaim(p) => HasWinner(p)
    BY RecordedHasWinner
  <1>2. ASSUME NEW s \in Streams, NEW p, p = call[s].arg, p # Nil, RecordWinner(s)
        PROVE  HasWinner(p)'
    <2>1. /\ RoleName(p) \in DOMAIN roleConfigs'
          /\ roleConfigs'[RoleName(p)] = p
          /\ UNCHANGED received
      BY <1>2 DEF RecordWinner
    <2>2. RoleName(p)' = RoleName(p) /\ ElectionOf(p)' = ElectionOf(p)
      BY <2>1 DEF RoleName, ElectionOf, Message
    <2>3. ElectionOf(p) \in Elections
      BY <1>2, PointerType DEF TypeOK
    <2>4. ~ Larger(ElectionOf(p), ElectionOf(p))
      BY <2>3, LargerIrreflexive
    <2>5. ElectionOf(roleConfigs[RoleName(p)])' = ElectionOf(p)
      BY <2>1, <2>2 DEF ElectionOf, Message
    <2> QED
      BY <1>2, <2>1, <2>2, <2>4, <2>5 DEF HasWinner
  <1>3. ASSUME NEW s \in Streams, NEW p, p = call[s].arg, p # Nil, RecordLoser(s)
        PROVE  HasWinner(p)'
    <2>1. HasWinner(p)
      BY <1>3 DEF RecordLoser, ComparesNil, Wins, FirstClaim, Beats, HasWinner
    <2>2. UNCHANGED <<received, roleConfigs>>
      BY <1>3 DEF RecordLoser, deviceVars
    <2> QED
      BY <2>1, <2>2 DEF HasWinner, RoleName, ElectionOf, Message
  <1>4. \A p : RecordedClaim(p)' => HasWinner(p)'
    <2> SUFFICES ASSUME NEW p, RecordedClaim(p)'
                 PROVE  HasWinner(p)'
      OBVIOUS
    <2>1. CASE RecordedClaim(p)
      BY <1>1, <2>1, HasWinnerStays
    <2>2. CASE ~ RecordedClaim(p)
      <3>1. p # Nil
        BY DEF RecordedClaim
      <3>2. PICK s \in Streams : p = call[s].arg /\ (RecordWinner(s) \/ RecordLoser(s))
        BY <2>2, NewlyRecorded
      <3> QED
        BY <1>2, <1>3, <3>1, <3>2
    <2> QED
      BY <2>1, <2>2
  <1>5. ASSUME NEW s \in Streams, NEW n \in 1..Len(received'[s]), ~ Pending(s, n)'
        PROVE  HasWinner(<<s, n>>)'
    <2>1. PICK p : p = <<s, n>>
      OBVIOUS
    <2>2. received'[s] \in Seq(Messages)
      BY TypeStep DEF TypeOK
    <2>3. n \in Nat \ {0}
      BY <2>2
    <2>4. p \in Pointers /\ p[1] = s /\ p[2] = n
      BY <2>1, <2>3 DEF Pointers
    <2>5. RecordedClaim(p)'
      BY <1>5, <2>2, <2>4, MastershipAssumption DEF RecordedClaim, Valid
    <2> QED
      BY <1>4, <2>1, <2>5
  <1> QED
    BY <1>5 DEF WinnerIsHighest

\* A winner in the role map, a call or a queue is a claim that was recorded.
LEMMA WinnersWereRecordedStep ==
    ASSUME TypeOK, PendingIsLast, WinnersWereRecorded, [Next]_vars
    PROVE  WinnersWereRecorded'
  <1>1. ASSUME NEW p \in Winners', p # Nil
        PROVE  RecordedClaim(p)'
    <2>1. CASE p \in Winners
      BY <1>1, <2>1, RecordedStays DEF WinnersWereRecorded
    <2>2. ASSUME NEW s \in Streams, RecordWinner(s), p = call[s].arg
          PROVE  RecordedClaim(p)'
      <3>1. call'[s].arg = p
        BY <2>2 DEF RecordWinner, SetCall, TypeOK, Calls
      <3>2. RecordedClaim(call[s].arg)'
        BY <1>1, <2>2, ArgumentRecorded
      <3> QED
        BY <3>1, <3>2 DEF RecordedClaim, Valid, Pending
    <2> QED
      BY <1>1, <2>1, <2>2, WinnersGrow
  <1>2. ASSUME NEW r \in DOMAIN roleConfigs'
        PROVE  IF roleConfigs'[r] = Nil THEN r = DefaultRole ELSE RoleName(roleConfigs[r])' = r
    <2>1. CASE UNCHANGED roleConfigs
      <3>1. CASE roleConfigs[r] = Nil
        BY <1>2, <2>1, <3>1 DEF WinnersWereRecorded
      <3>2. CASE roleConfigs[r] # Nil
        <4>1. RecordedClaim(roleConfigs[r]) /\ RoleName(roleConfigs[r]) = r
          BY <1>2, <2>1, <3>2, WinnerKinds DEF WinnersWereRecorded
        <4>2. RoleName(roleConfigs[r])' = RoleName(roleConfigs[r])
          <5>1. PICK p : p = roleConfigs[r]
            OBVIOUS
          <5>2. RoleName(p)' = RoleName(p)
            BY <4>1, <5>1, RecordedStays
          <5> QED
            BY <2>1, <5>1, <5>2 DEF RoleName, Message
        <4> QED
          BY <2>1, <3>2, <4>1, <4>2
      <3> QED
        BY <3>1, <3>2
    <2>2. ASSUME NEW s \in Streams, RecordWinner(s)
          PROVE  IF roleConfigs'[r] = Nil THEN r = DefaultRole ELSE RoleName(roleConfigs[r])' = r
      <3>1. /\ UNCHANGED received
            /\ roleConfigs'[r] = IF r = RoleName(call[s].arg) THEN call[s].arg ELSE roleConfigs[r]
            /\ r = RoleName(call[s].arg) \/ r \in DOMAIN roleConfigs
        BY <1>2, <2>2 DEF RecordWinner
      <3>2. RoleName(roleConfigs[r])' =
              IF roleConfigs'[r] = Nil THEN DefaultRole ELSE Message(roleConfigs'[r]).role
        BY <3>1 DEF RoleName, Message
      <3> QED
        BY <3>1, <3>2 DEF RoleName, WinnersWereRecorded
    <2> QED
      BY <2>1, <2>2, OnlyWinnersAreRecorded
  <1> QED
    BY <1>1, <1>2 DEF WinnersWereRecorded

\* A claim that equals a recorded one never wins: winners with one message are one pointer.
LEMMA WinnersAreUniqueStep ==
    ASSUME TypeOK, PendingIsLast, WinnerIsHighest, WinnersWereRecorded, WinnersAreUnique,
           [Next]_vars
    PROVE  WinnersAreUnique'
  <1>1. ASSUME NEW p, p # Nil, p \in Winners
        PROVE  RecordedClaim(p) /\ Message(p)' = Message(p)
    BY <1>1, RecordedStays DEF WinnersWereRecorded
  <1>2. ASSUME NEW s \in Streams, RecordWinner(s), NEW p, p # Nil, p = call[s].arg,
               NEW q, q # Nil, q \in Winners
        PROVE  Message(p)' # Message(q)'
    <2> SUFFICES ASSUME Message(p)' = Message(q)'
                 PROVE  FALSE
      OBVIOUS
    <2>1. Message(p) = Message(q)
      BY <1>1, <1>2 DEF RecordWinner, Message
    <2>2. RoleName(p) = RoleName(q) /\ ElectionOf(p) = ElectionOf(q)
      BY <1>2, <2>1 DEF RoleName, ElectionOf
    <2>3. HasWinner(q)
      BY <1>1, <1>2, RecordedHasWinner
    <2>4. Wins(p)
      BY <1>2 DEF RecordWinner
    <2> QED
      BY <2>2, <2>3, <2>4 DEF HasWinner, Wins, FirstClaim, Beats
  <1>3. ASSUME NEW s \in Streams, RecordWinner(s), NEW t \in Streams, RecordWinner(t)
        PROVE  s = t
    BY <1>3 DEF RecordWinner, At, Goto, TypeOK
  <1>4. ASSUME NEW p \in Winners', p # Nil, NEW q \in Winners', q # Nil,
               Message(p)' = Message(q)'
        PROVE  p = q
    <2>1. CASE p \in Winners /\ q \in Winners
      BY <1>1, <1>4, <2>1 DEF WinnersAreUnique
    <2>2. CASE p \notin Winners /\ q \notin Winners
      <3>1. PICK s \in Streams : RecordWinner(s) /\ p = call[s].arg
        BY <1>4, <2>2, WinnersGrow
      <3>2. PICK t \in Streams : RecordWinner(t) /\ q = call[t].arg
        BY <1>4, <2>2, WinnersGrow
      <3> QED
        BY <1>3, <3>1, <3>2
    <2>3. CASE p \notin Winners /\ q \in Winners
      BY <1>2, <1>4, <2>3, WinnersGrow
    <2>4. CASE p \in Winners /\ q \notin Winners
      BY <1>2, <1>4, <2>4, WinnersGrow
    <2> QED
      BY <2>1, <2>2, <2>3, <2>4
  <1> QED
    BY <1>4 DEF WinnersAreUnique

------------------------------------------------------------------------------
\* Responses.

\* NotifyResponder queues at most one response, at the end of one queue.
LEMMA NotifyAppends ==
    ASSUME TypeOK, NEW s \in Streams, NotifyResponder(s),
           NEW r \in Streams, NEW i \in 1..Len(queued'[r])
    PROVE  \/ i \in 1..Len(queued[r]) /\ queued'[r][i] = queued[r][i]
           \/ /\ r = Turn(s)
              /\ queued'[r][i].max = call[s].max
              /\ queued'[r][i].code \in Statuses(r, call[s].arg, call[s].max, call[s].fail)
  <1>a. queued \in [Streams -> Seq([code : Codes, max : PointersOrNil])]
    BY DEF TypeOK
  <1>1. CASE UNCHANGED queued
    BY <1>1
  <1>2. CASE queued' # queued
    <2>1. PICK code \in Statuses(Turn(s), call[s].arg, call[s].max, call[s].fail) :
              queued' = [queued EXCEPT ![Turn(s)] =
                           Append(queued[Turn(s)], [code |-> code, max |-> call[s].max])]
      BY <1>2 DEF NotifyResponder
    <2>2. PICK response : response = [code |-> code, max |-> call[s].max]
      OBVIOUS
    <2>3. queued' = [queued EXCEPT ![Turn(s)] = Append(queued[Turn(s)], response)]
      BY <2>1, <2>2
    <2>4. response.max = call[s].max /\ response.code = code
      BY <2>2
    <2>5. Turn(s) \in Streams
      BY DEF NotifyResponder, Turn, HasTurn, TypeOK, Calls
    <2>6. CASE r # Turn(s)
      BY <1>a, <2>3, <2>6
    <2>7. CASE r = Turn(s)
      <3>1. queued'[r] = Append(queued[r], response)
        BY <1>a, <2>3, <2>5, <2>7
      <3>2. Len(Append(queued[r], response)) = Len(queued[r]) + 1
        BY <1>a
      <3>3. \A j \in 1..(Len(queued[r]) + 1) : Append(queued[r], response)[j] =
                IF j = Len(queued[r]) + 1 THEN response ELSE queued[r][j]
        BY <1>a
      <3>4. Len(queued[r]) \in Nat
        BY <1>a
      <3>5. queued'[r][i] = response \/ (i \in 1..Len(queued[r]) /\ queued'[r][i] = queued[r][i])
        BY <3>1, <3>2, <3>3, <3>4
      <3> QED
        BY <2>1, <2>4, <2>7, <3>5
    <2> QED
      BY <2>6, <2>7
  <1> QED
    BY <1>1, <1>2

\* Only NotifyResponder queues responses.
LEMMA OnlyNotifyQueues ==
    ASSUME [Next]_vars
    PROVE  UNCHANGED queued \/ \E s \in Streams : NotifyResponder(s)
  BY DEF Next, Handle, Client, Write, Open, Close, Receive, Latched, LatchRole,
         LatchElectionID, RecordPanics, RecordWinner, RecordLoser, BeginNotification,
         CheckPanics, CheckResponder, MasterNotFound, MarkSent, EndNotification,
         CheckMastership, CheckMastershipPanics, ApplyWrite, MapFault, Panic,
         vars, arbitrationVars

\* A response was in its queue before, or is the one of the running notification.
LEMMA QueuesGrow ==
    ASSUME TypeOK, [Next]_vars, NEW r \in Streams, NEW i \in 1..Len(queued'[r])
    PROVE  \/ i \in 1..Len(queued[r]) /\ queued'[r][i] = queued[r][i]
           \/ \E s \in Streams :
                 /\ NotifyResponder(s) /\ r = Turn(s)
                 /\ queued'[r][i].max = call[s].max
                 /\ queued'[r][i].code \in Statuses(r, call[s].arg, call[s].max, call[s].fail)
  BY OnlyNotifyQueues, NotifyAppends

\* A queued response stays where it is.
LEMMA QueuesKeep ==
    ASSUME TypeOK, [Next]_vars, NEW r \in Streams, NEW i \in 1..Len(queued[r])
    PROVE  i \in 1..Len(queued'[r]) /\ queued'[r][i] = queued[r][i]
  <1>a. queued \in [Streams -> Seq([code : Codes, max : PointersOrNil])]
    BY DEF TypeOK
  <1>1. CASE UNCHANGED queued
    BY <1>1
  <1>2. ASSUME NEW t \in Streams, NEW response,
               queued' = [queued EXCEPT ![t] = Append(queued[t], response)]
        PROVE  i \in 1..Len(queued'[r]) /\ queued'[r][i] = queued[r][i]
    <2>1. Len(Append(queued[t], response)) = Len(queued[t]) + 1
      BY <1>a
    <2>2. \A j \in 1..Len(queued[t]) : Append(queued[t], response)[j] = queued[t][j]
      BY <1>a
    <2>3. Len(queued[r]) \in Nat
      BY <1>a
    <2> QED
      BY <1>a, <1>2, <2>1, <2>2, <2>3
  <1>3. ASSUME NEW s \in Streams, NotifyResponder(s)
        PROVE  i \in 1..Len(queued'[r]) /\ queued'[r][i] = queued[r][i]
    <2>1. Turn(s) \in Streams
      BY <1>3 DEF NotifyResponder, Turn, HasTurn, TypeOK, Calls
    <2> QED
      BY <1>1, <1>2, <1>3, <2>1 DEF NotifyResponder
  <1> QED
    BY <1>1, <1>3, OnlyNotifyQueues

\* A stream is told OK only for a pointer to its own message (IsMaster).
LEMMA OkIsOwnStep ==
    ASSUME TypeOK, LatchIsOwn, OkIsOwn, [Next]_vars
    PROVE  OkIsOwn'
  <1>1. ASSUME NEW r \in Streams, NEW i \in 1..Len(queued'[r]),
               queued'[r][i].code = "OK", queued'[r][i].max # Nil
        PROVE  queued'[r][i].max[1] = r
    <2>1. CASE i \in 1..Len(queued[r]) /\ queued'[r][i] = queued[r][i]
      BY <1>1, <2>1 DEF OkIsOwn
    <2>2. ASSUME NEW s \in Streams, queued'[r][i].max = call[s].max,
                 queued'[r][i].code \in Statuses(r, call[s].arg, call[s].max, call[s].fail)
          PROVE  queued'[r][i].max[1] = r
      <3>1. call[s].fail # "OK"
        BY DEF TypeOK, Calls
      <3>2. latchedID[r] = call[s].max
        BY <1>1, <2>2, <3>1 DEF Statuses, Status
      <3> QED
        BY <1>1, <2>2, <3>2 DEF LatchIsOwn
    <2> QED
      BY <2>1, <2>2, QueuesGrow
  <1> QED
    BY <1>1 DEF OkIsOwn

------------------------------------------------------------------------------
\* Writes.

\* An election that some stream had recorded stays so.
LEMMA WasRecordedStays ==
    ASSUME TypeOK, PendingIsLast, [Next]_vars, NEW m, WasRecorded(m)
    PROVE  WasRecorded(m)'
  <1>0. PICK s \in Streams : \E n \in 1..Len(received[s]) : ~ Pending(s, n) /\ received[s][n] = m
    BY DEF WasRecorded
  <1>1. PICK n \in 1..Len(received[s]) : ~ Pending(s, n) /\ received[s][n] = m
    BY <1>0
  <1>2. PICK p : p = <<s, n>>
    OBVIOUS
  <1>3. n \in Nat \ {0} /\ n <= Len(received[s])
    BY <1>1 DEF TypeOK
  <1>4. p \in Pointers /\ p[1] = s /\ p[2] = n
    BY <1>2, <1>3 DEF Pointers
  <1>5. RecordedClaim(p) /\ Message(p) = m
    BY <1>1, <1>3, <1>4, MastershipAssumption DEF RecordedClaim, Valid, Message
  <1>6. RecordedClaim(p)' /\ Message(p)' = m
    BY <1>5, RecordedStays
  <1>7. n \in 1..Len(received'[s])
    BY <1>3, <1>4, <1>6, TypeStep DEF RecordedClaim, Valid, TypeOK
  <1> QED
    BY <1>4, <1>6, <1>7 DEF RecordedClaim, Message, WasRecorded

\* Write compares with the role map, so what it lets through was recorded.
LEMMA WritesWereRecordedStep ==
    ASSUME TypeOK, PendingIsLast, WinnersWereRecorded, WritesWereRecorded, [Next]_vars
    PROVE  WritesWereRecorded'
  <1>1. ASSUME NEW x \in Writers, NEW r \in Roles, NEW e \in Elections,
               CheckMastership(x, r, e)
        PROVE  WasRecorded([role |-> r, id |-> e])
    <2>1. PICK p : p = roleConfigs[r]
      OBVIOUS
    <2>2. r \in DOMAIN roleConfigs /\ p # Nil /\ ElectionOf(p) = e
      BY <1>1, <2>1 DEF CheckMastership, HasMastership
    <2>3. RecordedClaim(p) /\ RoleName(p) = r
      BY <2>1, <2>2, WinnerKinds DEF WinnersWereRecorded
    <2>4. Message(p) \in Messages /\ p[1] \in Streams /\ p[2] \in 1..Len(received[p[1]])
      BY <2>2, <2>3, PointerType DEF RecordedClaim
    <2>5. Message(p) = [role |-> r, id |-> e]
      BY <2>2, <2>3, <2>4 DEF RoleName, ElectionOf, Messages
    <2> QED
      BY <2>3, <2>4, <2>5 DEF WasRecorded, RecordedClaim, Message
  <1>2. ASSUME NEW w \in (applied \cup {writer[x] : x \in Writers})', w # IdleWriter
        PROVE  \/ w \in applied \cup {writer[x] : x \in Writers}
               \/ WasRecorded(w)
    <2>1. ASSUME NEW x \in Writers, NEW r \in Roles, NEW e \in Elections,
                 CheckMastership(x, r, e)
          PROVE  \/ w \in applied \cup {writer[y] : y \in Writers}
                 \/ WasRecorded(w)
      <3>1. UNCHANGED applied
        BY <2>1 DEF CheckMastership
      <3>2. \A y \in Writers : writer'[y] = writer[y] \/ writer'[y] = [role |-> r, id |-> e]
        BY <2>1 DEF CheckMastership, TypeOK
      <3> QED
        BY <1>2, <1>1, <2>1, <3>1, <3>2
    <2>2. ASSUME NEW x \in Writers, ApplyWrite(x)
          PROVE  w \in applied \cup {writer[y] : y \in Writers}
      BY <1>2, <2>2 DEF ApplyWrite, TypeOK
    <2>3. CASE UNCHANGED <<writer, applied>>
      BY <1>2, <2>3
    <2> QED
      BY <2>1, <2>2, <2>3
      DEF Next, Handle, Client, Write, Open, Close, Receive, Latched, LatchRole,
          LatchElectionID, RecordPanics, RecordWinner, RecordLoser, BeginNotification,
          CheckPanics, CheckResponder, MasterNotFound, NotifyResponder, MarkSent,
          EndNotification, CheckMastershipPanics, MapFault, Panic, vars, writeVars
  <1>3. ASSUME NEW w \in (applied \cup {writer[x] : x \in Writers})', w # IdleWriter
        PROVE  WasRecorded(w)'
    <2>1. WasRecorded(w)
      BY <1>2, <1>3 DEF WritesWereRecorded
    <2> QED
      BY <2>1, WasRecordedStays
  <1> QED
    BY <1>3 DEF WritesWereRecorded, IdleWriter

------------------------------------------------------------------------------
\* The inductive invariant.

\* IInv holds of every reachable state.
LEMMA Invariant == Spec => []IInv
  <1>1. Init => IInv
    <2> SUFFICES ASSUME Init PROVE IInv
      OBVIOUS
    <2>1. TypeOK
      BY InitType
    <2>2. \A s \in Streams : call[s].arg = Nil /\ call[s].max = Nil /\ ~ call[s].closing
                           /\ pc[s] = "new" /\ Len(received[s]) = 0 /\ Len(queued[s]) = 0
                           /\ latchedID[s] = Nil
      BY DEF Init, NoCall
    <2>3. DOMAIN roleConfigs = {} /\ applied = {} /\ \A w \in Writers : writer[w] = IdleWriter
      BY DEF Init
    <2>4. \A p \in Winners : p = Nil
      BY <2>2, <2>3 DEF Winners
    <2>5. PendingIsLast /\ LatchIsOwn
      BY <2>2 DEF PendingIsLast, LatchIsOwn
    <2>6. WinnerIsHighest /\ OkIsOwn
      BY <2>2 DEF WinnerIsHighest, OkIsOwn
    <2>7. WinnersWereRecorded /\ WinnersAreUnique
      BY <2>3, <2>4 DEF WinnersWereRecorded, WinnersAreUnique
    <2>8. WritesWereRecorded
      BY <2>3 DEF WritesWereRecorded
    <2> QED
      BY <2>1, <2>5, <2>6, <2>7, <2>8 DEF IInv
  <1>2. IInv /\ [Next]_vars => IInv'
    BY TypeStep, PendingIsLastStep, LatchIsOwnStep, WinnerIsHighestStep,
       WinnersWereRecordedStep, WinnersAreUniqueStep, OkIsOwnStep, WritesWereRecordedStep
    DEF IInv
  <1> QED
    BY <1>1, <1>2, PTL DEF Spec

\* Spec => []WinnerIsHighest: whatever the interleaving of the handlers, and
\* whoever disconnects, a claim that went through RecordRoleElection leaves its
\* role with a winner that is no lower (device.go:295).
THEOREM WinnerStaysHighest == Spec => []WinnerIsHighest
  <1>1. IInv => WinnerIsHighest
    BY DEF IInv
  <1> QED
    BY <1>1, Invariant, PTL

\* Winners are unique and OKs are own: two OKs for one election are for one stream.
LEMMA InvariantGivesOneOk ==
    ASSUME IInv
    PROVE  OneOkPerElection
  <1>1. ASSUME NEW a \in Oks, NEW b \in Oks, a.role = b.role, a.id = b.id
        PROVE  a.stream = b.stream
    <2>1. PICK i \in 1..Len(queued[a.stream]) :
              /\ queued[a.stream][i].code = "OK"
              /\ queued[a.stream][i].max # Nil
              /\ Message(queued[a.stream][i].max) = [role |-> a.role, id |-> a.id]
      BY DEF Oks
    <2>2. PICK j \in 1..Len(queued[b.stream]) :
              /\ queued[b.stream][j].code = "OK"
              /\ queued[b.stream][j].max # Nil
              /\ Message(queued[b.stream][j].max) = [role |-> b.role, id |-> b.id]
      BY DEF Oks
    <2>3. a.stream \in Streams /\ b.stream \in Streams
      BY DEF Oks
    <2>4. queued[a.stream][i].max \in Winners /\ queued[b.stream][j].max \in Winners
      BY <2>1, <2>2, <2>3, WinnerKinds
    <2>5. queued[a.stream][i].max = queued[b.stream][j].max
      BY <1>1, <2>1, <2>2, <2>4 DEF IInv, WinnersAreUnique
    <2> QED
      BY <1>1, <2>1, <2>2, <2>3, <2>5 DEF IInv, OkIsOwn
  <1> QED
    BY <1>1 DEF OneOkPerElection

\* Spec => []OneOkPerElection: although notifications of several handlers
\* interleave and read streams that are latching, RunMastershipArbitration never
\* tells two streams OK for one election of one role (device.go:355).
THEOREM OneOk == Spec => []OneOkPerElection
  <1>1. IInv => OneOkPerElection
    BY InvariantGivesOneOk
  <1> QED
    BY <1>1, Invariant, PTL

\* Spec => []WritesWereMasters: a Write that passes checkMastership carries an
\* election that was recorded, and the recorded one never falls below it
\* (p4runtime.go:57).
THEOREM WritersWereMasters == Spec => []WritesWereMasters
  <1>1. ASSUME IInv, NEW w \in applied
        PROVE  /\ WasRecorded(w)
               /\ w.role \in DOMAIN roleConfigs
               /\ ~ Larger(w.id, ElectionOf(roleConfigs[w.role]))
    <2>1. w \in Messages /\ w # IdleWriter
      <3>1. w \in Messages
        BY <1>1 DEF IInv, TypeOK
      <3>2. w.id \in Elections
        BY <3>1 DEF Messages
      <3> QED
        BY <3>1, <3>2, MastershipAssumption DEF IdleWriter
    <2>2. WasRecorded(w)
      BY <1>1, <2>1 DEF IInv, WritesWereRecorded
    <2>3. PICK s \in Streams : \E n \in 1..Len(received[s]) :
                                   ~ Pending(s, n) /\ received[s][n] = w
      BY <2>2 DEF WasRecorded
    <2>4. PICK n \in 1..Len(received[s]) : ~ Pending(s, n) /\ received[s][n] = w
      BY <2>3
    <2>5. PICK p : p = <<s, n>>
      OBVIOUS
    <2>6. n \in Nat \ {0}
      BY <1>1, <2>4 DEF IInv, TypeOK
    <2>7. p # Nil /\ Message(p) = w /\ HasWinner(p)
      BY <1>1, <2>4, <2>5, <2>6, MastershipAssumption
      DEF IInv, WinnerIsHighest, Pointers, Message
    <2> QED
      BY <2>2, <2>7 DEF HasWinner, RoleName, ElectionOf
  <1>2. IInv => WritesWereMasters
    BY <1>1 DEF WritesWereMasters
  <1> QED
    BY <1>2, Invariant, PTL

------------------------------------------------------------------------------
\* The connections of the device.

Addresses == {Address[s] : s \in Streams}
StreamsAt(a) == {s \in Streams : Address[s] = a}
Served == {s \in Streams : pc[s] \notin {"new", "closed"} /\ ~ call[s].closing}

\* As many connections with an address as responders with it, for every address.
ConnectionsInv ==
    /\ IsInjective(responders)
    /\ ToSet(responders) = Served
    /\ \A a \in Addresses :
        Cardinality(Places(connections, {a})) = Cardinality(Places(responders, StreamsAt(a)))

\* The places the property counts.
LEMMA ConnectionsInvCounts ==
    ASSUME TypeOK, ConnectionsInv
    PROVE  ConnectionsMatchResponders
  <1>1. /\ responders \in Seq(Streams) /\ connections \in Seq(Addresses)
    BY DEF TypeOK, Addresses
  <1>2. ToSet(connections) \subseteq Addresses /\ ToSet(responders) \subseteq Streams
    BY <1>1 DEF ToSet
  <1>3. ASSUME NEW a \in Addresses
        PROVE  Cardinality({i \in DOMAIN connections : connections[i] = a}) =
               Cardinality({i \in DOMAIN responders : Address[responders[i]] = a})
    <2>1. Places(connections, {a}) = {i \in DOMAIN connections : connections[i] = a}
      BY DEF Places
    <2>2. Places(responders, StreamsAt(a)) = {i \in DOMAIN responders : Address[responders[i]] = a}
      BY <1>1 DEF Places, StreamsAt
    <2> QED
      BY <2>1, <2>2 DEF ConnectionsInv
  <1>4. ToSet(connections) \cup {Address[s] : s \in ToSet(responders)} \subseteq Addresses
    BY <1>2 DEF Addresses
  <1> QED
    BY <1>3, <1>4 DEF ConnectionsMatchResponders, ConnectionsInv, Served

\* A new stream is appended to both lists (AddStreamResponder).
LEMMA OpenConnects ==
    ASSUME TypeOK, PendingIsLast, ConnectionsInv, NEW s \in Streams, Open(s)
    PROVE  ConnectionsInv'
  <1>1. /\ responders \in Seq(Streams) /\ connections \in Seq(Addresses)
        /\ Address[s] \in Addresses
    BY DEF TypeOK, Addresses
  <1>2. /\ responders' = Append(responders, s)
        /\ connections' = Append(connections, Address[s])
        /\ pc' = [pc EXCEPT ![s] = "recv"] /\ pc[s] = "new" /\ UNCHANGED call
    BY DEF Open, Goto, At
  <1>3. Served' = Served \cup {s} /\ s \notin Served
    BY <1>2 DEF Served, PendingIsLast, TypeOK
  <1>4. /\ Len(responders) \in Nat /\ Len(responders') = Len(responders) + 1
        /\ \A i \in 1..Len(responders) : responders'[i] = responders[i]
        /\ responders'[Len(responders) + 1] = s
        /\ DOMAIN responders = 1..Len(responders)
        /\ DOMAIN responders' = 1..Len(responders) + 1
    BY <1>1, <1>2
  <1>5. \A i \in 1..Len(responders) + 1 : i \in 1..Len(responders) \/ i = Len(responders) + 1
    BY <1>4
  <1>6. /\ ToSet(responders) = {responders[i] : i \in 1..Len(responders)}
        /\ ToSet(responders') = {responders'[i] : i \in 1..Len(responders) + 1}
    BY <1>4 DEF ToSet
  <1>7. \A i \in 1..Len(responders) : i \in 1..Len(responders) + 1 /\ responders[i] # s
    BY <1>3, <1>4, <1>6 DEF ConnectionsInv
  <1>8. Len(responders) + 1 \in 1..Len(responders) + 1
    BY <1>4
  <1>9. IsInjective(responders')
    BY <1>4, <1>5, <1>7 DEF IsInjective, ConnectionsInv
  <1>10. ToSet(responders') = Served'
    BY <1>3, <1>4, <1>5, <1>6, <1>7, <1>8 DEF ConnectionsInv
  <1>11. ASSUME NEW a \in Addresses
         PROVE  Cardinality(Places(connections', {a})) =
                Cardinality(Places(responders', StreamsAt(a)))
    <2>1. Address[s] \in {a} <=> s \in StreamsAt(a)
      BY DEF StreamsAt
    <2>2. Cardinality(Places(connections', {a})) =
            Cardinality(Places(connections, {a})) + (IF Address[s] \in {a} THEN 1 ELSE 0)
      BY <1>1, <1>2, AppendPlaces
    <2>3. Cardinality(Places(responders', StreamsAt(a))) =
            Cardinality(Places(responders, StreamsAt(a)))
              + (IF s \in StreamsAt(a) THEN 1 ELSE 0)
      BY <1>1, <1>2, AppendPlaces
    <2> QED
      BY <2>1, <2>2, <2>3 DEF ConnectionsInv
  <1> QED
    BY <1>9, <1>10, <1>11 DEF ConnectionsInv

\* A stream that leaves is taken off both lists, one connection with its address
\* for the one responder: there is such a connection as long as the stream is
\* served, whichever of the streams of its client left before
\* (RemoveStreamResponder).
LEMMA CloseDisconnects ==
    ASSUME TypeOK, PendingIsLast, ConnectionsInv, NEW s \in Streams, Close(s)
    PROVE  ConnectionsInv'
  <1>1. /\ responders \in Seq(Streams) /\ connections \in Seq(Addresses)
        /\ Address[s] \in Addresses /\ IsInjective(responders)
    BY DEF TypeOK, Addresses, ConnectionsInv
  <1>2. /\ responders' = RemoveFirst(responders, s)
        /\ connections' = RemoveFirst(connections, Address[s])
        /\ pc[s] = "recv" /\ pc' = [pc EXCEPT ![s] = "record"]
        /\ call' = [call EXCEPT ![s] = [call[s] EXCEPT !.arg = latchedID[s], !.closing = TRUE]]
    BY DEF Close, Goto, At, SetCall, RemoveOne
  <1>3. s \in Served /\ Served' = Served \ {s}
    <2>1. s \in Served
      BY <1>2 DEF PendingIsLast, Served
    <2>2. call[s] \in Calls /\ call \in [Streams -> Calls] /\ pc \in [Streams -> Labels]
      BY DEF TypeOK
    <2>3. call'[s].closing
      BY <1>2, <2>2 DEF Calls
    <2>4. \A t \in Streams \ {s} : pc'[t] = pc[t] /\ call'[t] = call[t]
      BY <1>2, <2>2
    <2> QED
      BY <2>1, <2>3, <2>4 DEF Served
  <1>4. s \in ToSet(responders)
    BY <1>3 DEF ConnectionsInv
  <1>5. /\ \A i, j \in 1..Len(responders') : responders'[i] = responders'[j] => i = j
        /\ ToSet(responders') = ToSet(responders) \ {s}
        /\ responders' \in Seq(Streams)
    <2>1. \A i, j \in 1..Len(responders) : responders[i] = responders[j] => i = j
      BY <1>1 DEF IsInjective
    <2>2. /\ \A i, j \in 1..Len(RemoveFirst(responders, s)) :
               RemoveFirst(responders, s)[i] = RemoveFirst(responders, s)[j] => i = j
          /\ ToSet(RemoveFirst(responders, s)) = ToSet(responders) \ {s}
      BY <1>1, <2>1, RemoveFirstOfOnce
    <2>3. RemoveFirst(responders, s) \in Seq(Streams)
      BY <1>1, RemoveFirstType
    <2> QED
      BY <1>2, <2>2, <2>3
  <1>6. IsInjective(responders') /\ ToSet(responders') = Served'
    BY <1>3, <1>5 DEF IsInjective, ConnectionsInv
  <1>7. Places(responders, {s}) # {} /\ Places(responders, StreamsAt(Address[s])) # {}
    BY <1>1, <1>4 DEF ToSet, Places, StreamsAt
  <1>8. Places(connections, {Address[s]}) # {}
    <2>1. Cardinality(Places(responders, StreamsAt(Address[s]))) # 0
      BY <1>1, <1>7, PlacesFinite, FS_EmptySet
    <2>2. Cardinality(Places(connections, {Address[s]})) # 0
      BY <1>1, <2>1 DEF ConnectionsInv
    <2> QED
      BY <2>2, FS_EmptySet
  <1>9. ASSUME NEW a \in Addresses
        PROVE  Cardinality(Places(connections', {a})) =
               Cardinality(Places(responders', StreamsAt(a)))
    <2>1. Address[s] \in {a} <=> s \in StreamsAt(a)
      BY DEF StreamsAt
    <2>2. Cardinality(Places(connections', {a})) =
            Cardinality(Places(connections, {a})) - (IF Address[s] \in {a} THEN 1 ELSE 0)
      BY <1>1, <1>2, <1>8, RemoveFirstPlaces
    <2>3. Cardinality(Places(responders', StreamsAt(a))) =
            Cardinality(Places(responders, StreamsAt(a)))
              - (IF s \in StreamsAt(a) THEN 1 ELSE 0)
      BY <1>1, <1>2, <1>7, RemoveFirstPlaces
    <2> QED
      BY <2>1, <2>2, <2>3 DEF ConnectionsInv
  <1> QED
    BY <1>6, <1>9 DEF ConnectionsInv

\* Every other step leaves both lists alone, and whether a stream is served.
LEMMA OthersKeepConnections ==
    ASSUME TypeOK, PendingIsLast, ConnectionsInv, [Next]_vars,
           \A s \in Streams : ~ Open(s) /\ ~ Close(s)
    PROVE  ConnectionsInv'
  <1>a. pc \in [Streams -> Labels] /\ call \in [Streams -> Calls]
    BY DEF TypeOK
  <1>1. UNCHANGED <<responders, connections>>
    BY DEF Next, Handle, Client, Write, Receive, LatchRole, LatchElectionID, Latched,
           RecordPanics, RecordWinner, RecordLoser, BeginNotification, CheckPanics,
           CheckResponder, MasterNotFound, NotifyResponder, MarkSent, EndNotification,
           CheckMastership, CheckMastershipPanics, ApplyWrite, MapFault, Panic, vars, deviceVars
  <1>2. Served' = Served
    <2>1. ASSUME NEW s \in Streams, NEW r \in Roles, NEW e \in Elections, Receive(s, r, e)
          PROVE  Served' = Served
      <3>1. call'[s].closing = call[s].closing /\ pc[s] = "recv" /\ pc'[s] = "latch"
        BY <1>a, <2>1 DEF Receive, SetCall, Goto, At, Calls
      <3>2. \A t \in Streams \ {s} : pc'[t] = pc[t] /\ call'[t] = call[t]
        BY <1>a, <2>1 DEF Receive, SetCall, Goto
      <3> QED
        BY <3>1, <3>2 DEF Served
    <2>2. ASSUME NEW s \in Streams, LatchRole(s) \/ LatchElectionID(s)
          PROVE  Served' = Served
      <3>1. PICK field \in Fields : Latched(s, field)
        BY <2>2 DEF LatchRole, LatchElectionID, Fields
      <3>2. call'[s].closing = call[s].closing
        BY <1>a, <3>1 DEF Latched, SetCall, Calls
      <3>3. pc[s] = "latch" /\ pc'[s] \in {"latch", "record"}
        BY <1>a, <3>1 DEF Latched, Goto, At
      <3>4. \A t \in Streams \ {s} : pc'[t] = pc[t] /\ call'[t] = call[t]
        BY <1>a, <3>1 DEF Latched, SetCall, Goto
      <3> QED
        BY <3>2, <3>3, <3>4 DEF Served
    <2>3. ASSUME NEW s \in Streams,
                 RecordWinner(s) \/ RecordLoser(s) \/ BeginNotification(s) \/ CheckResponder(s)
                 \/ MasterNotFound(s) \/ NotifyResponder(s) \/ MarkSent(s)
          PROVE  Served' = Served
      <3>1. pc[s] \notin {"new", "closed"} /\ pc'[s] \notin {"new", "closed", "recv"}
        BY <1>a, <2>3
        DEF RecordWinner, RecordLoser, BeginNotification, CheckResponder, MasterNotFound,
            NotifyResponder, MarkSent, Goto, At
      <3>2. \A t \in Streams \ {s} : pc'[t] = pc[t] /\ call'[t] = call[t]
        BY <2>3, LocalSteps
      <3>3. call'[s].closing = call[s].closing
        BY ZenonT(40), <1>a, <2>3
        DEF RecordWinner, RecordLoser, BeginNotification, CheckResponder, MasterNotFound,
            NotifyResponder, MarkSent, SetCall, Calls
      <3> QED
        BY <3>1, <3>2, <3>3 DEF Served
    <2>4. ASSUME NEW s \in Streams, EndNotification(s)
          PROVE  Served' = Served
      <3>1. /\ pc[s] = "notify" /\ pc'[s] = IF call[s].closing THEN "closed" ELSE "recv"
            /\ ~ call'[s].closing
        BY <1>a, <2>4 DEF EndNotification, SetCall, Goto, At, NoCall
      <3>2. \A t \in Streams \ {s} : pc'[t] = pc[t] /\ call'[t] = call[t]
        BY <2>4, LocalSteps
      <3> QED
        BY <3>1, <3>2 DEF Served
    <2>5. CASE UNCHANGED <<pc, call>>
      BY <2>5 DEF Served
    <2> QED
      BY <2>1, <2>2, <2>3, <2>4, <2>5
      DEF Next, Handle, Client, Write, RecordPanics, CheckPanics, CheckMastership,
          CheckMastershipPanics, ApplyWrite, MapFault, Panic, vars, arbitrationVars
  <1> QED
    BY <1>1, <1>2 DEF ConnectionsInv

\* Every schedule keeps the connections and the responders in step.
LEMMA ConnectionsInvariant == Spec => []ConnectionsInv
  <1>1. Init => ConnectionsInv
    <2> SUFFICES ASSUME Init PROVE ConnectionsInv
      OBVIOUS
    <2>1. responders = << >> /\ connections = << >> /\ \A s \in Streams : pc[s] = "new"
      BY DEF Init
    <2>2. IsInjective(responders) /\ ToSet(responders) = Served
      BY <2>1 DEF IsInjective, ToSet, Served
    <2>3. \A P : Places(responders, P) = {} /\ Places(connections, P) = {}
      BY <2>1 DEF Places
    <2> QED
      BY <2>2, <2>3 DEF ConnectionsInv
  <1>2. IInv /\ ConnectionsInv /\ [Next]_vars => ConnectionsInv'
    BY OpenConnects, CloseDisconnects, OthersKeepConnections DEF IInv
  <1> QED
    BY <1>1, <1>2, Invariant, PTL DEF Spec

\* The device lists one connection for each stream it serves, with the address
\* of its client, however many streams each client has and in whatever order
\* they come and go (device.go:385); and it serves each stream once.
THEOREM ConnectionsAlwaysMatch == Spec => []ConnectionsMatchResponders
  <1>1. IInv /\ ConnectionsInv => ConnectionsMatchResponders
    BY ConnectionsInvCounts DEF IInv
  <1> QED
    BY <1>1, Invariant, ConnectionsInvariant, PTL

------------------------------------------------------------------------------
\* Clients that take turns.

\* A step of one goroutine or of its client moves that stream only.
LEMMA OnlyActorMoves ==
    ASSUME TypeOK, NEW s \in Streams, Handle(s) \/ Client(s)
    PROVE  \A t \in Streams \ {s} :
              /\ pc'[t] = pc[t] /\ call'[t] = call[t] /\ received'[t] = received[t]
              /\ latchedID'[t] = latchedID[t] /\ latchedRole'[t] = latchedRole[t]
  <1>a. /\ pc \in [Streams -> Labels] /\ call \in [Streams -> Calls]
        /\ received \in [Streams -> Seq(Messages)]
        /\ latchedID \in [Streams -> PointersOrNil] /\ latchedRole \in [Streams -> PointersOrNil]
    BY DEF TypeOK
  <1>1. CASE Client(s)
    BY <1>a, <1>1 DEF Client, Open, Close, Receive, Goto, SetCall, latchVars
  <1>2. CASE LatchRole(s) \/ LatchElectionID(s)
    BY <1>a, <1>2 DEF LatchRole, LatchElectionID, Latched, Goto, SetCall
  <1>3. CASE RecordPanics(s) \/ CheckPanics(s)
    BY <1>3 DEF RecordPanics, CheckPanics, Panic, arbitrationVars, latchVars
  <1>4. CASE RecordWinner(s) \/ RecordLoser(s) \/ BeginNotification(s) \/ CheckResponder(s)
             \/ MasterNotFound(s) \/ NotifyResponder(s) \/ MarkSent(s) \/ EndNotification(s)
    <2>1. UNCHANGED <<received, latchedID, latchedRole>>
      BY <1>4 DEF RecordWinner, RecordLoser, BeginNotification, CheckResponder,
         MasterNotFound, NotifyResponder, MarkSent, EndNotification, latchVars
    <2> QED
      BY <1>4, <2>1, LocalSteps
  <1> QED
    BY <1>1, <1>2, <1>3, <1>4 DEF Handle

\* While a goroutine or its client takes a step, no other stream is being served.
LEMMA OthersAreIdle ==
    ASSUME TypeOK, OneIsBusy, ClientsTakeTurns, NEW s \in Streams, Handle(s) \/ Client(s)
    PROVE  \A t \in Streams \ {s} : ~ Busy(t) /\ ~ Busy(t)'
  <1>a. pc \in [Streams -> Labels]
    BY DEF TypeOK
  <1>1. CASE Handle(s)
    <2>1. pc[s] \notin {"new", "recv", "closed"}
      BY <1>1 DEF Handle, LatchRole, LatchElectionID, Latched, RecordPanics, RecordWinner,
         RecordLoser, BeginNotification, CheckPanics, CheckResponder, MasterNotFound,
         NotifyResponder, MarkSent, EndNotification, At
    <2> QED
      BY <2>1, OnlyActorMoves DEF OneIsBusy, Busy
  <1>2. CASE Client(s)
    <2>1. pc[s] \in {"new", "recv"} /\ pc'[s] # pc[s]
      BY <1>a, <1>2 DEF Client, Open, Close, Receive, At, Goto
    <2> QED
      BY <2>1, OnlyActorMoves DEF ClientsTakeTurns, Busy
  <1> QED
    BY <1>1, <1>2

\* Writers do not touch the streams.
LEMMA WritersKeepStreams ==
    ASSUME NEW w \in Writers, Write(w)
    PROVE  UNCHANGED <<received, pc, call, latchedRole, latchedID, sentCode, queued,
                       responders, roleConfigs>>
  BY DEF Write, CheckMastership, CheckMastershipPanics, ApplyWrite, MapFault, Panic,
         arbitrationVars, latchVars, deviceVars

\* One stream is being served at a time.
LEMMA OneIsBusyStep ==
    ASSUME TypeOK, OneIsBusy, [SerialNext]_vars
    PROVE  OneIsBusy'
  <1>1. CASE UNCHANGED <<pc, received>>
    BY <1>1 DEF OneIsBusy, Busy
  <1>2. ASSUME NEW s \in Streams, Handle(s) \/ Client(s), SerialNext
        PROVE  OneIsBusy'
    BY <1>2, OthersAreIdle DEF OneIsBusy, SerialNext
  <1>3. ASSUME NEW w \in Writers, Write(w)
        PROVE  UNCHANGED <<pc, received>>
    BY <1>3, WritersKeepStreams
  <1> QED
    BY <1>1, <1>2, <1>3 DEF SerialNext, Next, vars, arbitrationVars

\* A new claim has a new election ID.
LEMMA OneClaimStep ==
    ASSUME TypeOK, OneClaimPerElection, [SerialNext]_vars
    PROVE  OneClaimPerElection'
  <1>1. CASE UNCHANGED received
    BY <1>1 DEF OneClaimPerElection
  <1>2. ASSUME ClaimsAreDistinct, NEW s \in Streams, NEW r \in Roles, NEW e \in Elections,
               Receive(s, r, e)
        PROVE  OneClaimPerElection'
    <2> DEFINE N == Len(received[s]) + 1
    <2>1. /\ received' \in [Streams -> Seq(Messages)]
          /\ Len(received[s]) \in Nat /\ Len(received'[s]) = N
          /\ \A t \in Streams \ {s} : received'[t] = received[t]
          /\ \A t \in Streams : \A n \in 1..Len(received[t]) : received'[t][n] = received[t][n]
      BY <1>2, ReceiveAllocates
    <2>2. received'[s] # received[s] /\ Last(received'[s]) = received'[s][N]
      BY <2>1 DEF Last
    <2>3. \A t \in Streams : \A n \in 1..Len(received[t]) : received[t][n].id # received'[s][N].id
      BY <1>2, <2>2 DEF ClaimsAreDistinct
    <2>4. \A t \in Streams : \A n \in 1..Len(received'[t]) :
              n \in 1..Len(received[t]) \/ (t = s /\ n = N)
      BY <2>1
    <2>5. \A t \in Streams : \A n \in 1..Len(received[t]) : received'[t][n].id # received'[s][N].id
      BY <2>1, <2>3
    <2> HIDE DEF N
    <2>6. ASSUME NEW t \in Streams, NEW u \in Streams,
                 NEW m \in 1..Len(received'[t]), NEW n \in 1..Len(received'[u]),
                 received'[t][m].id = received'[u][n].id
          PROVE  t = u /\ m = n
      <3>1. CASE m \in 1..Len(received[t]) /\ n \in 1..Len(received[u])
        <4>1. received[t][m].id = received[u][n].id
          BY <2>1, <2>6, <3>1
        <4> QED
          BY <3>1, <4>1 DEF OneClaimPerElection
      <3>2. CASE m \in 1..Len(received[t]) /\ u = s /\ n = N
        BY <2>5, <2>6, <3>2
      <3>3. CASE t = s /\ m = N /\ n \in 1..Len(received[u])
        BY <2>5, <2>6, <3>3
      <3>4. CASE t = s /\ m = N /\ u = s /\ n = N
        BY <3>4
      <3> QED
        BY <2>4, <3>1, <3>2, <3>3, <3>4
    <2> QED
      BY <2>6 DEF OneClaimPerElection
  <1>3. [Next]_vars
    BY DEF SerialNext
  <1>4. CASE UNCHANGED vars
    BY <1>1, <1>4 DEF vars, arbitrationVars
  <1>5. CASE SerialNext
    BY <1>1, <1>2, <1>3, <1>5, OnlyReceiveAllocates DEF SerialNext
  <1> QED
    BY <1>4, <1>5
------------------------------------------------------------------------------
\* What the handlers have latched.

\* The search for the winner's stream changes the handler's place in it only.
LEMMA CheckSteps ==
    ASSUME TypeOK, NEW s \in Streams, CheckResponder(s)
    PROVE  /\ pc[s] = "check" /\ pc'[s] \in {"check", "notify"}
           /\ pc'[s] = "notify" => call'[s].next = 1
           /\ call'[s].closing = call[s].closing /\ call'[s].max = call[s].max
           /\ UNCHANGED <<received, latchedRole, latchedID, sentCode, queued, responders,
                          roleConfigs>>
  <1>a. pc \in [Streams -> Labels] /\ call \in [Streams -> Calls] /\ call[s] \in Calls
    BY DEF TypeOK
  <1>1. /\ pc[s] = "check"
        /\ UNCHANGED <<received, latchedRole, latchedID, sentCode, queued, responders,
                       roleConfigs>>
    BY DEF CheckResponder, At, latchVars, deviceVars
  <1>2. CASE /\ SetCall(s, [call[s] EXCEPT !.next = 1, !.fail = "ALREADY_EXISTS"])
             /\ Goto(s, "notify")
    BY <1>a, <1>1, <1>2 DEF SetCall, Goto, Calls
  <1>3. CASE /\ SetCall(s, [call[s] EXCEPT !.next = call[s].next + 1])
             /\ UNCHANGED pc
    BY <1>a, <1>1, <1>3 DEF SetCall, Calls
  <1> QED
    BY <1>1, <1>2, <1>3 DEF CheckResponder

\* A handler that told everybody is done with its call.
LEMMA LatchesStep ==
    ASSUME Roles = {DefaultRole}, TypeOK, TypeOK', PendingIsLast, Latches, [Next]_vars
    PROVE  Latches'
  <1>a. /\ pc \in [Streams -> Labels] /\ call \in [Streams -> Calls]
        /\ received \in [Streams -> Seq(Messages)]
        /\ latchedID \in [Streams -> PointersOrNil] /\ latchedRole \in [Streams -> PointersOrNil]
    BY DEF TypeOK
  <1>b. ASSUME NEW s \in Streams, Handle(s) \/ Client(s), LatchedBy(s)'
        PROVE  Latches'
    BY <1>b, OnlyActorMoves DEF Latches, LatchedBy, Telling
  <1>c. \A s \in Streams : LatchedBy(s) /\ call[s] \in Calls
    BY <1>a DEF Latches
  <1>1. ASSUME NEW s \in Streams, Open(s)
        PROVE  LatchedBy(s)'
    BY <1>a, <1>c, <1>1 DEF Open, Goto, At, LatchedBy, Telling, latchVars
  <1>2. ASSUME NEW s \in Streams, Close(s)
        PROVE  LatchedBy(s)'
    <2>1. /\ call'[s].arg = latchedID[s] /\ call'[s].closing /\ call'[s].next = call[s].next
          /\ pc'[s] = "record" /\ pc[s] = "recv" /\ UNCHANGED <<received, latchedRole, latchedID>>
      BY <1>a, <1>c, <1>2 DEF Close, Goto, At, SetCall, latchVars, Calls
    <2> QED
      BY <1>c, <2>1 DEF LatchedBy, Telling
  <1>3. ASSUME NEW s \in Streams, NEW r \in Roles, NEW e \in Elections, Receive(s, r, e)
        PROVE  LatchedBy(s)'
    <2>1. FieldsToWrite(s, r) = {"electionID"}
      BY <1>c DEF FieldsToWrite, LatchedBy
    <2>2. /\ call'[s].unlatched = {"electionID"} /\ call'[s].next = call[s].next
          /\ pc'[s] = "latch" /\ pc[s] = "recv" /\ UNCHANGED <<latchedRole, latchedID>>
      BY <1>a, <1>c, <1>3, <2>1 DEF Receive, Goto, At, SetCall, latchVars, Calls
    <2> QED
      BY <1>c, <2>2 DEF LatchedBy, Telling
  <1>4. ASSUME NEW s \in Streams
        PROVE  ~ LatchRole(s)
    BY <1>c DEF LatchedBy, LatchRole, Latched, At
  <1>5. ASSUME NEW s \in Streams, LatchElectionID(s)
        PROVE  LatchedBy(s)'
    <2>1. call[s].unlatched = {"electionID"} /\ pc[s] = "latch"
      BY <1>c, <1>5 DEF LatchedBy, LatchElectionID, Latched, At
    <2>2. /\ call'[s].arg = call[s].arg /\ call'[s].next = call[s].next
          /\ pc'[s] = "record" /\ latchedID'[s] = call[s].arg /\ UNCHANGED latchedRole
      BY <1>a, <1>c, <1>5, <2>1 DEF LatchElectionID, Latched, Goto, SetCall, Calls
    <2>3. call[s].arg # Nil
      BY <2>1 DEF PendingIsLast
    <2> QED
      BY <1>c, <2>1, <2>2, <2>3 DEF LatchedBy, Telling
  <1>6. ASSUME NEW s \in Streams, RecordWinner(s) \/ RecordLoser(s)
        PROVE  LatchedBy(s)'
    <2>1. /\ call'[s].closing = call[s].closing /\ call'[s].next = call[s].next
          /\ pc'[s] = "rlock" /\ pc[s] = "record" /\ UNCHANGED <<latchedRole, latchedID>>
      BY <1>a, <1>c, <1>6 DEF RecordWinner, RecordLoser, Goto, At, SetCall, latchVars, Calls
    <2> QED
      BY <1>c, <2>1 DEF LatchedBy, Telling
  <1>7. ASSUME NEW s \in Streams,
               BeginNotification(s) \/ CheckResponder(s) \/ MasterNotFound(s)
               \/ NotifyResponder(s) \/ MarkSent(s)
        PROVE  LatchedBy(s)'
    <2>1. /\ Telling(s) /\ pc'[s] \in {"check", "notify", "mark"}
      BY <1>a, <1>7
      DEF BeginNotification, CheckResponder, MasterNotFound, NotifyResponder, MarkSent,
          Goto, At, Telling
    <2>2. call'[s].closing = call[s].closing
      <3>1. CASE CheckResponder(s)
        BY <3>1, CheckSteps
      <3>2. CASE NotifyResponder(s)
        BY <1>a, <1>c, <3>2 DEF NotifyResponder, SetCall, Calls
      <3>3. CASE BeginNotification(s) \/ MasterNotFound(s) \/ MarkSent(s)
        BY <1>a, <1>c, <3>3 DEF BeginNotification, MasterNotFound, MarkSent, SetCall, Calls
      <3> QED
        BY <1>7, <3>1, <3>2, <3>3
    <2>3. UNCHANGED <<latchedRole, latchedID>>
      BY <1>7 DEF BeginNotification, CheckResponder, MasterNotFound, NotifyResponder, MarkSent,
                  latchVars
    <2> QED
      BY <1>c, <2>1, <2>2, <2>3 DEF LatchedBy, Telling
  <1>8. ASSUME NEW s \in Streams, EndNotification(s)
        PROVE  LatchedBy(s)'
    <2>1. /\ pc[s] = "notify" /\ pc'[s] = IF call[s].closing THEN "closed" ELSE "recv"
          /\ call'[s].next = 1 /\ UNCHANGED <<latchedRole, latchedID>>
      BY <1>a, <1>8 DEF EndNotification, Goto, At, SetCall, latchVars, NoCall
    <2>2. ~ call[s].closing => latchedID[s] # Nil
      BY <1>c, <2>1 DEF LatchedBy, Telling
    <2>3. call[s].closing \in BOOLEAN
      BY <1>c DEF Calls
    <2> QED
      BY <1>c, <2>1, <2>2, <2>3 DEF LatchedBy, Telling
  <1>9. CASE UNCHANGED <<received, pc, call, latchedRole, latchedID>>
    BY <1>9 DEF Latches, LatchedBy, Telling
  <1>10. ASSUME NEW s \in Streams, RecordPanics(s) \/ CheckPanics(s)
         PROVE  UNCHANGED <<received, pc, call, latchedRole, latchedID>>
    BY <1>10 DEF RecordPanics, CheckPanics, Panic, arbitrationVars, latchVars
  <1>11. ASSUME NEW s \in Streams, Handle(s) \/ Client(s)
         PROVE  Latches'
    <2>1. \/ LatchedBy(s)'
          \/ UNCHANGED <<received, pc, call, latchedRole, latchedID>>
      BY <1>1, <1>2, <1>3, <1>4, <1>5, <1>6, <1>7, <1>8, <1>10, <1>11 DEF Handle, Client
    <2> QED
      BY <1>9, <1>b, <1>11, <2>1
  <1> QED
    BY <1>9, <1>11, WritersKeepStreams DEF Next, vars, arbitrationVars, latchVars

------------------------------------------------------------------------------
\* One notification.

\* With one role nobody is passed over for another role's sake.
LEMMA OneRole ==
    ASSUME Roles = {DefaultRole}, TypeOK, NEW p, Valid(p)
    PROVE  RoleName(p) = DefaultRole /\ RolePointer(p) = Nil
  <1>1. RoleName(p) = DefaultRole
    BY PointerType DEF RoleName
  <1> QED
    BY <1>1 DEF RolePointer

\* The status of a responder says whether it latched the election the handler works
\* with; it is queued unless it was the last one sent.
LEMMA NotifySteps ==
    ASSUME Roles = {DefaultRole}, TypeOK, Latches, OneIsBusy,
           NEW s \in Streams, NotifyResponder(s), NEW r, r = Turn(s)
    PROVE  /\ pc[s] = "notify" /\ HasTurn(s)
           /\ call[s].next \in 1..Len(responders) /\ r = responders[call[s].next]
           /\ r \in Streams /\ r \in ToSet(responders)
           /\ UNCHANGED <<received, latchedRole, latchedID, sentCode, responders, roleConfigs>>
           /\ call'[s].closing = call[s].closing /\ call'[s].max = call[s].max
           /\ \E code \in Codes :
                /\ code = "OK" <=> latchedID[r] = call[s].max
                /\ \/ /\ sentCode[r] = code /\ UNCHANGED <<pc, queued>>
                      /\ call'[s].next = call[s].next + 1
                   \/ /\ pc'[s] = "mark" /\ LastCode(r)' = code
                      /\ call'[s].next = call[s].next /\ call'[s].code = code
                      /\ \A t \in Streams \ {r} : queued'[t] = queued[t]
  <1>a. /\ pc \in [Streams -> Labels] /\ call \in [Streams -> Calls] /\ call[s] \in Calls
        /\ queued \in [Streams -> Seq([code : Codes, max : PointersOrNil])]
        /\ responders \in Seq(Streams) /\ Valid(call[s].arg)
    BY DEF TypeOK
  <1>1. /\ pc[s] = "notify" /\ HasTurn(s)
        /\ UNCHANGED <<received, latchedRole, latchedID, sentCode, responders, roleConfigs>>
    BY DEF NotifyResponder, At, latchVars, deviceVars
  <1>2. call[s].next \in 1..Len(responders) /\ Len(responders) \in Nat
    BY <1>a, <1>1 DEF HasTurn, Calls
  <1>3. r = responders[call[s].next] /\ r \in Streams /\ r \in ToSet(responders)
    BY <1>a, <1>2 DEF Turn, ToSet
  <1>4. ~ (pc[r] = "latch")
    BY <1>1, <1>3 DEF OneIsBusy, Busy
  <1>5. latchedRole[r] = RolePointer(call[s].arg)
    BY <1>a, <1>3, OneRole DEF Latches, LatchedBy
  <1>6. PICK code : /\ code = Status(r, call[s].arg, call[s].max, call[s].fail)
                    /\ IF Skips(r, call[s].arg, code)
                       THEN /\ SetCall(s, [call[s] EXCEPT !.next = call[s].next + 1])
                            /\ UNCHANGED <<pc, queued>>
                       ELSE /\ queued' = [queued EXCEPT ![r] =
                                  Append(queued[r], [code |-> code, max |-> call[s].max])]
                            /\ SetCall(s, [call[s] EXCEPT !.code = code])
                            /\ Goto(s, "mark")
    BY <1>4 DEF NotifyResponder, Statuses
  <1>7. code \in Codes /\ (code = "OK" <=> latchedID[r] = call[s].max)
    BY <1>a, <1>5, <1>6 DEF Status, Calls, Codes
  <1>8. CASE Skips(r, call[s].arg, code)
    <2>1. sentCode[r] = code
      BY <1>5, <1>8 DEF Skips
    <2>2. call'[s].next = call[s].next + 1
      BY <1>a, <1>6, <1>8 DEF SetCall, Calls
    <2>3. call'[s].closing = call[s].closing /\ call'[s].max = call[s].max
      BY <1>a, <1>6, <1>8 DEF SetCall, Calls
    <2> QED
      BY <1>1, <1>2, <1>3, <1>6, <1>7, <1>8, <2>1, <2>2, <2>3
  <1>9. CASE ~ Skips(r, call[s].arg, code)
    <2>1. PICK response : response = [code |-> code, max |-> call[s].max]
      OBVIOUS
    <2>2. queued' = [queued EXCEPT ![r] = Append(queued[r], response)] /\ response.code = code
      BY <1>6, <1>9, <2>1
    <2>3. queued'[r] = Append(queued[r], response)
      BY <1>a, <1>3, <2>2
    <2>4. LastCode(r)' = code
      <3>1. Len(queued'[r]) = Len(queued[r]) + 1 /\ Len(queued[r]) \in Nat
        BY <1>a, <1>3, <2>3
      <3>2. queued'[r][Len(queued[r]) + 1] = response
        BY <1>a, <1>3, <2>3
      <3>3. queued'[r] # << >> /\ Last(queued'[r]) = response
        BY <3>1, <3>2 DEF Last
      <3> QED
        BY <2>2, <3>3 DEF LastCode
    <2>5. \A t \in Streams \ {r} : queued'[t] = queued[t]
      BY <1>a, <2>2
    <2>6. pc'[s] = "mark"
      BY <1>a, <1>6, <1>9 DEF Goto
    <2>7. /\ call'[s].next = call[s].next /\ call'[s].code = code
          /\ call'[s].closing = call[s].closing /\ call'[s].max = call[s].max
      BY <1>a, <1>6, <1>9 DEF SetCall, Calls
    <2> QED
      BY <1>1, <1>2, <1>3, <1>7, <2>4, <2>5, <2>6, <2>7
  <1> QED
    BY <1>8, <1>9

\* The status that was queued is remembered as sent.
LEMMA MarkSteps ==
    ASSUME TypeOK, NEW s \in Streams, MarkSent(s), HasTurn(s), NEW r, r = Turn(s)
    PROVE  /\ pc[s] = "mark" /\ pc'[s] = "notify"
           /\ call[s].next \in 1..Len(responders) /\ r = responders[call[s].next]
           /\ r \in Streams
           /\ UNCHANGED <<received, latchedRole, latchedID, queued, responders, roleConfigs>>
           /\ sentCode'[r] = call[s].code
           /\ \A t \in Streams \ {r} : sentCode'[t] = sentCode[t]
           /\ call'[s].closing = call[s].closing /\ call'[s].max = call[s].max
           /\ call'[s].next = call[s].next + 1
  <1>a. /\ pc \in [Streams -> Labels] /\ call \in [Streams -> Calls] /\ call[s] \in Calls
        /\ sentCode \in [Streams -> Codes \cup {NoCode}]
        /\ responders \in Seq(Streams)
    BY DEF TypeOK
  <1>1. call[s].next \in 1..Len(responders) /\ Len(responders) \in Nat
    BY <1>a DEF HasTurn, Calls
  <1>2. r = responders[call[s].next] /\ r \in Streams
    BY <1>a, <1>1 DEF Turn
  <1>3. /\ pc[s] = "mark" /\ pc'[s] = "notify"
        /\ UNCHANGED <<received, latchedRole, latchedID, queued, responders, roleConfigs>>
        /\ sentCode' = [sentCode EXCEPT ![r] = call[s].code]
    BY <1>a DEF MarkSent, At, Goto, latchVars, deviceVars
  <1>4. /\ call'[s].closing = call[s].closing /\ call'[s].max = call[s].max
        /\ call'[s].next = call[s].next + 1
    BY <1>a DEF MarkSent, SetCall, Calls
  <1> QED
    BY <1>a, <1>1, <1>2, <1>3, <1>4

\* Where nobody is between queueing a response and marking it as sent, nothing is
\* unmarked.
LEMMA NobodyMarks ==
    ASSUME SentIsLast, UNCHANGED <<queued, sentCode>>,
           \A s \in Streams : pc[s] # "mark" /\ pc'[s] # "mark"
    PROVE  SentIsLast' /\ MarkIsLast'
  BY DEF SentIsLast, MarkIsLast, LastCode

\* A notification leaves its own response unmarked, and no other.
LEMMA NotifyLeavesUnmarked ==
    ASSUME Roles = {DefaultRole}, TypeOK, Latches, OneIsBusy, ClientsTakeTurns, SentIsLast,
           NEW s \in Streams, NotifyResponder(s)
    PROVE  SentIsLast' /\ MarkIsLast'
  <1>1. PICK r : r = Turn(s)
    OBVIOUS
  <1>2. /\ pc[s] = "notify" /\ HasTurn(s) /\ r \in Streams
        /\ r = responders[call[s].next] /\ UNCHANGED <<sentCode, responders>>
    BY <1>1, NotifySteps
  <1>3. \A t \in Streams \ {s} : ~ Busy(t) /\ ~ Busy(t)'
    BY OthersAreIdle DEF Handle
  <1>4. \A t \in Streams \ {s} : pc[t] # "mark" /\ pc'[t] # "mark"
    BY <1>3 DEF Busy
  <1>5. PICK code \in Codes :
          \/ UNCHANGED <<pc, queued>>
          \/ /\ pc'[s] = "mark" /\ LastCode(r)' = code
             /\ call'[s].next = call[s].next /\ call'[s].code = code
             /\ \A t \in Streams \ {r} : queued'[t] = queued[t]
    BY <1>1, NotifySteps
  <1>6. CASE UNCHANGED <<pc, queued>>
    BY <1>2, <1>4, <1>6, NobodyMarks
  <1>7. CASE /\ pc'[s] = "mark" /\ LastCode(r)' = code
             /\ call'[s].next = call[s].next /\ call'[s].code = code
             /\ \A t \in Streams \ {r} : queued'[t] = queued[t]
    <2>1. Turn(s)' = r /\ HasTurn(s)'
      BY <1>1, <1>2, <1>7 DEF Turn, HasTurn
    <2>2. \A t \in Streams \ {r} : LastCode(t)' = sentCode'[t]
      BY <1>2, <1>4, <1>7 DEF SentIsLast, LastCode
    <2>3. SentIsLast'
      BY <1>7, <2>1, <2>2 DEF SentIsLast
    <2>4. LastCode(Turn(s))' = call'[s].code
      BY <1>7, <2>1 DEF LastCode
    <2>5. MarkIsLast'
      BY <1>4, <2>1, <2>4 DEF MarkIsLast
    <2> QED
      BY <2>3, <2>5
  <1> QED
    BY <1>5, <1>6, <1>7

\* Marking the response leaves nothing unmarked.
LEMMA MarkLeavesNothing ==
    ASSUME TypeOK, OneIsBusy, ClientsTakeTurns, SentIsLast, MarkIsLast,
           NEW s \in Streams, MarkSent(s)
    PROVE  SentIsLast' /\ MarkIsLast'
  <1>1. PICK r : r = Turn(s)
    OBVIOUS
  <1>2. pc[s] = "mark" /\ HasTurn(s) /\ LastCode(r) = call[s].code
    BY <1>1 DEF MarkSent, At, MarkIsLast
  <1>3. /\ pc'[s] = "notify" /\ UNCHANGED queued /\ sentCode'[r] = call[s].code
        /\ \A t \in Streams \ {r} : sentCode'[t] = sentCode[t]
    BY <1>1, <1>2, MarkSteps
  <1>4. \A t \in Streams \ {s} : ~ Busy(t) /\ ~ Busy(t)'
    BY OthersAreIdle DEF Handle
  <1>5. \A t \in Streams \ {s} : pc[t] # "mark" /\ pc'[t] # "mark"
    BY <1>4 DEF Busy
  <1>6. \A t \in Streams \ {r} : LastCode(t) = sentCode[t]
    BY <1>1, <1>5 DEF SentIsLast
  <1>7. \A t \in Streams : LastCode(t)' = LastCode(t)
    BY <1>3 DEF LastCode
  <1>8. \A t \in Streams : LastCode(t)' = sentCode'[t]
    BY <1>2, <1>3, <1>6, <1>7
  <1> QED
    BY <1>3, <1>5, <1>8 DEF SentIsLast, MarkIsLast

\* sentCode is the status sent last, but where a notification is under way.
LEMMA SentStep ==
    ASSUME Roles = {DefaultRole}, TypeOK, Latches, OneIsBusy, SentIsLast, MarkIsLast,
           [SerialNext]_vars
    PROVE  SentIsLast' /\ MarkIsLast'
  <1>a. pc \in [Streams -> Labels]
    BY DEF TypeOK
  <1>1. CASE UNCHANGED <<pc, call, responders, queued, sentCode>>
    BY <1>1 DEF SentIsLast, MarkIsLast, LastCode, Turn, HasTurn
  <1>2. ASSUME ClientsTakeTurns, NEW s \in Streams, Handle(s) \/ Client(s),
               pc[s] # "mark", pc'[s] # "mark", UNCHANGED <<queued, sentCode>>
        PROVE  SentIsLast' /\ MarkIsLast'
    <2>1. \A t \in Streams \ {s} : ~ Busy(t) /\ ~ Busy(t)'
      BY <1>2, OthersAreIdle
    <2>2. \A t \in Streams : pc[t] # "mark" /\ pc'[t] # "mark"
      BY <1>2, <2>1 DEF Busy
    <2> QED
      BY <1>2, <2>2, NobodyMarks
  <1>3. ASSUME NEW s \in Streams,
               \/ Client(s) \/ LatchRole(s) \/ LatchElectionID(s) \/ RecordWinner(s)
               \/ RecordLoser(s) \/ BeginNotification(s) \/ CheckResponder(s)
               \/ MasterNotFound(s) \/ EndNotification(s)
        PROVE  pc[s] # "mark" /\ pc'[s] # "mark" /\ UNCHANGED <<queued, sentCode>>
    <2>1. pc[s] # "mark" /\ UNCHANGED <<queued, sentCode>>
      BY <1>3
      DEF Client, Open, Close, Receive, LatchRole, LatchElectionID, Latched, RecordWinner,
          RecordLoser, BeginNotification, CheckResponder, MasterNotFound, EndNotification, At
    <2>2. pc'[s] # "mark"
      BY <1>a, <1>3
      DEF Client, Open, Close, Receive, LatchRole, LatchElectionID, Latched, RecordWinner,
          RecordLoser, BeginNotification, CheckResponder, MasterNotFound, EndNotification,
          At, Goto
    <2> QED
      BY <2>1, <2>2
  <1>4. ASSUME NEW s \in Streams, RecordPanics(s) \/ CheckPanics(s)
        PROVE  UNCHANGED <<pc, call, responders, queued, sentCode>>
    BY <1>4 DEF RecordPanics, CheckPanics, Panic, arbitrationVars, deviceVars
  <1>5. ASSUME ClientsTakeTurns, NEW s \in Streams, Handle(s) \/ Client(s)
        PROVE  SentIsLast' /\ MarkIsLast'
    <2>1. CASE NotifyResponder(s)
      BY <1>5, <2>1, NotifyLeavesUnmarked
    <2>2. CASE MarkSent(s)
      BY <1>5, <2>2, MarkLeavesNothing
    <2>3. CASE RecordPanics(s) \/ CheckPanics(s)
      BY <1>1, <1>4, <2>3
    <2>4. CASE \/ Client(s) \/ LatchRole(s) \/ LatchElectionID(s) \/ RecordWinner(s)
               \/ RecordLoser(s) \/ BeginNotification(s) \/ CheckResponder(s)
               \/ MasterNotFound(s) \/ EndNotification(s)
      BY <1>2, <1>3, <1>5, <2>4
    <2> QED
      BY <1>5, <2>1, <2>2, <2>3, <2>4 DEF Handle
  <1> QED
    BY <1>1, <1>5, WritersKeepStreams DEF SerialNext, Next, vars, arbitrationVars, deviceVars

------------------------------------------------------------------------------
\* Who was told.

\* A claim that loses to its own election ID is made again by a stream that leaves:
\* no responder holds that election.
LEMMA LoserKnowsWinner ==
    ASSUME Roles = {DefaultRole}, TypeOK, PendingIsLast, LatchIsOwn, WinnersWereRecorded,
           OneClaimPerElection, Latches, ToSet(responders) = Served,
           NEW s \in Streams, \A t \in Streams \ {s} : ~ Busy(t), RecordLoser(s)
    PROVE  KnowsWinner(s)'
  <1> DEFINE p == call[s].arg
             w == roleConfigs[DefaultRole]
  <1>1. /\ pc[s] = "record" /\ ~ ComparesNil(p) /\ ~ Wins(p)
        /\ SetCall(s, [call[s] EXCEPT !.max = Reported(p, roleConfigs[RoleName(p)])])
        /\ UNCHANGED <<latchedID, responders, roleConfigs>>
    BY DEF RecordLoser, At, latchVars, deviceVars
  <1>2. call[s] \in Calls /\ call \in [Streams -> Calls] /\ Valid(p)
    BY DEF TypeOK
  <1>3. RoleName(p) = DefaultRole
    BY <1>2, OneRole
  <1>4. DefaultRole \in DOMAIN roleConfigs /\ p # Nil /\ w # Nil
    BY <1>1, <1>3 DEF Wins, FirstClaim, ComparesNil
  <1>5. call'[s].max = Reported(p, w)
    BY <1>1, <1>2, <1>3 DEF SetCall, Calls
  <1>6. \A r \in Streams : HasWon(r)' <=> latchedID[r] = w
    BY <1>1, <1>4 DEF HasWon
  <1>a. ToSet(responders) \subseteq Streams
    BY DEF TypeOK, ToSet
  <1>7. CASE ElectionOf(p) # ElectionOf(w)
    BY <1>1, <1>4, <1>5, <1>6, <1>7, <1>a DEF Reported, KnowsWinner
  <1>8. CASE ElectionOf(p) = ElectionOf(w)
    <2>1. w \in Winners
      BY <1>4 DEF Winners
    <2>2. RecordedClaim(w)
      BY <1>4, <2>1 DEF WinnersWereRecorded
    <2>3. p[1] \in Streams /\ p[2] \in 1..Len(received[p[1]]) /\ p \in Pointers
      BY <1>2, <1>4, PointerType
    <2>4. w[1] \in Streams /\ w[2] \in 1..Len(received[w[1]]) /\ w \in Pointers
      BY <1>4, <2>2, PointerType DEF RecordedClaim
    <2>5. w[1] = p[1] /\ w[2] = p[2]
      <3>1. received[w[1]][w[2]].id = received[p[1]][p[2]].id
        BY <1>8 DEF ElectionOf, Message
      <3>2. PICK a, m, b, n : a = w[1] /\ m = w[2] /\ b = p[1] /\ n = p[2]
        OBVIOUS
      <3>3. /\ a \in Streams /\ m \in 1..Len(received[a])
            /\ b \in Streams /\ n \in 1..Len(received[b])
            /\ received[a][m].id = received[b][n].id
        BY <2>3, <2>4, <3>1, <3>2
      <3>4. a = b /\ m = n
        BY <3>3 DEF OneClaimPerElection
      <3> QED
        BY <3>2, <3>4
    <2>6. p[1] = s
      BY <1>4 DEF PendingIsLast
    <2>7. call[s].closing
      <3>1. ASSUME ~ call[s].closing
            PROVE  FALSE
        <4>1. p[2] = Len(received[s])
          BY <1>1, <3>1 DEF PendingIsLast
        <4>2. Pending(w[1], w[2])
          BY <1>1, <2>5, <2>6, <3>1, <4>1 DEF Pending
        <4> QED
          BY <2>2, <4>2 DEF RecordedClaim
      <3> QED
        BY <3>1
    <2>8. ASSUME NEW r \in ToSet(responders)
          PROVE  latchedID[r] # Nil /\ latchedID[r] # w
      <3>1. r \in Streams \ {s} /\ pc[r] \notin {"new", "closed"}
        BY <1>a, <2>7 DEF Served
      <3>2. pc[r] = "recv" /\ received[r] # << >>
        BY <3>1 DEF Busy
      <3>3. latchedID[r] # Nil
        BY <3>1, <3>2 DEF Latches, LatchedBy
      <3>4. latchedID[r][1] = r
        BY <3>1, <3>3 DEF LatchIsOwn
      <3> QED
        BY <2>5, <2>6, <3>1, <3>3, <3>4
    <2>9. call'[s].max = Nil
      BY <1>5, <1>8 DEF Reported
    <2> QED
      BY <1>1, <1>4, <1>6, <1>a, <2>8, <2>9 DEF KnowsWinner
  <1> QED
    BY <1>7, <1>8

\* The claim that wins is the recorded election.
LEMMA WinnerKnowsItself ==
    ASSUME Roles = {DefaultRole}, TypeOK, NEW s \in Streams, RecordWinner(s)
    PROVE  KnowsWinner(s)'
  <1> DEFINE p == call[s].arg
  <1>1. /\ SetCall(s, [call[s] EXCEPT !.max = p])
        /\ roleConfigs' = [r \in DOMAIN roleConfigs \cup {RoleName(p)} |->
                             IF r = RoleName(p) THEN p ELSE roleConfigs[r]]
        /\ UNCHANGED <<latchedID, responders>>
    BY DEF RecordWinner, latchVars
  <1>2. call[s] \in Calls /\ call \in [Streams -> Calls] /\ RoleName(p) = DefaultRole
    BY OneRole DEF TypeOK
  <1>3. call'[s].max = p
    BY <1>1, <1>2 DEF SetCall, Calls
  <1>4. DefaultRole \in DOMAIN roleConfigs' /\ roleConfigs'[DefaultRole] = p
    BY <1>1, <1>2
  <1> QED
    BY <1>1, <1>3, <1>4 DEF KnowsWinner, HasWon

\* What a handler knows stays true until somebody claims or latches again.
LEMMA KnowledgeStays ==
    ASSUME UNCHANGED <<latchedID, responders, roleConfigs>>
    PROVE  /\ \A r \in Streams : HasWon(r)' <=> HasWon(r)
           /\ \A s \in Streams : KnowsWinner(s) /\ call'[s].max = call[s].max => KnowsWinner(s)'
  BY DEF KnowsWinner, HasWon

\* A handler that begins to notify has everybody's turn before it.
LEMMA BeginTelling ==
    ASSUME TypeOK, Latches, NEW s \in Streams, ToldInTurn(s),
           BeginNotification(s) \/ CheckResponder(s) \/ MasterNotFound(s)
    PROVE  ToldInTurn(s)'
  <1>a. pc \in [Streams -> Labels] /\ call \in [Streams -> Calls] /\ call[s] \in Calls
    BY DEF TypeOK
  <1>1. /\ Telling(s) /\ pc'[s] \in {"check", "notify"}
        /\ pc'[s] = "notify" => call'[s].next = 1
        /\ call'[s].max = call[s].max
        /\ UNCHANGED <<latchedID, responders, roleConfigs>>
    <2>1. CASE BeginNotification(s)
      <3>1. pc[s] = "rlock" /\ call[s].next = 1
        BY <2>1 DEF BeginNotification, At, Latches, LatchedBy
      <3>2. call'[s].next = call[s].next /\ call'[s].max = call[s].max
        BY <1>a, <2>1 DEF BeginNotification, SetCall, Calls
      <3> QED
        BY <1>a, <2>1, <3>1, <3>2 DEF BeginNotification, Goto, Telling, latchVars, deviceVars
    <2>2. CASE CheckResponder(s)
      BY <2>2, CheckSteps DEF Telling
    <2>3. CASE MasterNotFound(s)
      BY <1>a, <2>3 DEF MasterNotFound, At, Goto, SetCall, Calls, Telling, latchVars, deviceVars
    <2> QED
      BY <2>1, <2>2, <2>3
  <1>2. KnowsWinner(s)'
    BY <1>1, KnowledgeStays DEF ToldInTurn
  <1>3. responders' \in Seq(Streams)
    BY <1>1 DEF TypeOK
  <1>4. \A i \in 1..Len(responders') : ~ (i < 1)
    BY <1>3
  <1> QED
    BY <1>1, <1>2, <1>4 DEF ToldInTurn

\* A notification tells its responder.
LEMMA NotifyTells ==
    ASSUME Roles = {DefaultRole}, TypeOK, Latches, OneIsBusy,
           NEW s \in Streams, ToldInTurn(s), NotifyResponder(s)
    PROVE  ToldInTurn(s)'
  <1>1. PICK r : r = Turn(s)
    OBVIOUS
  <1>2. /\ pc[s] = "notify" /\ call[s].next \in 1..Len(responders)
        /\ r = responders[call[s].next] /\ r \in Streams /\ r \in ToSet(responders)
        /\ UNCHANGED <<latchedID, sentCode, responders, roleConfigs>>
        /\ call'[s].max = call[s].max
    BY <1>1, NotifySteps
  <1>3. PICK code \in Codes :
          /\ code = "OK" <=> latchedID[r] = call[s].max
          /\ \/ sentCode[r] = code /\ UNCHANGED pc /\ call'[s].next = call[s].next + 1
             \/ pc'[s] = "mark" /\ call'[s].next = call[s].next /\ call'[s].code = code
    BY <1>1, NotifySteps
  <1>4. KnowsWinner(s) /\ KnowsWinner(s)'
    BY <1>2, KnowledgeStays DEF ToldInTurn, Telling
  <1>5. code = "OK" <=> HasWon(r)
    BY <1>2, <1>3, <1>4 DEF KnowsWinner
  <1>6. \A i \in 1..Len(responders) : i < call[s].next => Told(responders[i])
    BY <1>2 DEF ToldInTurn
  <1>7. \A t \in Streams : HasWon(t)' <=> HasWon(t)
    BY <1>2, KnowledgeStays
  <1>8. responders \in Seq(Streams) /\ Len(responders) \in Nat
    BY DEF TypeOK
  <1>9. \A i \in 1..Len(responders) : responders[i] \in Streams
    BY <1>8
  <1>10. \A i \in 1..Len(responders) : Told(responders[i]) => Told(responders[i])'
    BY <1>2, <1>7, <1>9 DEF Told, HasWon
  <1>11. CASE sentCode[r] = code /\ UNCHANGED pc /\ call'[s].next = call[s].next + 1
    <2>1. Told(r)
      BY <1>5, <1>11 DEF Told
    <2>2. \A i \in 1..Len(responders) :
             i < call[s].next + 1 => i < call[s].next \/ i = call[s].next
      BY <1>2, <1>8
    <2>3. (\A i \in 1..Len(responders) : i < call[s].next => Told(responders[i]))'
      BY <1>2, <1>6, <1>10, <1>11, <2>1, <2>2
    <2> QED
      BY <1>2, <1>4, <1>11, <2>3 DEF ToldInTurn
  <1>12. CASE pc'[s] = "mark" /\ call'[s].next = call[s].next /\ call'[s].code = code
    <2>1. (\A i \in 1..Len(responders) : i < call[s].next => Told(responders[i]))'
      BY <1>2, <1>6, <1>10, <1>12
    <2>2. Turn(s)' = r
      BY <1>2, <1>12 DEF Turn
    <2>3. call'[s].code = "OK" <=> HasWon(Turn(s))'
      BY <1>2, <1>5, <1>7, <1>12, <2>2 DEF HasWon
    <2> QED
      BY <1>4, <1>12, <2>1, <2>3 DEF ToldInTurn
  <1> QED
    BY <1>3, <1>11, <1>12

\* A responder that was told stays told.
LEMMA MarkTells ==
    ASSUME TypeOK, NEW s \in Streams, MarkIsLast, ToldInTurn(s), MarkSent(s)
    PROVE  ToldInTurn(s)'
  <1>1. PICK r : r = Turn(s)
    OBVIOUS
  <1>2. pc[s] = "mark" /\ HasTurn(s)
    BY DEF MarkSent, At, MarkIsLast
  <1>3. /\ pc'[s] = "notify" /\ call[s].next \in 1..Len(responders)
        /\ r = responders[call[s].next] /\ r \in Streams
        /\ UNCHANGED <<latchedID, responders, roleConfigs>>
        /\ sentCode'[r] = call[s].code
        /\ \A t \in Streams \ {r} : sentCode'[t] = sentCode[t]
        /\ call'[s].max = call[s].max /\ call'[s].next = call[s].next + 1
    BY <1>1, <1>2, MarkSteps
  <1>4. KnowsWinner(s)'
    BY <1>2, <1>3, KnowledgeStays DEF ToldInTurn, Telling
  <1>5. \A t \in Streams : HasWon(t)' <=> HasWon(t)
    BY <1>3, KnowledgeStays
  <1>6. call[s].code = "OK" <=> HasWon(r)
    BY <1>1, <1>2 DEF ToldInTurn
  <1>7. \A t \in Streams : t = r \/ Told(t) => Told(t)'
    BY <1>3, <1>5, <1>6 DEF Told, HasWon
  <1>8. responders \in Seq(Streams) /\ Len(responders) \in Nat
    BY DEF TypeOK
  <1>9. \A i \in 1..Len(responders) : responders[i] \in Streams
    BY <1>8
  <1>10. \A i \in 1..Len(responders) :
             i < call[s].next + 1 => i < call[s].next \/ i = call[s].next
    BY <1>3, <1>8
  <1>11. \A i \in 1..Len(responders) : i < call[s].next => Told(responders[i])
    BY <1>2 DEF ToldInTurn
  <1>12. \A i \in 1..Len(responders) : i < call[s].next + 1 => Told(responders[i])'
    BY <1>3, <1>7, <1>9, <1>10, <1>11
  <1>13. (\A i \in 1..Len(responders) : i < call[s].next => Told(responders[i]))'
    BY <1>3, <1>12
  <1> QED
    BY <1>3, <1>4, <1>13 DEF ToldInTurn

\* Every step keeps the turns of the responders.
LEMMA ToldInTurnStep ==
    ASSUME Roles = {DefaultRole}, IInv, ConnectionsInv, TurnsInv, [SerialNext]_vars
    PROVE  \A s \in Streams : ToldInTurn(s)'
  <1>a. TypeOK /\ PendingIsLast /\ LatchIsOwn /\ WinnersWereRecorded
    BY DEF IInv
  <1>b. /\ OneClaimPerElection /\ OneIsBusy /\ Latches /\ MarkIsLast
        /\ \A s \in Streams : ToldInTurn(s)
    BY DEF TurnsInv
  <1>c. pc \in [Streams -> Labels]
    BY <1>a DEF TypeOK
  <1>d. ToSet(responders) = Served
    BY DEF ConnectionsInv
  <1>1. CASE UNCHANGED <<pc, call, latchedID, sentCode, responders, roleConfigs>>
    BY <1>1, <1>b DEF ToldInTurn, Telling, KnowsWinner, Told, HasWon, Turn
  <1>2. ASSUME NEW s \in Streams, RecordPanics(s) \/ CheckPanics(s)
        PROVE  UNCHANGED <<pc, call, latchedID, sentCode, responders, roleConfigs>>
    BY <1>2 DEF RecordPanics, CheckPanics, Panic, arbitrationVars, latchVars, deviceVars
  <1>3. ASSUME NEW s \in Streams,
               Client(s) \/ LatchRole(s) \/ LatchElectionID(s) \/ EndNotification(s)
        PROVE  ToldInTurn(s)'
    <2>1. pc'[s] \notin {"rlock", "check", "notify", "mark"}
      BY <1>3, <1>c DEF Client, Open, Close, Receive, LatchRole, LatchElectionID, Latched,
         EndNotification, Goto
    <2> QED
      BY <2>1 DEF ToldInTurn, Telling
  <1>4. ASSUME NEW s \in Streams, RecordWinner(s) \/ RecordLoser(s),
               \A t \in Streams \ {s} : ~ Busy(t)
        PROVE  ToldInTurn(s)'
    <2>1. pc'[s] = "rlock"
      BY <1>4, <1>c DEF RecordWinner, RecordLoser, Goto
    <2>2. KnowsWinner(s)'
      BY <1>4, <1>a, <1>b, <1>d, WinnerKnowsItself, LoserKnowsWinner
    <2> QED
      BY <2>1, <2>2 DEF ToldInTurn
  <1>5. ASSUME ClientsTakeTurns, NEW s \in Streams, Handle(s) \/ Client(s)
        PROVE  \A t \in Streams : ToldInTurn(t)'
    <2>1. \A t \in Streams \ {s} : ~ Busy(t) /\ ~ Busy(t)'
      BY <1>5, <1>a, <1>b, OthersAreIdle
    <2>2. \A t \in Streams \ {s} : ToldInTurn(t)'
      BY <2>1 DEF ToldInTurn, Telling, Busy
    <2>3. CASE RecordPanics(s) \/ CheckPanics(s)
      BY <1>1, <1>2, <2>3
    <2>4. CASE ~ (RecordPanics(s) \/ CheckPanics(s))
      <3>1. ToldInTurn(s)'
        BY <1>3, <1>4, <1>5, <1>a, <1>b, <2>1, <2>4, BeginTelling, NotifyTells, MarkTells
        DEF Handle
      <3> QED
        BY <2>2, <3>1
    <2> QED
      BY <2>3, <2>4
  <1> QED
    BY <1>1, <1>5, WritersKeepStreams
    DEF SerialNext, Next, vars, arbitrationVars, latchVars, deviceVars

\* When the handler that told everybody is done, all streams that arbitrated know.
LEMMA AllWereToldStep ==
    ASSUME Roles = {DefaultRole}, IInv, ConnectionsInv, TurnsInv, [SerialNext]_vars
    PROVE  AllWereTold'
  <1>a. TypeOK /\ PendingIsLast
    BY DEF IInv
  <1>b. /\ OneIsBusy /\ Latches /\ AllWereTold /\ \A s \in Streams : ToldInTurn(s)
    BY DEF TurnsInv
  <1>c. /\ pc \in [Streams -> Labels] /\ received \in [Streams -> Seq(Messages)]
        /\ responders \in Seq(Streams) /\ call \in [Streams -> Calls]
    BY <1>a DEF TypeOK
  <1>1. CASE UNCHANGED <<received, pc, latchedID, sentCode, roleConfigs>>
    BY <1>1, <1>b DEF AllWereTold, Telling, Told, HasWon
  <1>2. ASSUME NEW s \in Streams, RecordPanics(s) \/ CheckPanics(s)
        PROVE  UNCHANGED <<received, pc, latchedID, sentCode, roleConfigs>>
    BY <1>2 DEF RecordPanics, CheckPanics, Panic, arbitrationVars, latchVars, deviceVars
  <1>3. ASSUME NEW s \in Streams,
               \/ RecordWinner(s) \/ RecordLoser(s) \/ BeginNotification(s) \/ CheckResponder(s)
               \/ MasterNotFound(s) \/ NotifyResponder(s) \/ MarkSent(s)
        PROVE  AllWereTold'
    <2>1. pc'[s] \in {"rlock", "check", "notify", "mark"}
      BY <1>3, <1>c
      DEF RecordWinner, RecordLoser, BeginNotification, CheckResponder, MasterNotFound,
          NotifyResponder, MarkSent, Goto, At
    <2> QED
      BY <2>1 DEF AllWereTold, Telling
  <1>4. ASSUME NEW s \in Streams, \A t \in Streams \ {s} : ~ Busy(t),
               Client(s) \/ LatchRole(s) \/ LatchElectionID(s)
        PROVE  AllWereTold'
    <2>1. /\ pc[s] \in {"new", "recv", "latch"} /\ UNCHANGED <<sentCode, roleConfigs>>
          /\ pc'[s] # "recv" \/ received'[s] = << >>
      BY <1>4, <1>b, <1>c
      DEF Client, Open, Close, Receive, LatchRole, LatchElectionID, Latched, At, Goto,
          Latches, LatchedBy, deviceVars
    <2>2. \A t \in Streams : ~ Telling(t)
      BY <1>4, <2>1 DEF Telling, Busy
    <2>3. \A t \in Streams \ {s} : /\ pc'[t] = pc[t] /\ received'[t] = received[t]
                                   /\ latchedID'[t] = latchedID[t]
      BY <1>4, <1>a, OnlyActorMoves DEF Handle
    <2>4. ASSUME NEW t \in Streams, pc'[t] = "recv", received'[t] # << >>
          PROVE  DefaultRole \in DOMAIN roleConfigs /\ Told(t)'
      <3>1. t \in Streams \ {s}
        BY <2>1, <2>4
      <3>2. DefaultRole \in DOMAIN roleConfigs /\ Told(t)
        BY <1>b, <2>2, <2>3, <2>4, <3>1 DEF AllWereTold
      <3> QED
        BY <2>1, <2>3, <3>1, <3>2 DEF Told, HasWon
    <2> QED
      BY <2>1, <2>4 DEF AllWereTold
  <1>5. ASSUME NEW s \in Streams, \A t \in Streams \ {s} : ~ Busy(t), EndNotification(s)
        PROVE  AllWereTold'
    <2>1. /\ pc[s] = "notify" /\ ~ HasTurn(s)
          /\ pc'[s] = IF call[s].closing THEN "closed" ELSE "recv"
          /\ UNCHANGED <<received, latchedID, sentCode, responders, roleConfigs>>
      BY <1>5, <1>c DEF EndNotification, At, Goto, latchVars, deviceVars
    <2>2. DefaultRole \in DOMAIN roleConfigs
      BY <1>b, <2>1 DEF ToldInTurn, Telling, KnowsWinner
    <2>3. \A i \in 1..Len(responders) : Told(responders[i])
      <3>1. call[s].next \in Nat /\ Len(responders) \in Nat
        BY <1>c DEF Calls
      <3>2. \A i \in 1..Len(responders) : i < call[s].next
        BY <2>1, <3>1 DEF HasTurn
      <3> QED
        BY <1>b, <2>1, <3>2 DEF ToldInTurn
    <2>4. \A r \in ToSet(responders) : Told(r)
      <3>1. DOMAIN responders = 1..Len(responders)
        BY <1>c
      <3>2. ASSUME NEW r \in ToSet(responders)
            PROVE  \E i \in 1..Len(responders) : r = responders[i]
        BY <3>1 DEF ToSet
      <3> QED
        BY <2>3, <3>2
    <2>5. ASSUME NEW t \in Streams, pc'[t] = "recv"
          PROVE  Told(t)
      <3>1. CASE t = s
        <4>1. ~ call[s].closing
          BY <2>1, <2>5, <3>1
        <4> QED
          BY <2>1, <2>4, <3>1, <4>1 DEF ConnectionsInv, Served
      <3>2. CASE t # s
        <4>1. pc[t] = "recv"
          BY <1>5, <1>a, <2>5, <3>2, OnlyActorMoves DEF Handle
        <4>2. ~ call[t].closing
          BY <1>a, <4>1 DEF PendingIsLast
        <4> QED
          BY <2>4, <4>1, <4>2 DEF ConnectionsInv, Served
      <3> QED
        BY <3>1, <3>2
    <2> QED
      BY <2>1, <2>2, <2>5 DEF AllWereTold, Told, HasWon
  <1>6. ASSUME ClientsTakeTurns, NEW s \in Streams, Handle(s) \/ Client(s)
        PROVE  AllWereTold'
    <2>1. \A t \in Streams \ {s} : ~ Busy(t)
      BY <1>6, <1>a, <1>b, OthersAreIdle
    <2> QED
      BY <1>1, <1>2, <1>3, <1>4, <1>5, <1>6, <2>1 DEF Handle
  <1> QED
    BY <1>1, <1>6, WritersKeepStreams
    DEF SerialNext, Next, vars, arbitrationVars, latchVars, deviceVars

\* Nothing has happened yet, and nobody has to be told.
LEMMA TurnsInit ==
    ASSUME Init
    PROVE  TurnsInv
  <1>1. /\ received = [s \in Streams |-> << >>] /\ pc = [s \in Streams |-> "new"]
        /\ call = [s \in Streams |-> NoCall] /\ latchedRole = [s \in Streams |-> Nil]
        /\ sentCode = [s \in Streams |-> NoCode] /\ queued = [s \in Streams |-> << >>]
    BY DEF Init
  <1>2. \A s \in Streams : ~ Busy(s) /\ ~ Telling(s) /\ pc[s] = "new" /\ received[s] = << >>
    BY <1>1 DEF Busy, Telling
  <1>3. OneClaimPerElection /\ OneIsBusy /\ AllWereTold
    BY <1>2 DEF OneClaimPerElection, OneIsBusy, AllWereTold
  <1>4. Latches
    BY <1>1, <1>2 DEF Latches, LatchedBy, NoCall
  <1>5. SentIsLast /\ MarkIsLast
    BY <1>1, <1>2 DEF SentIsLast, MarkIsLast, LastCode
  <1>6. \A s \in Streams : ToldInTurn(s)
    BY <1>2 DEF ToldInTurn
  <1> QED
    BY <1>3, <1>4, <1>5, <1>6 DEF TurnsInv

\* The turns of the clients are taken by the invariants of every schedule.
LEMMA TurnsInvariant ==
    ASSUME Roles = {DefaultRole}
    PROVE  SerialSpec => [](IInv /\ TurnsInv)
  <1>1. SerialSpec => Spec
    <2>1. SerialNext => Next
      BY DEF SerialNext
    <2> QED
      BY <2>1, PTL DEF SerialSpec, Spec
  <1>2. Init => TurnsInv
    BY TurnsInit
  <1>3. IInv /\ IInv' /\ ConnectionsInv /\ TurnsInv /\ [SerialNext]_vars => TurnsInv'
    <2> SUFFICES ASSUME IInv, IInv', ConnectionsInv, TurnsInv, [SerialNext]_vars
                 PROVE  TurnsInv'
      OBVIOUS
    <2>1. TypeOK /\ TypeOK' /\ PendingIsLast /\ [Next]_vars
      BY DEF IInv, SerialNext
    <2>2. OneClaimPerElection' /\ OneIsBusy'
      BY <2>1, OneClaimStep, OneIsBusyStep DEF TurnsInv
    <2>3. Latches'
      BY <2>1, LatchesStep DEF TurnsInv
    <2>4. SentIsLast' /\ MarkIsLast'
      BY <2>1, SentStep DEF TurnsInv
    <2> QED
      BY <2>2, <2>3, <2>4, ToldInTurnStep, AllWereToldStep DEF TurnsInv
  <1> QED
    BY <1>1, <1>2, <1>3, Invariant, ConnectionsInvariant, PTL DEF SerialSpec

\* The last status of a stream that arbitrated and is at rest.
LEMMA LastStatus ==
    ASSUME Roles = {DefaultRole}, IInv, TurnsInv, AtRest,
           NEW s \in Streams, pc[s] = "recv", received[s] # << >>
    PROVE  /\ DefaultRole \in DOMAIN roleConfigs /\ latchedID[s] # Nil
           /\ LastCode(s) = "OK" <=> latchedID[s] = roleConfigs[DefaultRole]
  <1>1. \A t \in Streams : ~ Telling(t) /\ pc[t] # "mark"
    BY DEF AtRest, Telling
  <1>2. DefaultRole \in DOMAIN roleConfigs /\ Told(s)
    BY <1>1 DEF TurnsInv, AllWereTold
  <1>3. LastCode(s) = sentCode[s]
    BY <1>1 DEF TurnsInv, SentIsLast
  <1>4. latchedID[s] # Nil
    BY DEF TurnsInv, Latches, LatchedBy
  <1> QED
    BY <1>2, <1>3, <1>4 DEF Told, HasWon

\* If clients without named roles take turns and use each election ID once, the
\* stream that holds the recorded election was last told OK whenever no
\* arbitration is running (core.go:77).
THEOREM HolderIsTold ==
    ASSUME Roles = {DefaultRole}
    PROVE  SerialSpec => []HolderWasToldOk
  <1>1. IInv /\ TurnsInv => HolderWasToldOk
    <2> SUFFICES ASSUME IInv, TurnsInv, AtRest,
                        NEW s \in Streams, NEW r \in Roles, Holds(s, r)
                 PROVE  LastCode(s) = "OK"
      BY DEF HolderWasToldOk
    <2>1. /\ r = DefaultRole /\ pc[s] = "recv"
          /\ latchedID[s] = roleConfigs[r] /\ latchedID[s] # Nil
      BY DEF Holds
    <2>2. received[s] # << >>
      <3>1. latchedID[s][1] = s
        BY <2>1 DEF IInv, LatchIsOwn
      <3>2. Valid(latchedID[s]) /\ TypeOK
        BY DEF IInv, TypeOK
      <3>3. latchedID[s][2] \in 1..Len(received[s])
        BY <2>1, <3>1, <3>2, PointerType
      <3>4. Len(received[s]) # 0
        BY <3>3
      <3> QED
        BY <3>4
    <2> QED
      BY <2>1, <2>2, LastStatus
  <1> QED
    BY <1>1, TurnsInvariant, PTL

\* Likewise, a stream that arbitrated and does not hold the recorded election was
\* last told something else.
THEOREM OthersAreTold ==
    ASSUME Roles = {DefaultRole}
    PROVE  SerialSpec => []OthersWereToldNo
  <1>1. IInv /\ TurnsInv => OthersWereToldNo
    <2> SUFFICES ASSUME IInv, TurnsInv, AtRest, NEW s \in Streams,
                        pc[s] = "recv", received[s] # << >>, \A r \in Roles : ~ Holds(s, r)
                 PROVE  LastCode(s) # "OK"
      BY DEF OthersWereToldNo
    <2>1. /\ DefaultRole \in DOMAIN roleConfigs /\ latchedID[s] # Nil
          /\ LastCode(s) = "OK" <=> latchedID[s] = roleConfigs[DefaultRole]
      BY LastStatus
    <2>2. ~ Holds(s, DefaultRole)
      OBVIOUS
    <2> QED
      BY <2>1, <2>2 DEF Holds
  <1> QED
    BY <1>1, TurnsInvariant, PTL

------------------------------------------------------------------------------
\* Mastership implements ElectionService: the abstract variables.

\* Highest of a role that has a winner is the winner's election.
LEMMA HighestOfWinner ==
    ASSUME IInv, NEW r \in Roles, r \in DOMAIN roleConfigs, roleConfigs[r] # Nil
    PROVE  /\ Highest[r] = ElectionOf(roleConfigs[r])
           /\ Highest[r] \in Elections
           /\ Highest[r] # Nil
  <1>1. Valid(roleConfigs[r])
    BY DEF IInv, TypeOK
  <1>2. ElectionOf(roleConfigs[r]) \in Elections
    BY <1>1, PointerType DEF IInv
  <1> QED
    BY <1>2, MastershipAssumption DEF Highest

\* While the role map does not change, neither does Highest.
LEMMA HighestStays ==
    ASSUME IInv, [Next]_vars, UNCHANGED roleConfigs
    PROVE  UNCHANGED Highest
  <1>1. ASSUME NEW r \in DOMAIN roleConfigs, roleConfigs[r] # Nil
        PROVE  ElectionOf(roleConfigs[r])' = ElectionOf(roleConfigs[r])
    <2>1. PICK p : p = roleConfigs[r]
      OBVIOUS
    <2>2. Valid(p)
      BY <2>1 DEF IInv, TypeOK
    <2>3. Message(p)' = Message(p)
      BY <1>1, <2>1, <2>2, HeapGrows DEF IInv
    <2> QED
      BY <2>1, <2>3 DEF ElectionOf, Message
  <1> QED
    BY <1>1 DEF Highest

\* A response stays an OK for the same election.
LEMMA OksStay ==
    ASSUME IInv, [Next]_vars, NEW ok \in Oks
    PROVE  ok \in Oks'
  <1>1. PICK i \in 1..Len(queued[ok.stream]) :
            /\ queued[ok.stream][i].code = "OK"
            /\ queued[ok.stream][i].max # Nil
            /\ Message(queued[ok.stream][i].max) = [role |-> ok.role, id |-> ok.id]
    BY DEF Oks
  <1>2. ok \in [stream : Streams, role : Roles, id : Elections] /\ ok.stream \in Streams
    BY DEF Oks
  <1>3. PICK p : p = queued[ok.stream][i].max
    OBVIOUS
  <1>4. Message(p)' = Message(p)
    <2>1. Valid(p)
      BY <1>2, <1>3 DEF IInv, TypeOK
    <2> QED
      BY <1>1, <1>3, <2>1, HeapGrows DEF IInv
  <1>5. i \in 1..Len(queued'[ok.stream]) /\ queued'[ok.stream][i] = queued[ok.stream][i]
    BY <1>2, QueuesKeep DEF IInv
  <1> QED
    BY <1>1, <1>2, <1>3, <1>4, <1>5 DEF Oks, Message

\* A new OK is the one that the running notification gives.
LEMMA NewOk ==
    ASSUME IInv, [Next]_vars, NEW ok \in Oks', ok \notin Oks,
           NEW s \in Streams, NotifyResponder(s)
    PROVE  /\ call[s].max # Nil
           /\ ok = [stream |-> Turn(s),
                    role |-> RoleName(call[s].max), id |-> ElectionOf(call[s].max)]
  <1>1. PICK i \in 1..Len(queued'[ok.stream]) :
            /\ queued'[ok.stream][i].code = "OK"
            /\ queued'[ok.stream][i].max # Nil
            /\ Message(queued[ok.stream][i].max)' = [role |-> ok.role, id |-> ok.id]
    BY DEF Oks
  <1>2. ok \in [stream : Streams, role : Roles, id : Elections] /\ ok.stream \in Streams
    BY DEF Oks
  <1>3. UNCHANGED received
    BY DEF NotifyResponder
  <1>4. CASE i \in 1..Len(queued[ok.stream]) /\ queued'[ok.stream][i] = queued[ok.stream][i]
    BY <1>1, <1>2, <1>3, <1>4 DEF Oks, Message
  <1>5. CASE ok.stream = Turn(s) /\ queued'[ok.stream][i].max = call[s].max
    <2>1. call[s].max # Nil /\ Message(call[s].max) = [role |-> ok.role, id |-> ok.id]
      BY <1>1, <1>3, <1>5 DEF Message
    <2> QED
      BY <1>2, <1>5, <2>1 DEF RoleName, ElectionOf
  <1> QED
    BY <1>2, <1>4, <1>5, NotifyAppends DEF IInv

------------------------------------------------------------------------------
\* Steps.

\* RecordRoleElection with a winner is Elect of the abstract service.
LEMMA WinnerElects ==
    ASSUME IInv, [Next]_vars, NEW s \in Streams, RecordWinner(s)
    PROVE  [Abstract!Next]_Abstract!vars
  <1>1. PICK p : p = call[s].arg
    OBVIOUS
  <1>2. /\ DOMAIN roleConfigs' = DOMAIN roleConfigs \cup {RoleName(p)}
        /\ \A r \in DOMAIN roleConfigs' :
              roleConfigs'[r] = IF r = RoleName(p) THEN p ELSE roleConfigs[r]
        /\ UNCHANGED <<received, queued>>
        /\ ~ ComparesNil(p) /\ Wins(p)
    BY <1>1 DEF RecordWinner
  <1>3. UNCHANGED Oks
    BY <1>2 DEF Oks, Message
  <1>4. CASE p = Nil
    <2>1. RoleName(p) \notin DOMAIN roleConfigs
      BY <1>2, <1>4 DEF ComparesNil, FirstClaim
    <2>2. UNCHANGED Highest
      BY <1>2, <1>4, <2>1 DEF Highest, ElectionOf, Message
    <2> QED
      BY <1>3, <2>2 DEF Abstract!vars
  <1>5. CASE p # Nil
    <2>1. PICK r, e : r = RoleName(p) /\ e = ElectionOf(p)
      OBVIOUS
    <2>2. r \in Roles /\ e \in Elections
      BY <1>1, <1>5, <2>1, PointerType DEF IInv, TypeOK
    <2>3. Highest' = [Highest EXCEPT ![r] = e]
      BY <1>2, <1>5, <2>1, <2>2 DEF Highest, ElectionOf, Message
    <2>4. Highest[r] = Nil \/ Larger(e, Highest[r])
      <3>1. CASE FirstClaim(p)
        BY <2>1, <2>2, <3>1 DEF FirstClaim, Highest
      <3>2. CASE ~ FirstClaim(p)
        <4>1. roleConfigs[r] # Nil /\ r \in DOMAIN roleConfigs
          BY <1>2, <2>1, <3>2 DEF ComparesNil, FirstClaim
        <4> QED
          BY <1>2, <2>1, <2>2, <3>2, <4>1, HighestOfWinner DEF Wins, Beats
      <3> QED
        BY <3>1, <3>2
    <2>5. Abstract!Elect(r, e)
      BY <1>3, <2>3, <2>4 DEF Abstract!Elect, Abstract!Larger, Larger
    <2> QED
      BY <2>2, <2>5 DEF Abstract!Next
  <1> QED
    BY <1>4, <1>5

\* A notification with a new OK is Confirm, every other one a stutter.
LEMMA NotifyConfirms ==
    ASSUME IInv, OneOkPerElection', [Next]_vars, NEW s \in Streams, NotifyResponder(s)
    PROVE  [Abstract!Next]_Abstract!vars
  <1>1. UNCHANGED Highest
    BY HighestStays DEF NotifyResponder, deviceVars
  <1>2. CASE Oks' = Oks
    BY <1>1, <1>2 DEF Abstract!vars
  <1>3. CASE Oks' # Oks
    <2>1. PICK max, r, e, t, ok :
              /\ max = call[s].max
              /\ r = RoleName(max) /\ e = ElectionOf(max) /\ t = Turn(s)
              /\ ok = [stream |-> t, role |-> r, id |-> e]
      OBVIOUS
    <2>2. PICK new \in Oks' : new \notin Oks
      BY <1>3, OksStay
    <2>3. max # Nil /\ \A x \in Oks' : x \in Oks \/ x = ok
      BY <2>1, <2>2, NewOk
    <2>4. Oks' = Oks \cup {ok} /\ ok \in Oks'
      BY <2>2, <2>3, OksStay
    <2>5. ok \in [stream : Streams, role : Roles, id : Elections]
      BY <2>4 DEF Oks
    <2>6. t \in Streams /\ r \in Roles /\ e \in Elections
      BY <2>1, <2>5
    <2>7. HasWinner(max)
      <3>1. RecordedClaim(max)
        BY <2>1, <2>3, WinnerKinds DEF IInv, WinnersWereRecorded
      <3> QED
        BY <3>1, RecordedHasWinner DEF IInv
    <2>8. Highest[r] # Nil /\ ~ Larger(e, Highest[r])
      BY <2>1, <2>6, <2>7, HighestOfWinner DEF HasWinner
    <2>9. \A x \in Oks : x.role = r /\ x.id = e => x.stream = t
      <3>1. ok.role = r /\ ok.id = e /\ ok.stream = t
        BY <2>1
      <3> QED
        BY <2>4, <3>1, OksStay DEF OneOkPerElection
    <2>10. Abstract!Confirm(t, r, e)
      BY <1>1, <2>1, <2>4, <2>8, <2>9 DEF Abstract!Confirm, Abstract!Larger, Larger
    <2> QED
      BY <2>6, <2>10 DEF Abstract!Next
  <1> QED
    BY <1>2, <1>3

\* Every step of arbitration is a step or a stutter of the election service.
LEMMA StepRefines ==
    ASSUME IInv, OneOkPerElection', [Next]_vars
    PROVE  [Abstract!Next]_Abstract!vars
  <1>1. CASE UNCHANGED <<roleConfigs, queued>>
    <2>1. UNCHANGED Highest
      BY <1>1, HighestStays
    <2>2. Oks' \subseteq Oks
      <3> SUFFICES ASSUME NEW ok \in Oks'
                   PROVE  ok \in Oks
        OBVIOUS
      <3>1. PICK i \in 1..Len(queued[ok.stream]) :
                /\ queued[ok.stream][i].code = "OK"
                /\ queued[ok.stream][i].max # Nil
                /\ Message(queued[ok.stream][i].max)' = [role |-> ok.role, id |-> ok.id]
        BY <1>1 DEF Oks
      <3>2. ok \in [stream : Streams, role : Roles, id : Elections] /\ ok.stream \in Streams
        BY DEF Oks
      <3>3. PICK p : p = queued[ok.stream][i].max
        OBVIOUS
      <3>4. Message(p)' = Message(p)
        <4>1. Valid(p)
          BY <3>2, <3>3 DEF IInv, TypeOK
        <4> QED
          BY <3>1, <3>3, <4>1, HeapGrows DEF IInv
      <3> QED
        BY <1>1, <3>1, <3>2, <3>3, <3>4 DEF Oks, Message
    <2> QED
      BY <2>1, <2>2, OksStay DEF Abstract!vars
  <1> QED
    BY <1>1, OnlyWinnersAreRecorded, OnlyNotifyQueues, WinnerElects, NotifyConfirms

\* Spec => Abstract!Spec: RunMastershipArbitration, with its lock released
\* between the election and the notifications, implements the service that
\* records and confirms elections one at a time.
THEOREM ImplementsService == Spec => ImplementsElectionService
  <1>1. Init => Abstract!Init
    BY DEF Init, Abstract!Init, Highest, Oks
  <1>2. IInv /\ OneOkPerElection' /\ [Next]_vars => [Abstract!Next]_Abstract!vars
    BY StepRefines
  <1> QED
    BY <1>1, <1>2, Invariant, OneOk, PTL DEF Spec, ImplementsElectionService, Abstract!Spec
==============================================================================
