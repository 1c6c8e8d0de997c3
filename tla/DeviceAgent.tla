---------------------------- MODULE DeviceAgent ------------------------------
(***************************************************************************)
(* Starting and stopping the API server of a device                        *)
(* (northbound/device/service.go) and its simulated traffic.  Each start   *)
(* makes a new server, which a goroutine of its own runs: it listens,      *)
(* tells the start that it does by closing a channel, and serves until it  *)
(* is stopped.  The device knows its last server only, and its last        *)
(* traffic goroutine.                                                      *)
(*                                                                         *)
(* The servers are gRPC's: a server that is stopped before it serves       *)
(* returns an error when it begins to.                                     *)
(***************************************************************************)
EXTENDS Naturals, Sequences

CONSTANTS
    Operators,      \* concurrent requests to start and stop the device
    MaxStarts       \* bound: how often it is started

ASSUME DeviceAgentAssumption == MaxStarts \in Nat

VARIABLES
    servers,    \* every server made, the last one being the device's
    traffic,    \* the traffic goroutines that run
    cancel,     \* the one the device can end, 0 if none
    starts,     \* how many traffic goroutines were started
    request,    \* what each operator is doing
    panicked

agentVars == <<servers, traffic, cancel, starts, request, panicked>>

Idle == [op |-> "idle"]
Current == Len(servers)
Listening(i) == servers[i].at \in {"created", "started", "serving"}

Move(i, place) == servers' = [servers EXCEPT ![i].at = place]

------------------------------------------------------------------------------
\* Start, and the goroutine of server i.

\* Mutant: the goroutine of the first start is the one that can be ended.
KeepsCancel(c) ==
    /\ request[c] = Idle
    /\ starts < MaxStarts
    /\ starts' = starts + 1
    /\ cancel' = 1
    /\ traffic' = traffic \cup {starts'}
    /\ request' = [request EXCEPT ![c] = [op |-> "start"]]
    /\ UNCHANGED <<servers, panicked>>

StartTraffic(c) ==
    /\ request[c] = Idle
    /\ starts < MaxStarts
    /\ starts' = starts + 1
    /\ cancel' = starts'
    /\ traffic' = traffic \cup {starts'}
    /\ request' = [request EXCEPT ![c] = [op |-> "start"]]
    /\ UNCHANGED <<servers, panicked>>

StartAgent(c) ==
    /\ request[c].op = "start"
    /\ servers' = Append(servers, [at |-> "new", stopped |-> FALSE])
    /\ request' = [request EXCEPT ![c] = [op |-> "wait", server |-> Len(servers) + 1]]
    /\ UNCHANGED <<traffic, cancel, starts, panicked>>

\* Only one server can listen at the device's port.
Listen(i) ==
    /\ servers[i].at = "new"
    /\ Move(i, IF \E j \in DOMAIN servers : Listening(j) THEN "failed" ELSE "created")
    /\ UNCHANGED <<traffic, cancel, starts, request, panicked>>

CloseDone(i) ==
    /\ servers[i].at = "created"
    /\ Move(i, "started")
    /\ UNCHANGED <<traffic, cancel, starts, request, panicked>>

Serve(i) ==
    /\ servers[i].at = "started" /\ ~ servers[i].stopped
    /\ Move(i, "serving")
    /\ UNCHANGED <<traffic, cancel, starts, request, panicked>>

\* The error is sent on the channel that has been closed.
ServePanics(i) ==
    /\ servers[i].at = "started" /\ servers[i].stopped
    /\ panicked' = TRUE
    /\ UNCHANGED <<servers, traffic, cancel, starts, request>>

\* Mutant: a server that fails to listen says nothing.
AwaitsServer(c) ==
    /\ request[c].op = "wait"
    /\ servers[request[c].server].at \notin {"new", "created", "failed"}
    /\ request' = [request EXCEPT ![c] = Idle]
    /\ UNCHANGED <<servers, traffic, cancel, starts, panicked>>

\* Start is answered when its server has failed to listen, or listens.
StartReturns(c) ==
    /\ request[c].op = "wait"
    /\ servers[request[c].server].at \notin {"new", "created"}
    /\ request' = [request EXCEPT ![c] = Idle]
    /\ UNCHANGED <<servers, traffic, cancel, starts, panicked>>

------------------------------------------------------------------------------
\* Stop.

StopTraffic(c, mode) ==
    /\ request[c] = Idle
    /\ traffic' = traffic \ {cancel}
    /\ request' = [request EXCEPT ![c] = [op |-> mode]]
    /\ UNCHANGED <<servers, cancel, starts, panicked>>

Stops(c) == request[c].op \in {"orderly", "chaotic"}

\* The agent has a server, and that server has come to listen.
HasServer == servers # <<>> /\ servers[Current].at \notin {"new", "failed"}

StopPanics(c) ==
    /\ Stops(c) /\ ~ HasServer
    /\ panicked' = TRUE
    /\ UNCHANGED <<servers, traffic, cancel, starts, request>>

\* A server that serves ends at once, or when its streams have, as asked.
StopServer(c) ==
    /\ Stops(c) /\ HasServer
    /\ servers' = [servers EXCEPT ![Current] =
            [at |-> IF @.at \notin {"serving", "draining"} THEN @.at
                    ELSE IF request[c].op = "orderly" THEN "draining" ELSE "ended",
             stopped |-> TRUE]]
    /\ request' = [request EXCEPT ![c] =
            IF request[c].op = "orderly" THEN [op |-> "drain", server |-> Current] ELSE Idle]
    /\ UNCHANGED <<traffic, cancel, starts, panicked>>

Drained(i) ==
    /\ servers[i].at = "draining"
    /\ Move(i, "ended")
    /\ UNCHANGED <<traffic, cancel, starts, request, panicked>>

OrderlyStopReturns(c) ==
    /\ request[c].op = "drain"
    /\ servers[request[c].server].at # "draining"
    /\ request' = [request EXCEPT ![c] = Idle]
    /\ UNCHANGED <<servers, traffic, cancel, starts, panicked>>

------------------------------------------------------------------------------

AgentInit ==
    /\ servers = <<>>
    /\ traffic = {}
    /\ cancel = 0
    /\ starts = 0
    /\ request = [c \in Operators |-> Idle]
    /\ panicked = FALSE

RunServer(i) == Listen(i) \/ CloseDone(i) \/ Serve(i) \/ ServePanics(i)

Operate(c) == StartAgent(c) \/ StartReturns(c) \/ StopPanics(c) \/ OrderlyStopReturns(c)

Servers == [at : {"new", "failed", "created", "started", "serving", "draining", "ended"},
            stopped : BOOLEAN]
Requests(n) == [op : {"idle", "start", "orderly", "chaotic"}]
               \cup [op : {"wait", "drain"}, server : 1..n]

AgentTypeOK ==
    /\ servers \in Seq(Servers)
    /\ starts \in 0..MaxStarts /\ traffic \subseteq 1..starts /\ cancel \in 0..starts
    /\ request \in [Operators -> Requests(Len(servers))]
    /\ panicked \in BOOLEAN
==============================================================================
