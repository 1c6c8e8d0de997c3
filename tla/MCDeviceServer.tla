--------------------------- MODULE MCDeviceServer ----------------------------
(***************************************************************************)
(* An instance of DeviceServer for TLC, and its two environments.          *)
(***************************************************************************)
EXTENDS DeviceServer

CONSTANTS s1, s2

VARIABLE crowded    \* whether two operators are at work

\* Two operators start and stop the device at once.  Nobody streams from it.
Operating == pc' = pc

NothingIsEmitted == \A e \in Emitters : pc'[e] = "idle"

\* One operator, an emitter and two streams.  The device is started again only before
\* streams are opened.  The first stream sends a packet-out that is refused only before
\* the second opens.  The second opens while the first is being served and nothing is
\* emitted any more; its client always reads and sends nothing until it goes.  So the
\* run has every interleaving of an emitter and a stream with one stop, and of a stream
\* with another one that comes and goes, with one stop.
Streaming ==
    /\ request'["o2"] = Idle
    /\ starts' # starts => starts = 0 \/ pc[s1] = "new"
    /\ client[s1] # "gone" /\ pc[s1] = "recv" /\ pc'[s1] = "deregister" => pc[s2] = "new"
    /\ pc[s2] = "new" /\ pc'[s2] # "new" =>
           pc[s1] # "new" /\ (pc[s1] \in {"deregister", "closed"} => client[s1] = "gone")
    /\ pc'[s2] # "new" => NothingIsEmitted
    /\ client'[s2] # "stalled"
    /\ pc[s2] = "recv" /\ client[s2] # "gone" => pc'[s2] = "recv"

Environment == IF crowded THEN Operating ELSE Streaming

MCInit == Init /\ crowded \in BOOLEAN
MCNext == Next /\ Environment /\ UNCHANGED crowded
MCSpec == MCInit /\ [][MCNext]_<<vars, crowded>> /\ Fairness
==============================================================================
