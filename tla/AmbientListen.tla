---------------------------- MODULE AmbientListen ----------------------------
(* The connection handlers of the ambient bridge (bridges/ambient_bridge/      *)
(* server.py _handler): the device's audio goes to the local pipeline or, in   *)
(* active mode, to a cloud session opened by the first frame and finalized by  *)
(* the first frame after the mode went back.  A device that died silently      *)
(* leaves a handler whose socket the TCP keep-alive reaps much later, and may  *)
(* meanwhile come back on another one.  With it the telemetry of               *)
(* connection_stats.py, which counts the dark gaps between connections.        *)
EXTENDS Integers, FiniteSets

CONSTANTS
    Handlers,       \* connections that may overlap
    DarkThreshold,  \* conn_dark_threshold_s, in health ticks
    MaxDark         \* bound: dark periods

VARIABLES
    handler,     \* "none", "waiting", "starting", "ending", "closing", "flushing"
    socket,      \* "live", "dead" (half-open), "closed"
    cloud,       \* the handler's ActiveSession: "none", "opening", "open"
    mode,        \* _mode
    pointer,     \* _active_session, the handler's name or Absent
    clients,     \* _active
    dark,        \* ticks since _dark_since_mono, or Unset
    darkCounted, darkEvents,
    darkPeriods  \* the dark periods of this process that reached the threshold

vars == <<handler, socket, cloud, mode, pointer, clients, dark, darkCounted, darkEvents, darkPeriods>>
conns == <<handler, socket, cloud>>
telemetry == <<dark, darkCounted, darkEvents, darkPeriods>>

Absent == "none"
Unset == -1
Served == {c \in Handlers : handler[c] # Absent}

Init ==
    /\ handler = [c \in Handlers |-> Absent] /\ socket = [c \in Handlers |-> "closed"]
    /\ cloud = [c \in Handlers |-> Absent] /\ mode = "passive" /\ pointer = Absent /\ clients = 0
    /\ dark = Unset /\ darkCounted = FALSE /\ darkEvents = 0 /\ darkPeriods = 0
(* ConnectionStats.on_connect, on_disconnect and tick. *)
OnConnect ==
    /\ darkEvents' = darkEvents + (IF dark >= DarkThreshold /\ ~darkCounted THEN 1 ELSE 0)
    /\ dark' = Unset /\ darkCounted' = FALSE /\ UNCHANGED darkPeriods
OnDisconnect ==
    /\ dark' = 0 /\ darkCounted' = FALSE /\ UNCHANGED <<darkEvents, darkPeriods>>
Tick ==
    /\ dark >= DarkThreshold /\ ~darkCounted
    /\ darkEvents' = darkEvents + 1 /\ darkCounted' = TRUE
    /\ UNCHANGED <<conns, mode, pointer, clients, dark, darkPeriods>>
TimePasses ==
    /\ dark \in 0 .. DarkThreshold - 1 /\ darkPeriods < MaxDark /\ dark' = dark + 1
    /\ darkPeriods' = darkPeriods + (IF dark' = DarkThreshold THEN 1 ELSE 0)
    /\ UNCHANGED <<conns, mode, pointer, clients, darkCounted, darkEvents>>

(* One device: it connects again only once its last connection is not live.    *)
Connect(c) ==
    /\ handler[c] = Absent /\ \A d \in Served : socket[d] # "live"
    /\ handler' = [handler EXCEPT ![c] = "waiting"] /\ socket' = [socket EXCEPT ![c] = "live"]
    /\ clients' = clients + 1
    /\ IF clients = 0 THEN OnConnect ELSE UNCHANGED telemetry
    /\ UNCHANGED <<cloud, mode, pointer>>

Dies(c) ==
    /\ handler[c] # Absent /\ socket[c] = "live"
    /\ socket' = [socket EXCEPT ![c] = IF handler[c] = "flushing" THEN "closed" ELSE "dead"]
    /\ UNCHANGED <<handler, cloud, mode, pointer, clients, telemetry>>
Closed(c) ==   \* the device hung up, or the keep-alive gave the dead peer up
    /\ handler[c] # Absent /\ socket[c] # "closed" /\ socket' = [socket EXCEPT ![c] = "closed"]
    /\ UNCHANGED <<handler, cloud, mode, pointer, clients, telemetry>>

(* One audio frame.  The relay of a frame, like the local pipeline, may raise. *)
Frame(c) ==
    /\ handler[c] = "waiting" /\ socket[c] = "live"
    /\ \/ /\ mode = "active" /\ cloud[c] = Absent
          /\ handler' = [handler EXCEPT ![c] = "starting"] /\ cloud' = [cloud EXCEPT ![c] = "opening"]
       \/ /\ mode = "active" /\ cloud[c] # Absent
          /\ handler' \in {handler, [handler EXCEPT ![c] = "closing"]} /\ UNCHANGED cloud
       \/ /\ mode = "passive" /\ cloud[c] # Absent
          /\ handler' = [handler EXCEPT ![c] = "ending"] /\ UNCHANGED cloud
       \/ /\ mode = "passive" /\ cloud[c] = Absent
          /\ handler' \in {handler, [handler EXCEPT ![c] = "closing"]} /\ UNCHANGED cloud
    /\ UNCHANGED <<socket, mode, pointer, clients, telemetry>>

(* ActiveSession.start returned, with a session or without one for want of a   *)
(* key: the frame is relayed whatever the mode is by now.  Or it raised.       *)
Started(c) ==
    /\ handler[c] = "starting"
    /\ \/ /\ cloud' = [cloud EXCEPT ![c] = "open"] /\ pointer' = c
          /\ handler' = [handler EXCEPT ![c] = "waiting"]
       \/ /\ handler' = [handler EXCEPT ![c] = "closing"] /\ UNCHANGED <<cloud, pointer>>
    /\ UNCHANGED <<socket, mode, clients, telemetry>>
\* Mutated form: finalizing leaves _active_session set.
ReleaseKeepsPointer(c) == cloud' = [cloud EXCEPT ![c] = Absent] /\ UNCHANGED pointer

(* ActiveSession.finalize, which raises nothing, and the end of its use. *)
Release(c) ==
    /\ cloud' = [cloud EXCEPT ![c] = Absent]
    /\ pointer' = IF pointer = c THEN Absent ELSE pointer
Ended(c) ==
    /\ handler[c] = "ending" /\ Release(c)
    /\ handler' = [handler EXCEPT ![c] = "waiting"]
    /\ UNCHANGED <<socket, mode, clients, telemetry>>

(* The finally block, at the end of the messages or after an error. *)
Gone(c) ==
    /\ handler[c] = "waiting" /\ socket[c] = "closed"
    /\ handler' = [handler EXCEPT ![c] = "closing"]
    /\ UNCHANGED <<socket, cloud, mode, pointer, clients, telemetry>>
\* Mutated form: the finally block finalizes only the session /marker would find.
FinalizeCurrentOnly(c) ==
    /\ handler[c] = "closing" /\ handler' = [handler EXCEPT ![c] = "flushing"]
    /\ IF pointer = c THEN Release(c) ELSE UNCHANGED <<cloud, pointer>>
    /\ UNCHANGED <<socket, mode, clients, telemetry>>

Finalize(c) ==
    /\ handler[c] = "closing" /\ handler' = [handler EXCEPT ![c] = "flushing"]
    /\ Release(c) /\ UNCHANGED <<socket, mode, clients, telemetry>>
Flushed(c) ==
    /\ handler[c] = "flushing" /\ handler' = [handler EXCEPT ![c] = Absent]
    /\ socket' = [socket EXCEPT ![c] = "closed"] /\ clients' = clients - 1
    /\ IF clients = 1 THEN OnDisconnect ELSE UNCHANGED telemetry
    /\ UNCHANGED <<cloud, mode, pointer>>

(* _handle_mode. *)
SetMode == mode' \in {"active", "passive"} \ {mode} /\ UNCHANGED <<conns, pointer, clients, telemetry>>

HandlerStep(c) == Frame(c) \/ Started(c) \/ Ended(c) \/ Gone(c) \/ Finalize(c) \/ Flushed(c)
Next ==
    \/ \E c \in Handlers : Connect(c) \/ Dies(c) \/ Closed(c) \/ HandlerStep(c)
    \/ SetMode \/ Tick \/ TimePasses

(* The device streams without a pause; the cloud's calls return; the           *)
(* keep-alive gives up a dead socket.                                          *)
Fairness ==
    \A c \in Handlers :
        WF_vars(HandlerStep(c)) /\ WF_vars(socket[c] = "dead" /\ Closed(c))
Spec == Init /\ [][Next]_vars /\ Fairness

-----------------------------------------------------------------------------
TypeOK ==
    /\ \A c \in Handlers :
        /\ handler[c] \in {Absent, "waiting", "starting", "ending", "closing", "flushing"}
        /\ socket[c] \in {"live", "dead", "closed"} /\ cloud[c] \in {Absent, "opening", "open"}
    /\ mode \in {"active", "passive"} /\ pointer \in Handlers \cup {Absent}
    /\ clients = Cardinality(Served)
    /\ dark \in -1 .. DarkThreshold /\ darkCounted \in BOOLEAN
    /\ darkEvents \in 0 .. MaxDark + 1 /\ darkPeriods \in 0 .. MaxDark

(* A dark period is counted once, by the tick that first sees it long enough   *)
(* or by the connection that ends it, never by both; none is missed, and the   *)
(* overlap of a zombie with the device's next connection starts none.          *)
DarkOnce ==
    /\ clients > 0 => darkEvents = darkPeriods
    /\ darkEvents \in {darkPeriods, darkPeriods - 1}

(* /marker never writes into a session that was released, whichever of the     *)
(* overlapping handlers opened or released theirs last.                        *)
PointerTrue == pointer # Absent => cloud[pointer] = "open"

(* Both: the overlap of a zombie with the next connection confuses neither the *)
(* pointer to the session nor the count of dark periods.                       *)
OverlapHarmless == PointerTrue /\ DarkOnce

(* server.py: "One device -> one connection, so a single ref suffices": the    *)
(* open session of the device's live connection can be reached by /marker.     *)
MarkerHits ==
    (\E c \in Served : cloud[c] = "open" /\ socket[c] = "live" /\ handler[c] = "waiting")
        => pointer # Absent

(* Once the mode stays passive every cloud session is closed, the zombie's     *)
(* included.                                                                   *)
CloudEnds == <>[](mode = "passive") => <>[](\A c \in Handlers : cloud[c] = Absent)
=============================================================================
