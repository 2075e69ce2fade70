----------------------------- MODULE VoiceSession -----------------------------
(* One Voice PE and the realtime voice bridge: the transport whose new         *)
(* connection evicts the old one, the connect and disconnect handlers (tasks   *)
(* of their own that share one OpenAI session under a lock), the rotation of   *)
(* that session, the idle manager and the disconnect tool.  The device drops   *)
(* off the network without a close, comes back, or hangs up at any time.       *)
EXTENDS Integers, Sequences, FiniteSets, Functions

CONSTANTS
    Socks,       \* the device's connections, numbered in the order it makes them
    MaxTroubles  \* bound: times the device vanishes without closing, or OpenAI fails

ASSUME SocksAssumption == Socks \subseteq Nat \ {0} /\ IsFiniteSet(Socks) /\ MaxTroubles \in Nat

VARIABLES
    sock,        \* Socks -> "unused", "open", "halfopen" (the device is gone), "closed", "yanked"
    told,        \* the connections whose device was sent {"type": "disconnect"}
    serve,       \* Socks -> where its _client_handler stands
    evicted,     \* Socks -> the connection it waits for, 0 for none
    inWs, outWs, \* the _websocket of the input and of the output transport, 0 for none
    events,      \* connect and disconnect events whose handler task has yet to begin
    connecting,  \* connections whose connect handler refreshes the prompt
    leaving,     \* disconnect handlers that wait for the lock, as <<socket, seq>>
    active,      \* _active_websocket
    seq,         \* _conn_seq
    lock,        \* _pipeline_lock: 0, the connection whose handler holds it, or Rotation
    openai,      \* "up" or "down"
    rotation,    \* _rotation_task: "none", "asleep", "resetting"
    deferral,    \* the deferred disconnect of the startup is still to come
    idle,        \* the idle manager: [armed, closing, user, bot, pending, turn]
    hangups,     \* connections in the grace period of send_disconnect_then_close
    troubles,
    failed       \* an OpenAI connection has failed

transportVars == <<sock, told, serve, evicted, inWs, outWs, hangups>>
sessionVars == <<connecting, leaving, active, seq, lock, openai, rotation, deferral>>
vars == <<transportVars, sessionVars, idle, events, troubles, failed>>

None == 0
Rotation == -1
Fresh == [armed |-> TRUE, closing |-> FALSE, user |-> FALSE, bot |-> FALSE, pending |-> FALSE, turn |-> FALSE]

Init ==
    /\ sock = [s \in Socks |-> "unused"] /\ told = {} /\ serve = [s \in Socks |-> "none"]
    /\ evicted = [s \in Socks |-> None] /\ inWs = None /\ outWs = None /\ hangups = {}
    /\ events = <<>> /\ connecting = {} /\ leaving = {} /\ active = None /\ seq = 0
    /\ lock = None /\ openai = "up" /\ rotation = "none" /\ deferral = TRUE
    /\ idle = [Fresh EXCEPT !.armed = FALSE]
    /\ troubles = 0 /\ failed = FALSE

-----------------------------------------------------------------------------
(* The device: one connection at a time, as far as it knows.                   *)
DeviceConnects(s) ==
    /\ sock[s] = "unused" /\ \A o \in Socks : o < s => sock[o] # "unused"
    /\ \A o \in Socks : sock[o] # "open" /\ serve[o] # "arrived"
    /\ sock' = [sock EXCEPT ![s] = "open"] /\ serve' = [serve EXCEPT ![s] = "arrived"]
    /\ UNCHANGED <<told, evicted, inWs, outWs, hangups, sessionVars, idle, events, troubles, failed>>
DeviceVanishes(s) ==
    /\ sock[s] = "open" /\ troubles < MaxTroubles /\ troubles' = troubles + 1 /\ UNCHANGED failed
    /\ sock' = [sock EXCEPT ![s] = "halfopen"]
    /\ UNCHANGED <<told, serve, evicted, inWs, outWs, hangups, sessionVars, idle, events>>
DeviceCloses(s) ==
    /\ sock[s] = "open" /\ sock' = [sock EXCEPT ![s] = "closed"]
    /\ UNCHANGED <<told, serve, evicted, inWs, outWs, hangups, sessionVars, idle, events, troubles, failed>>

(* The server closes s.  A device that is there and was not told to go idle    *)
(* takes it for a dropped connection.                                          *)
ServerCloses(s) ==
    IF s = None \/ sock[s] \notin {"open", "halfopen"} THEN sock
    ELSE [sock EXCEPT ![s] = IF sock[s] = "open" /\ s \notin told THEN "yanked" ELSE "closed"]
Gone(s) == sock[s] \in {"closed", "yanked"}

(* The parent's handler refuses a second client.  Taking one sets the output   *)
(* connection, which closes what it held, and raises the connect event.        *)
Taken(s) ==
    IF inWs # None
    THEN /\ sock' = ServerCloses(s) /\ serve' = [serve EXCEPT ![s] = "done"]
         /\ UNCHANGED <<inWs, outWs, events>>
    ELSE /\ inWs' = s /\ sock' = ServerCloses(outWs) /\ outWs' = s
         /\ serve' = [serve EXCEPT ![s] = "serving"] /\ events' = Append(events, <<"connect", s>>)

(* _client_handler: a connection the input still holds is closed, and its      *)
(* handler's teardown awaited, before the new one is taken.                    *)
Arrive(s) ==
    /\ serve[s] = "arrived"
    /\ \/ inWs = None /\ Taken(s) /\ UNCHANGED evicted
       \/ /\ inWs # None /\ inWs' = None /\ evicted' = [evicted EXCEPT ![s] = inWs]
          /\ serve' = [serve EXCEPT ![s] = "evicting"] /\ UNCHANGED <<sock, outWs, events>>
    /\ UNCHANGED <<told, hangups, sessionVars, idle, troubles, failed>>
EvictedCloses(s) ==
    /\ serve[s] = "evicting" /\ sock' = ServerCloses(evicted[s])
    /\ serve' = [serve EXCEPT ![s] = "waiting"]
    /\ UNCHANGED <<told, evicted, inWs, outWs, hangups, sessionVars, idle, events, troubles, failed>>
\* Mutated form: the evicted handler's teardown is not awaited.
TeardownNotAwaited(s) == TRUE

TeardownOver(s) == serve[evicted[s]] = "done"
EvictionOver(s) ==
    /\ serve[s] = "waiting" /\ TeardownOver(s) /\ Taken(s)
    /\ UNCHANGED <<told, evicted, hangups, sessionVars, idle, troubles, failed>>

(* The receive loop of s has ended: the output is cleared, which closes what   *)
(* it holds, and the disconnect event raised.                                  *)
Teardown(s) ==
    /\ serve[s] = "serving" /\ Gone(s) /\ serve' = [serve EXCEPT ![s] = "done"]
    /\ sock' = ServerCloses(outWs) /\ outWs' = None /\ inWs' = IF inWs = s THEN None ELSE inWs
    /\ events' = Append(events, <<"disconnect", s>>)
    /\ UNCHANGED <<told, evicted, hangups, sessionVars, idle, troubles, failed>>

-----------------------------------------------------------------------------
(* on_client_connected: one that replaces a live connection keeps the session. *)
Raised(kind, s) == events # <<>> /\ Head(events) = <<kind, s>> /\ events' = Tail(events)
ConnectBegins(s) ==
    /\ Raised("connect", s) /\ active' = s
    /\ IF active \notin {None, s} THEN UNCHANGED <<seq, connecting>>
       ELSE seq' = seq + 1 /\ connecting' = connecting \cup {s}
    /\ UNCHANGED <<transportVars, leaving, lock, openai, rotation, deferral, idle, troubles, failed>>

(* The prompt is there, or three seconds are over; then the lock, and OpenAI   *)
(* is reset or connected under it.                                             *)
ConnectLocks(s) ==
    /\ s \in connecting /\ lock = None /\ lock' = s /\ connecting' = connecting \ {s}
    /\ UNCHANGED <<transportVars, leaving, active, seq, openai, rotation, deferral, idle, events, troubles, failed>>

(* _connect reports a failure and returns; the rest of the handler follows:    *)
(* a new rotation timer, a fresh baseline of the idle manager.                 *)
Fails == troubles < MaxTroubles /\ troubles' = troubles + 1 /\ failed' = TRUE /\ openai' = "down"
ConnectEnds(s) ==
    /\ lock = s /\ lock' = None /\ rotation' = "asleep" /\ idle' = Fresh
    /\ (openai' = "up" /\ UNCHANGED <<troubles, failed>>) \/ Fails
    /\ UNCHANGED <<transportVars, connecting, leaving, active, seq, deferral, events>>

(* on_client_disconnected: of a connection that was replaced it only gives the *)
(* output its live connection back; the last one's ends the session.           *)
RestoreOutput == outWs' = IF outWs = None THEN active ELSE outWs
DisconnectBegins(s) ==
    /\ Raised("disconnect", s)
    /\ IF active \notin {None, s}
       THEN /\ RestoreOutput
            /\ UNCHANGED <<active, rotation, lock, idle, leaving>>
       ELSE /\ active' = None /\ rotation' = "none" /\ lock' = IF lock = Rotation THEN None ELSE lock
            /\ idle' = [idle EXCEPT !.armed = FALSE] /\ leaving' = leaving \cup {<<s, seq>>}
            /\ UNCHANGED outWs
    /\ UNCHANGED <<sock, told, serve, evicted, inWs, hangups, connecting, seq, openai, deferral, troubles, failed>>
\* Mutated form: every disconnect handler that gets the lock ends the session.
AlwaysLast(d) == TRUE

StillLast(d) == d[2] = seq
DisconnectEnds(d) ==
    /\ d \in leaving /\ lock = None /\ leaving' = leaving \ {d}
    /\ openai' = IF StillLast(d) THEN "down" ELSE openai
    /\ UNCHANGED <<transportVars, connecting, active, seq, lock, rotation, deferral, idle, events, troubles, failed>>

(* The startup leaves OpenAI disconnected until the first client comes.        *)
NoClientYet == seq = 0
Deferred ==
    /\ deferral /\ lock = None /\ deferral' = FALSE
    /\ openai' = IF NoClientYet THEN "down" ELSE openai
    /\ UNCHANGED <<transportVars, connecting, leaving, active, seq, lock, rotation, idle, events, troubles, failed>>

-----------------------------------------------------------------------------
(* The rotation loop, before OpenAI's 60 minutes are over: it sleeps, takes    *)
(* the lock and resets the session, or ends when there is none.                *)
RotationLocks ==
    /\ rotation = "asleep" /\ lock = None
    /\ IF openai = "down" THEN rotation' = "none" /\ UNCHANGED <<lock, openai>>
       ELSE rotation' = "resetting" /\ lock' = Rotation /\ openai' = "down"
    /\ UNCHANGED <<transportVars, connecting, leaving, active, seq, deferral, idle, events, troubles, failed>>
RotationEnds ==
    /\ rotation = "resetting" /\ rotation' = "asleep" /\ lock' = None
    /\ (openai' = "up" /\ UNCHANGED <<troubles, failed>>) \/ Fails
    /\ UNCHANGED <<transportVars, connecting, leaving, active, seq, deferral, idle, events>>

-----------------------------------------------------------------------------
(* What the pipeline tells the idle manager.  OpenAI needs the device's audio  *)
(* to hear the user begin, and to hear him stop: a device that vanishes in     *)
(* mid-sentence leaves him speaking.  The bot's speech is the bridge's own     *)
(* and ends by itself.  A reply may never end.                                 *)
Heard == inWs # None /\ sock[inWs] = "open" /\ openai = "up"
Told(what) == idle' = what /\ UNCHANGED <<transportVars, sessionVars, events, troubles, failed>>
UserSpeaks == Heard /\ Told([idle EXCEPT !.user = TRUE])
UserStops == Heard /\ idle.user /\ Told([idle EXCEPT !.user = FALSE])
BotSpeaks == /\ Heard \/ (inWs # None /\ openai = "up" /\ idle.pending)
             /\ Told([idle EXCEPT !.bot = TRUE, !.turn = FALSE])
BotStops == idle.bot /\ Told([idle EXCEPT !.bot = FALSE])
Transcribed == Heard /\ Told([idle EXCEPT !.turn = TRUE])
ReplyPends == Heard /\ Told([idle EXCEPT !.pending = TRUE])
ReplyDone == openai = "up" /\ idle.pending /\ Told([idle EXCEPT !.pending = FALSE])

(* send_disconnect_then_close: the frame, a grace period, and the close,       *)
(* whatever becomes of the task meanwhile.                                     *)
Hangup(ws) == IF ws = None THEN UNCHANGED <<told, hangups>>
              ELSE told' = told \cup {ws} /\ hangups' = hangups \cup {ws}
HangupCloses(s) ==
    /\ s \in hangups /\ hangups' = hangups \ {s} /\ sock' = ServerCloses(s)
    /\ UNCHANGED <<told, serve, evicted, inWs, outWs, sessionVars, idle, events, troubles, failed>>
\* Mutated form: a pending reply holds the idle timeout off for ever.
NeverStuck == FALSE

(* The watchdog: the idle timeout with nothing going on, or a reply that has   *)
(* been pending for max_pending_active.                                        *)
Stuck == idle.pending
Quiet == ~idle.user /\ ~idle.bot /\ ~idle.pending
IdleFires ==
    /\ idle.armed /\ ~idle.closing /\ (Quiet \/ Stuck) /\ idle' = [idle EXCEPT !.closing = TRUE]
    /\ Hangup(inWs)
    /\ UNCHANGED <<sock, serve, evicted, inWs, outWs, sessionVars, events, troubles, failed>>

(* The disconnect tool, honoured only after a turn of the user's.              *)
Legitimate == idle.turn
DisconnectTool ==
    /\ openai = "up" /\ Legitimate /\ inWs \notin hangups \cup {None} /\ Hangup(inWs)
    /\ UNCHANGED <<sock, serve, evicted, inWs, outWs, sessionVars, idle, events, troubles, failed>>

-----------------------------------------------------------------------------
Serve(s) == \/ Arrive(s) \/ EvictedCloses(s) \/ EvictionOver(s) \/ Teardown(s)
            \/ HangupCloses(s)
HandleEvent == \E s \in Socks : ConnectBegins(s) \/ DisconnectBegins(s)
ReleaseLock == RotationEnds \/ \E s \in Socks : ConnectEnds(s)

Next ==
    \/ \E s \in Socks : DeviceConnects(s) \/ DeviceVanishes(s) \/ DeviceCloses(s)
    \/ \E s \in Socks : Serve(s) \/ ConnectLocks(s)
    \/ \E d \in leaving : DisconnectEnds(d)
    \/ HandleEvent \/ ReleaseLock \/ Deferred \/ RotationLocks
    \/ UserSpeaks \/ UserStops \/ Transcribed \/ ReplyPends \/ ReplyDone \/ BotSpeaks \/ BotStops
    \/ IdleFires \/ DisconnectTool

(* The event loop runs every task that is ready, the watchdog's second passes, *)
(* OpenAI answers or fails, and the bot's speech comes to an end; the device   *)
(* owes nothing, and neither do the end of a reply and that of the user's      *)
(* speech.                                                                     *)
Fairness ==
    /\ \A s \in Socks : WF_vars(Serve(s)) /\ SF_vars(ConnectLocks(s))
    /\ WF_vars(HandleEvent) /\ WF_vars(ReleaseLock) /\ WF_vars(BotStops) /\ WF_vars(IdleFires)

Spec == Init /\ [][Next]_vars /\ Fairness

-----------------------------------------------------------------------------
TypeOK ==
    /\ sock \in [Socks -> {"unused", "open", "halfopen", "closed", "yanked"}]
    /\ serve \in [Socks -> {"none", "arrived", "evicting", "waiting", "serving", "done"}]
    /\ {inWs, outWs, active} \cup Range(evicted) \subseteq Socks \cup {None}
    /\ connecting \cup told \cup hangups \subseteq Socks /\ lock \in Socks \cup {None, Rotation}
    /\ openai \in {"up", "down"} /\ rotation \in {"none", "asleep", "resetting"}
    /\ leaving \subseteq Socks \X (0 .. Cardinality(Socks))

(* The handlers' work is done.                                                 *)
Settled ==
    /\ events = <<>> /\ connecting = {} /\ leaving = {} /\ lock = None /\ rotation # "resetting"
    /\ \A s \in Socks : serve[s] \in {"none", "serving", "done"} /\ (serve[s] = "serving" => ~Gone(s))

(* Safety: a device whose connection is being served has the whole session:    *)
(* its sockets on both sides, the OpenAI session unless that failed, and an    *)
(* idle manager on watch, whatever connections came and went before it and     *)
(* however late their handlers ran.                                            *)
ServedIsLive ==
    Settled /\ inWs # None =>
        /\ outWs = inWs /\ active = inWs /\ idle.armed
        /\ openai = "up" \/ failed

(* Safety: the session is well-formed and whole.                               *)
SessionWhole == TypeOK /\ ServedIsLive

(* Safety: a device that is still there is told to go idle before the server   *)
(* closes its connection, or it would dial into a session that is torn down.   *)
(* Two cases are left, both of an eviction whose teardown another connection   *)
(* overtakes.  Of three: o evicts a first one and waits, s finds the place     *)
(* empty and is taken at once, and the late teardown closes the socket that    *)
(* the output holds by then.  Of four: s evicts the one that overtook o, and   *)
(* o, whose wait is over first, has the place when s would be taken.           *)
Overtook(s) ==
    inWs = s /\ \E o \in Socks \ {s} : serve[o] \in {"evicting", "waiting"} /\ evicted[o] # s
PlaceRetaken(s) == serve[s] = "waiting" /\ inWs \notin {None, s} /\ evicted[inWs] # None
TellsFirst ==
    [][\A s \in Socks : sock[s] = "open" /\ sock'[s] = "yanked"
                           => Overtook(s) \/ PlaceRetaken(s)]_vars

(* Safety: with no client and nothing left to run, no OpenAI session is open.  *)
(* The disconnect handler closes it "to stop the 60-min session clock"; the    *)
(* connect handler of a device that has hung up opens it after that.           *)
NoOrphan == Settled /\ active = None /\ ~deferral => openai = "down"

(* Liveness: the connection of a device that vanished is closed in the end,    *)
(* although nothing pings it: the idle manager owns that.  One is left open    *)
(* for ever only if the device vanished in the middle of the user's speech     *)
(* and no reply is pending, which nobody bounds.                               *)
MidSpeech(s) == inWs = s /\ idle.user /\ ~idle.pending
DeadDeviceClosed == \A s \in Socks : <>[](sock[s] = "halfopen") => <>[]MidSpeech(s)
=============================================================================
