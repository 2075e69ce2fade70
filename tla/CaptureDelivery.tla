--------------------------- MODULE CaptureDelivery ---------------------------
(***************************************************************************)
(* The live stream of a capture: CaptureDeliveryController with its        *)
(* DeliveryReceiptTracker, and the MicStreamService code around them, from *)
(* the microphone thread and the socket's callbacks to what the user is    *)
(* told.                                                                   *)
(*                                                                         *)
(* Threads: the main handler (clicks and callbacks queue in main, deadlines*)
(* are timers that may fire at any time), the capture coroutine of each    *)
(* run, OkHttp's threads and the bridge behind them.  A handler holds the  *)
(* ws monitor throughout, so it is one action.  The reconnect delay and    *)
(* the clock are abstracted: an age is "fresh" until it is past            *)
(* RECEIPT_TIMEOUT_MS and "old" then.                                      *)
(***************************************************************************)
EXTENDS Naturals, Sequences

CONSTANTS
  None,        \* no socket, no run
  MaxEvents,   \* bound on clicks, microphone failures and 14-hour limits, so on run ids
  MaxSockets,  \* bound on sockets
  MaxFrames,   \* bound on audio frames a socket carries
  MaxQueue     \* bound on what waits for the main thread

ASSUME CaptureAssumption ==
  /\ MaxEvents \in Nat /\ MaxSockets \in Nat /\ MaxFrames \in Nat /\ MaxQueue \in Nat
  /\ None \notin Nat

\* A start and a stop each take a run id.
Runs == 1 .. MaxEvents
Sockets == 1 .. MaxSockets

VARIABLES
  ctl,     \* the controller and its receipt tracker
  ws,      \* the current socket
  url,     \* activeUrl is set
  ui,      \* the published phase
  shown,   \* the delivery-failure notification
  job,     \* captureJob: the run whose coroutine it is
  cap,     \* cap[r]: the capture coroutine of run r
  main,    \* the main handler's queue
  timers,  \* its delayed callbacks
  sock,    \* sock[s]: a socket and the bridge's end of it
  used,    \* sockets opened so far
  events   \* clicks, failures and limits so far

vars == <<ctl, ws, url, ui, shown, job, cap, main, timers, sock, used, events>>
service == <<url, job, cap>>

Phases == {"IDLE", "CONNECTING", "AWAITING_RECEIPT", "HEALTHY", "UNCONFIRMED", "RECONNECTING",
           "CAPTURE_STOPPED", "STOPPED"}
OpenPhases == {"AWAITING_RECEIPT", "HEALTHY", "UNCONFIRMED"}
Alerts == {"none", "reconnecting", "stopped"}

Controllers ==
  [run : 0 .. MaxEvents, attempt : 0 .. MaxSockets, active : BOOLEAN, phase : Phases, alert : Alerts,
   ackSupported : BOOLEAN, opened : {"no", "fresh", "old"}, acked : {"no", "fresh", "old"},
   confirmed : 0 .. MaxFrames]
Captures == [pc : {"none", "starting", "reading", "taken", "allowed", "refused", "ended"}, cancelled : BOOLEAN,
             frame : Sockets \cup {None}]
SocketStates ==
  [run : 0 .. MaxEvents, attempt : 0 .. MaxSockets, hello : BOOLEAN, answered : BOOLEAN,
   received : 0 .. MaxFrames, acked : 0 .. MaxFrames,
   net : {"unused", "opening", "open", "failed", "cancelled", "closed"}]
Events ==
  [kind : {"start", "stop", "limit"}]
    \cup [kind : {"captureFailed"}, run : Runs]
    \cup [kind : {"opened", "hello"}, sock : Sockets]
    \cup [kind : {"ack"}, sock : Sockets, bytes : 1 .. MaxFrames]
    \cup [kind : {"down"}, sock : Sockets, run : Runs, attempt : 1 .. MaxSockets]
Timers == [kind : {"handshake", "receipt"}, sock : Sockets] \cup [kind : {"reconnect"}, run : Runs]

TypeOK ==
  /\ ctl \in Controllers
  /\ ws \in Sockets \cup {None}
  /\ url \in BOOLEAN
  /\ ui \in {"IDLE", "CONNECTING", "LIVE", "UNCONFIRMED", "RECONNECTING", "STOPPED", "ERROR"}
  /\ shown \in Alerts
  /\ job \in Runs \cup {None}
  /\ cap \in [Runs -> Captures]
  /\ main \in Seq(Events)
  /\ timers \subseteq Timers
  /\ sock \in [Sockets -> SocketStates]
  /\ used \in 0 .. MaxSockets
  /\ events \in 0 .. MaxEvents

Init ==
  /\ ctl = [run |-> 0, attempt |-> 0, active |-> FALSE, phase |-> "IDLE", alert |-> "none",
            ackSupported |-> FALSE, opened |-> "no", acked |-> "no", confirmed |-> 0]
  /\ ws = None /\ url = FALSE /\ ui = "IDLE" /\ shown = "none" /\ job = None
  /\ cap = [r \in Runs |-> [pc |-> "none", cancelled |-> FALSE, frame |-> None]]
  /\ main = <<>> /\ timers = {}
  /\ sock = [s \in Sockets |-> [run |-> 0, attempt |-> 0, hello |-> FALSE, answered |-> FALSE,
                                received |-> 0, acked |-> 0, net |-> "unused"]]
  /\ used = 0 /\ events = 0
-----------------------------------------------------------------------------
(* The controller *)

IsCurrentRun(r) == ctl.active /\ ctl.run = r
IsCurrentAttempt(r, a) == IsCurrentRun(r) /\ ctl.attempt = a
IsCurrentOpenAttempt(r, a) == IsCurrentAttempt(r, a) /\ ctl.phase \in OpenPhases
CanSend(r) == IsCurrentRun(r) /\ ctl.phase \in OpenPhases

Started == [ctl EXCEPT !.run = @ + 1, !.attempt = 0, !.active = TRUE, !.phase = "CONNECTING",
                       !.alert = "none", !.ackSupported = FALSE, !.opened = "no", !.acked = "no",
                       !.confirmed = 0]
Stopped == [ctl EXCEPT !.run = @ + 1, !.attempt = 0, !.active = FALSE, !.phase = "STOPPED",
                       !.alert = "none"]

\* Mutated form: the tracker keeps the last socket's receipts.
OpenedKept == [ctl EXCEPT !.phase = "AWAITING_RECEIPT", !.opened = "fresh"]

Opened == [ctl EXCEPT !.phase = "AWAITING_RECEIPT", !.opened = "fresh", !.acked = "no",
                      !.confirmed = 0, !.ackSupported = FALSE]

\* DeliveryReceiptTracker.status
Status ==
  CASE ctl.ackSupported /\ ctl.acked = "fresh" -> "HEALTHY"
    [] ctl.ackSupported /\ (ctl.acked = "old" \/ (ctl.acked = "no" /\ ctl.opened = "old")) -> "STALE"
    [] ~ctl.ackSupported /\ ctl.opened = "old" -> "UNCONFIRMED"
    [] OTHER -> "WAITING"

(* deliveryRestoredUpdate: the user is told when the failure told before is over. *)
Restored(c) == /\ ctl' = [c EXCEPT !.alert = "none"]
               /\ shown' = IF c.alert = "none" THEN shown ELSE "none"

Reconnect(r) == [kind |-> "reconnect", run |-> r]

Retired(s) ==
  IF s = None THEN sock
  ELSE [sock EXCEPT ![s].net = IF @ \in {"opening", "open"} THEN "cancelled" ELSE @]

\* reconnect(), and what every caller does with it: no current socket, the old one cancelled,
\* a reconnect scheduled, the user told once.
Lost(s, rest) ==
  /\ ctl' = [ctl EXCEPT !.phase = "RECONNECTING", !.alert = "reconnecting"]
  /\ shown' = IF ctl.alert = "reconnecting" THEN shown ELSE "reconnecting"
  /\ ui' = "RECONNECTING"
  /\ ws' = None
  /\ sock' = Retired(s)
  /\ timers' = rest \cup IF url THEN {Reconnect(ctl.run)} ELSE {}
-----------------------------------------------------------------------------
(* Clicks and the capture coroutine *)

Post(e) == Len(main) < MaxQueue /\ main' = Append(main, e)

Click(kind) ==
  /\ events < MaxEvents
  /\ events' = events + 1
  /\ Post([kind |-> kind])
  /\ UNCHANGED <<ctl, ws, ui, shown, service, timers, sock, used>>

Handles(kind) == main # <<>> /\ Head(main).kind = kind /\ main' = Tail(main)

Capturing == job # None /\ cap[job].pc # "ended" /\ ~cap[job].cancelled

\* startCapture
Start ==
  /\ Handles("start")
  /\ IF Capturing
       THEN UNCHANGED <<ctl, ui, shown, service>>
       ELSE /\ ctl' = Started
            /\ shown' = "none"
            /\ ui' = "CONNECTING"
            /\ url' = TRUE
            /\ job' = ctl.run + 1
            /\ cap' = [cap EXCEPT ![ctl.run + 1].pc = "starting"]
  /\ UNCHANGED <<ws, timers, sock, used, events>>

\* stopCapture, from a click or from the 14-hour limit
Stop ==
  /\ Handles("stop") \/ Handles("limit")
  /\ cap' = IF job = None THEN cap ELSE [cap EXCEPT ![job].cancelled = TRUE]
  /\ job' = None
  /\ url' = FALSE
  /\ ctl' = Stopped
  /\ ws' = None
  /\ sock' = IF ws = None THEN sock
             ELSE [sock EXCEPT ![ws].net = IF @ \in {"opening", "open"} THEN "closed" ELSE @]
  /\ shown' = "none"
  /\ ui' = "STOPPED"
  /\ UNCHANGED <<timers, used, events>>

\* openSocket: beginAttempt, and a new socket in the place of the old.
OpenSocket(r, rest) ==
  IF IsCurrentRun(r) /\ ctl.phase \in {"CONNECTING", "RECONNECTING"}
    THEN LET s == used + 1 IN
         /\ used < MaxSockets
         /\ used' = s
         /\ ctl' = [ctl EXCEPT !.attempt = @ + 1, !.phase = "CONNECTING"]
         /\ sock' = [Retired(ws) EXCEPT ![s].run = r, ![s].attempt = ctl.attempt + 1,
                                        ![s].net = "opening"]
         /\ ws' = s
         /\ timers' = rest \cup {[kind |-> "handshake", sock |-> s]}
    ELSE /\ timers' = rest
         /\ UNCHANGED <<ctl, ws, sock, used>>

\* The coroutine's first act: the socket is opened on the main thread.
FirstOpen(r) ==
  /\ cap[r].pc = "starting" /\ ~cap[r].cancelled
  /\ OpenSocket(r, timers)
  /\ cap' = [cap EXCEPT ![r].pc = "reading"]
  /\ UNCHANGED <<url, ui, shown, job, main, events>>

EndCapture(r) ==
  /\ cap[r].pc \in {"starting", "reading"} /\ cap[r].cancelled
  /\ cap' = [cap EXCEPT ![r].pc = "ended"]
  /\ UNCHANGED <<ctl, ws, url, ui, shown, job, main, timers, sock, used, events>>

\* The recorder cannot be used, or a read fails, even when the run was stopped meanwhile.
MicFails(r) ==
  /\ cap[r].pc \in {"starting", "reading"}
  /\ events < MaxEvents
  /\ events' = events + 1
  /\ cap' = [cap EXCEPT ![r].pc = "ended"]
  /\ Post([kind |-> "captureFailed", run |-> r])
  /\ UNCHANGED <<ctl, ws, url, ui, shown, job, timers, sock, used>>

\* MAX_SESSION_MS: stopCapture is posted without the run's id.
LimitReached(r) ==
  /\ cap[r].pc = "reading"
  /\ events < MaxEvents
  /\ events' = events + 1
  /\ cap' = [cap EXCEPT ![r].pc = "ended"]
  /\ Post([kind |-> "limit"])
  /\ UNCHANGED <<ctl, ws, url, ui, shown, job, timers, sock, used>>

\* A frame is read (a stop may come during the read) and the current socket fetched; only then
\* is canSend asked.
TakeFrame(r) ==
  /\ cap[r].pc = "reading"
  /\ cap' = [cap EXCEPT ![r].pc = "taken", ![r].frame = ws]
  /\ UNCHANGED <<ctl, ws, url, ui, shown, job, main, timers, sock, used, events>>

AskCanSend(r) ==
  /\ cap[r].pc = "taken"
  /\ cap' = IF CanSend(r) /\ cap[r].frame # None
            THEN [cap EXCEPT ![r].pc = "allowed"]
            ELSE [cap EXCEPT ![r].pc = "reading", ![r].frame = None]
  /\ UNCHANGED <<ctl, ws, url, ui, shown, job, main, timers, sock, used, events>>

\* Mutated form: the socket is fetched after canSend was asked.
SendsOnCurrent(r) == IF ws = None THEN cap[r].frame ELSE ws

SendsOn(r) == cap[r].frame

\* send() queues the frame, or refuses it on a socket that is closing.
SendFrame(r) ==
  LET s == SendsOn(r) IN
  /\ cap[r].pc = "allowed"
  /\ \/ /\ sock[s].net \in {"opening", "open"}
        /\ sock[s].received < MaxFrames
        /\ sock' = [sock EXCEPT ![s].received = @ + 1]
        /\ cap' = [cap EXCEPT ![r].pc = "reading", ![r].frame = None]
     \/ /\ sock[s].net \notin {"opening", "open"}
        /\ cap' = [cap EXCEPT ![r].pc = "refused"]
        /\ UNCHANGED sock
  /\ UNCHANGED <<ctl, ws, url, ui, shown, job, main, timers, used, events>>

\* currentAttempt
CurrentAttempt(r) == IF IsCurrentRun(r) THEN ctl.attempt ELSE None

\* The refusal is reported for the attempt that is current by now.
ReportRefused(r) ==
  /\ cap[r].pc = "refused"
  /\ IF CurrentAttempt(r) = None THEN UNCHANGED main
     ELSE Post([kind |-> "down", sock |-> cap[r].frame, run |-> r, attempt |-> CurrentAttempt(r)])
  /\ cap' = [cap EXCEPT ![r].pc = "reading", ![r].frame = None]
  /\ UNCHANGED <<ctl, ws, url, ui, shown, job, timers, sock, used, events>>

\* reportCaptureFailure
CaptureFailed ==
  /\ Handles("captureFailed")
  /\ IF IsCurrentRun(Head(main).run)
       THEN /\ ctl' = [ctl EXCEPT !.active = FALSE, !.phase = "CAPTURE_STOPPED", !.alert = "stopped"]
            /\ url' = FALSE
            /\ ws' = None
            /\ sock' = Retired(ws)
            /\ shown' = "stopped"
            /\ ui' = "ERROR"
       ELSE UNCHANGED <<ctl, url, ws, sock, shown, ui>>
  /\ UNCHANGED <<job, cap, timers, used, events>>
-----------------------------------------------------------------------------
(* OkHttp and the bridge *)

Callback(s, net, e) ==
  /\ sock' = [sock EXCEPT ![s].net = net]
  /\ Post(e)
  /\ UNCHANGED <<ctl, ws, ui, shown, service, timers, used, events>>

Down(s) == [kind |-> "down", sock |-> s, run |-> sock[s].run, attempt |-> sock[s].attempt]

NetOpens(s) == sock[s].net = "opening" /\ Callback(s, "open", [kind |-> "opened", sock |-> s])

\* A failure, or the end of a cancelled or closed socket.
NetEnds(s) == sock[s].net \in {"opening", "open", "cancelled", "closed"} /\ Callback(s, "failed", Down(s))

\* What the bridge sends may still be read off a socket the phone has given up.
Heard(s) == sock[s].net \in {"open", "cancelled", "closed"}

BridgeHello(s) ==
  /\ Heard(s) /\ sock[s].hello /\ ~sock[s].answered
  /\ sock' = [sock EXCEPT ![s].answered = TRUE]
  /\ Post([kind |-> "hello", sock |-> s])
  /\ UNCHANGED <<ctl, ws, ui, shown, service, timers, used, events>>

\* The bridge acknowledges the bytes it has received, at the arrival of more
\* (meeting_bridge/server.py:240-245).
BridgeAck(s) ==
  /\ Heard(s) /\ sock[s].answered
  /\ \E n \in sock[s].acked + 1 .. sock[s].received :
       /\ sock' = [sock EXCEPT ![s].acked = n]
       /\ Post([kind |-> "ack", sock |-> s, bytes |-> n])
  /\ UNCHANGED <<ctl, ws, ui, shown, service, timers, used, events>>
-----------------------------------------------------------------------------
(* Socket callbacks and deadlines, on the main thread *)

Receipt(s) == [kind |-> "receipt", sock |-> s]

\* onSocketOpened: the hello goes first, then audio may.
SocketOpened ==
  LET s == Head(main).sock IN
  /\ Handles("opened")
  /\ \/ /\ ws # s
        /\ UNCHANGED <<ctl, ws, ui, shown, timers, sock>>
     \/ /\ ws = s /\ sock[s].net # "open"
        /\ IF IsCurrentAttempt(sock[s].run, sock[s].attempt) /\ ctl.phase \in OpenPhases \cup {"CONNECTING"}
             THEN Lost(s, timers)
             ELSE UNCHANGED <<ctl, ws, ui, shown, timers, sock>>
     \/ /\ ws = s /\ sock[s].net = "open"
        /\ sock' = [sock EXCEPT ![s].hello = TRUE]
        /\ IF IsCurrentAttempt(sock[s].run, sock[s].attempt) /\ ctl.phase = "CONNECTING"
             THEN /\ ctl' = Opened
                  /\ ui' = "CONNECTING"
                  /\ timers' = timers \cup {Receipt(s)}
             ELSE UNCHANGED <<ctl, ui, timers>>
        /\ UNCHANGED <<ws, shown>>
  /\ UNCHANGED <<service, used, events>>

\* onSocketMessage
GotHello ==
  LET s == Head(main).sock IN
  /\ Handles("hello")
  /\ ctl' = IF ws = s /\ IsCurrentOpenAttempt(sock[s].run, sock[s].attempt)
            THEN [ctl EXCEPT !.ackSupported = TRUE] ELSE ctl
  /\ UNCHANGED <<ws, ui, shown, service, timers, sock, used, events>>

GotAck ==
  LET s == Head(main).sock
      bytes == Head(main).bytes
  IN
  /\ Handles("ack")
  /\ IF /\ ws = s
        /\ IsCurrentOpenAttempt(sock[s].run, sock[s].attempt)
        /\ ctl.ackSupported /\ bytes > ctl.confirmed
       THEN /\ Restored([ctl EXCEPT !.confirmed = bytes, !.acked = "fresh", !.phase = "HEALTHY"])
            /\ ui' = "LIVE"
       ELSE UNCHANGED <<ctl, shown, ui>>
  /\ UNCHANGED <<ws, service, timers, sock, used, events>>

DownCounts(s, r, a) == ws = s /\ IsCurrentAttempt(r, a)

\* onSocketDown
SocketDown ==
  LET e == Head(main) IN
  /\ Handles("down")
  /\ IF DownCounts(e.sock, e.run, e.attempt) /\ ctl.phase \in OpenPhases \cup {"CONNECTING"}
       THEN Lost(e.sock, timers)
       ELSE UNCHANGED <<ctl, ws, ui, shown, timers, sock>>
  /\ UNCHANGED <<service, used, events>>

HandshakeTimeout(s) ==
  LET t == [kind |-> "handshake", sock |-> s] IN
  /\ t \in timers
  /\ IF ws = s /\ IsCurrentAttempt(sock[s].run, sock[s].attempt) /\ ctl.phase = "CONNECTING"
       THEN Lost(s, timers \ {t})
       ELSE /\ timers' = timers \ {t}
            /\ UNCHANGED <<ctl, ws, ui, shown, sock>>
  /\ UNCHANGED <<service, main, used, events>>

\* Mutated form: a tick that finds nothing to do is the last one.
TickOnce(s) == timers \ {Receipt(s)}

TickAgain(s) == timers

\* onReceiptTick
ReceiptTick(s) ==
  /\ Receipt(s) \in timers
  /\ IF ws = s /\ IsCurrentOpenAttempt(sock[s].run, sock[s].attempt)
       THEN \/ /\ Status = "WAITING"
               /\ timers' = TickAgain(s)
               /\ UNCHANGED <<ctl, ws, ui, shown, sock>>
            \/ /\ Status = "HEALTHY"
               /\ ctl' = [ctl EXCEPT !.phase = "HEALTHY"]
               /\ UNCHANGED <<ws, ui, shown, timers, sock>>
            \/ /\ Status = "UNCONFIRMED"
               /\ IF ctl.phase = "UNCONFIRMED" THEN UNCHANGED <<ctl, ui, shown>>
                  ELSE Restored([ctl EXCEPT !.phase = "UNCONFIRMED"]) /\ ui' = "UNCONFIRMED"
               /\ UNCHANGED <<ws, timers, sock>>
            \/ /\ Status = "STALE"
               /\ Lost(s, timers \ {Receipt(s)})
       ELSE /\ timers' = timers \ {Receipt(s)}
            /\ UNCHANGED <<ctl, ws, ui, shown, sock>>
  /\ UNCHANGED <<service, main, used, events>>

ReconnectDue(r) ==
  /\ Reconnect(r) \in timers
  /\ IF url /\ ws = None /\ IsCurrentRun(r) /\ ctl.phase = "RECONNECTING"
       THEN OpenSocket(r, timers \ {Reconnect(r)})
       ELSE /\ timers' = timers \ {Reconnect(r)}
            /\ UNCHANGED <<ctl, ws, sock, used>>
  /\ UNCHANGED <<service, ui, shown, main, events>>

\* RECEIPT_TIMEOUT_MS goes by since the socket opened, or since the last receipt
\* (both are only read in the open phases).
TimePasses ==
  /\ ctl.active /\ ctl.phase \in OpenPhases
  /\ \/ ctl.opened = "fresh" /\ ctl' = [ctl EXCEPT !.opened = "old"]
     \/ ctl.opened = "old" /\ ctl.acked = "fresh" /\ ctl' = [ctl EXCEPT !.acked = "old"]
  /\ UNCHANGED <<ws, ui, shown, service, main, timers, sock, used, events>>
-----------------------------------------------------------------------------
MainStep ==
  \/ Start \/ Stop \/ CaptureFailed
  \/ SocketOpened \/ GotHello \/ GotAck \/ SocketDown

Deadline ==
  \/ \E s \in Sockets : HandshakeTimeout(s) \/ ReceiptTick(s)
  \/ \E r \in Runs : ReconnectDue(r)

CaptureStep ==
  \E r \in Runs : FirstOpen(r) \/ EndCapture(r) \/ MicFails(r) \/ LimitReached(r)
                  \/ TakeFrame(r) \/ AskCanSend(r) \/ SendFrame(r) \/ ReportRefused(r)

BridgeStep == \E s \in Sockets : NetOpens(s) \/ NetEnds(s) \/ BridgeHello(s) \/ BridgeAck(s)

Next ==
  \/ Click("start") \/ Click("stop")
  \/ MainStep \/ Deadline \/ CaptureStep \/ BridgeStep \/ TimePasses

Spec == Init /\ [][Next]_vars
-----------------------------------------------------------------------------
(***************************************************************************)
(* "Live" is never shown on anything but receipts of this run's current    *)
(* connection: no late callback, message or deadline of an older run or    *)
(* socket confirms audio the bridge did not get                            *)
(* (CaptureDeliveryController.kt:37-42, DeliveryReceiptTracker.kt:5).      *)
(***************************************************************************)
LiveIsProven ==
  /\ ui = "LIVE" => ctl.active /\ ctl.phase = "HEALTHY"
  /\ ctl.phase = "HEALTHY" =>
       /\ ws # None
       /\ sock[ws].run = ctl.run
       /\ ctl.confirmed \in 1 .. sock[ws].received

(***************************************************************************)
(* The failure notification tells the state of the delivery: up while the  *)
(* stream is down, gone once audio is confirmed or delivery cannot be      *)
(* judged, and gone after a stop.                                          *)
(***************************************************************************)
AlertTells ==
  /\ ctl.phase = "RECONNECTING" => shown = "reconnecting"
  /\ ctl.phase = "CAPTURE_STOPPED" => shown = "stopped"
  /\ ctl.phase \in {"HEALTHY", "UNCONFIRMED", "STOPPED"} => shown = "none"

(***************************************************************************)
(* An active run always has a deadline that moves it on: it cannot hang in *)
(* a phase whose timer was lost (MicStreamService.kt:110-114).             *)
(***************************************************************************)
NeverStuck ==
  ctl.active =>
    \/ ctl.phase = "RECONNECTING" /\ Reconnect(ctl.run) \in timers
    \/ ctl.phase = "CONNECTING" /\ cap[ctl.run].pc = "starting"
    \/ ctl.phase = "CONNECTING" /\ ws # None /\ [kind |-> "handshake", sock |-> ws] \in timers
    \/ ctl.phase \in OpenPhases /\ ws # None /\ Receipt(ws) \in timers
    \/ [kind |-> "captureFailed", run |-> ctl.run] \in {main[i] : i \in DOMAIN main}

(***************************************************************************)
(* The phone never streams to two sockets: whatever raced, every socket    *)
(* but the current one has been cancelled or closed.                       *)
(***************************************************************************)
OneStream == \A s \in Sockets : sock[s].net \in {"opening", "open"} => ws = s

(***************************************************************************)
(* No audio reaches a bridge ahead of the capability request               *)
(* (MicStreamService.kt:371-373), although the capture thread fetches the  *)
(* socket before it asks whether it may send.                              *)
(***************************************************************************)
HelloFirst == \A s \in Sockets : sock[s].received > 0 => sock[s].hello

(***************************************************************************)
(* What the user is shown is well-formed and true, on screen and in the    *)
(* notification.                                                           *)
(***************************************************************************)
ShownIsTrue == TypeOK /\ LiveIsProven /\ AlertTells

(***************************************************************************)
(* What the bridges are sent comes on one socket, the hello first.         *)
(***************************************************************************)
SentInOrder == OneStream /\ HelloFirst
=============================================================================
