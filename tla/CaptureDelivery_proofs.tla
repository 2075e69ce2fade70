------------------------- MODULE CaptureDelivery_proofs -------------------------
(***************************************************************************)
(* Proof that what the phone shows of a live capture is what the bridge    *)
(* confirmed, that it streams to one socket and asks before it sends, and  *)
(* that no phase hangs, for any number of clicks, failures, sockets,       *)
(* frames and queued callbacks (CaptureDeliveryController.kt,              *)
(* DeliveryReceiptTracker.kt, MicStreamService.kt).                        *)
(***************************************************************************)
EXTENDS CaptureDelivery, FiniteSetTheorems, TLAPS

Up == {"opening", "open"}
Dialing == {"CONNECTING", "RECONNECTING"}

NoCapture == [pc |-> "none", cancelled |-> FALSE, frame |-> None]
NoSocket ==
  [run |-> 0, attempt |-> 0, hello |-> FALSE, answered |-> FALSE, received |-> 0, acked |-> 0,
   net |-> "unused"]

Handshake(s) == [kind |-> "handshake", sock |-> s]

\* The current socket is the one this run's current attempt opened.
Current == ws # None /\ sock[ws].run = ctl.run /\ sock[ws].attempt = ctl.attempt

\* A socket: untouched until it is opened, no audio before the hello, up only while it is current.
SockInv(s) ==
  /\ s > used => sock[s] = NoSocket
  /\ s <= used => sock[s].run >= 1 /\ sock[s].attempt >= 1 /\ sock[s].net # "unused"
  /\ sock[s].received > 0 => sock[s].hello
  /\ sock[s].net \in Up => ws = s

\* A capture coroutine: what it may still send goes to a socket that was asked, or that is
\* no longer up; the active run's is not cancelled.
CapInv(r) ==
  /\ r > ctl.run => cap[r] = NoCapture
  /\ cap[r].frame # None => cap[r].frame <= used
  /\ cap[r].pc \in {"allowed", "refused"} => cap[r].frame # None
  /\ cap[r].pc = "allowed" => sock[cap[r].frame].hello \/ sock[cap[r].frame].net \notin Up
  /\ ctl.active /\ ctl.run = r =>
       /\ ~cap[r].cancelled
       /\ cap[r].pc = "starting" => ctl.phase = "CONNECTING" /\ ctl.attempt = 0
       /\ cap[r].pc \in {"reading", "taken", "allowed", "refused"} => ctl.attempt >= 1

\* A callback that waits is of an opened socket; a receipt is for what that socket was sent.
EventInv(e) ==
  /\ e.kind \in {"opened", "hello", "ack", "down"} => e.sock <= used
  /\ e.kind = "ack" => e.bytes <= sock[e.sock].received

\* The waiting calls that take a run id.
Waiting == {i \in 1 .. Len(main) : main[i].kind \in {"start", "stop", "limit"}}

QueueInv ==
  /\ \A i \in 1 .. Len(main) : EventInv(main[i])
  /\ ctl.run + Cardinality(Waiting) <= events

PhaseInv ==
  /\ shown = ctl.alert
  /\ ctl.phase = "RECONNECTING" => ctl.alert = "reconnecting" /\ ws = None
  /\ ctl.phase = "CAPTURE_STOPPED" => ctl.alert = "stopped"
  /\ ctl.phase \in {"HEALTHY", "UNCONFIRMED", "STOPPED"} => ctl.alert = "none"
  /\ ui = "LIVE" => ctl.phase = "HEALTHY"
  /\ ctl.active <=> ctl.phase \in OpenPhases \cup Dialing
  /\ ctl.active => url /\ job = ctl.run /\ ctl.run >= 1
  /\ job # None => job <= ctl.run
  /\ ctl.attempt <= used
  /\ ws # None => ws <= used
  /\ ctl.phase \in OpenPhases =>
       /\ Current /\ sock[ws].hello /\ ctl.confirmed <= sock[ws].received
       /\ ctl.acked # "no" => ctl.alert = "none" /\ ctl.confirmed >= 1
       /\ ctl.phase = "HEALTHY" => ctl.confirmed >= 1

FailureWaits == \E i \in 1 .. Len(main) : main[i] = [kind |-> "captureFailed", run |-> ctl.run]

\* An active run has something that moves it on.
MovesOn ==
  ctl.active =>
    \/ ctl.phase = "RECONNECTING" /\ Reconnect(ctl.run) \in timers
    \/ ctl.phase = "CONNECTING" /\ cap[ctl.run].pc = "starting"
    \/ ctl.phase = "CONNECTING" /\ Current /\ Handshake(ws) \in timers
    \/ ctl.phase \in OpenPhases /\ Receipt(ws) \in timers
    \/ FailureWaits

CaptureInv ==
  /\ TypeOK
  /\ \A s \in Sockets : SockInv(s)
  /\ \A r \in Runs : CapInv(r)
  /\ QueueInv
  /\ PhaseInv
  /\ MovesOn

-----------------------------------------------------------------------------
(* The data *)

LEMMA EventTypes ==
  ASSUME NEW e \in Events
  PROVE  /\ e.kind \in {"start", "stop", "limit", "captureFailed", "opened", "hello", "ack", "down"}
         /\ e.kind \in {"opened", "hello", "ack", "down"} => e.sock \in Sockets
         /\ e.kind = "ack" => e.bytes \in 1 .. MaxFrames
         /\ e.kind = "down" => e.run \in Runs /\ e.attempt \in 1 .. MaxSockets
         /\ e.kind = "captureFailed" => e.run \in Runs
  BY DEF Events

LEMMA NoneApart == None \notin Sockets /\ None \notin Runs /\ None \notin Nat
  BY CaptureAssumption DEF Sockets, Runs

LEMMA SocketTypes ==
  ASSUME TypeOK, NEW s \in Sockets
  PROVE  /\ sock[s] \in SocketStates /\ s \in Nat /\ used \in Nat
         /\ sock[s].run \in Nat /\ sock[s].attempt \in Nat
         /\ sock[s].received \in Nat /\ sock[s].acked \in Nat
         /\ sock[s].hello \in BOOLEAN /\ sock[s].answered \in BOOLEAN
  BY CaptureAssumption DEF TypeOK, SocketStates, Sockets

\* Giving up a socket: it is up no longer, and nothing else of any socket changes.
LEMMA RetiredSockets ==
  ASSUME TypeOK, NEW s \in Sockets \cup {None}
  PROVE  /\ Retired(s) \in [Sockets -> SocketStates]
         /\ \A t \in Sockets :
              /\ Retired(s)[t].run = sock[t].run /\ Retired(s)[t].attempt = sock[t].attempt
              /\ Retired(s)[t].hello = sock[t].hello
              /\ Retired(s)[t].received = sock[t].received
              /\ Retired(s)[t].net \in Up => sock[t].net \in Up /\ t # s
              /\ sock[t].net \notin Up => Retired(s)[t] = sock[t]
              /\ sock[t].net # "unused" => Retired(s)[t].net # "unused"
<1>1. CASE s = None
  BY <1>1, NoneApart DEF Retired, TypeOK
<1>2. CASE s # None
  <2> DEFINE n == IF sock[s].net \in Up THEN "cancelled" ELSE sock[s].net
             y == [sock[s] EXCEPT !.net = n]
  <2>1. s \in Sockets /\ sock \in [Sockets -> SocketStates] /\ sock[s] \in SocketStates
    BY <1>2 DEF TypeOK
  <2>2. /\ n \in {"unused", "opening", "open", "failed", "cancelled", "closed"} /\ n \notin Up
        /\ sock[s].net \notin Up => n = sock[s].net
        /\ sock[s].net # "unused" => n # "unused"
    BY <2>1 DEF SocketStates, Up
  <2>3. Retired(s) = [sock EXCEPT ![s] = y]
    BY <1>2, <2>1 DEF Retired, Up
  <2> HIDE DEF n
  <2>4. /\ y \in SocketStates /\ y.run = sock[s].run /\ y.attempt = sock[s].attempt
        /\ y.hello = sock[s].hello /\ y.received = sock[s].received /\ y.net = n
        /\ n = sock[s].net => y = sock[s]
    BY <2>1, <2>2 DEF SocketStates
  <2> HIDE DEF y
  <2> QED BY <2>1, <2>2, <2>3, <2>4
<1> QED BY <1>1, <1>2

\* Sockets only ever learn more, and one that is down stays down.
SocketsGrow ==
  /\ used <= used'
  /\ \A s \in 1 .. used :
       /\ sock[s].hello => sock'[s].hello
       /\ sock[s].received <= sock'[s].received
       /\ sock[s].net \notin Up => sock'[s].net \notin Up

LEMMA SameSocketsGrow ==
  ASSUME TypeOK, UNCHANGED <<sock, used>>
  PROVE  SocketsGrow
<1>1. \A s \in 1 .. used : s \in Sockets
  BY CaptureAssumption DEF TypeOK, Sockets
<1>2. \A s \in 1 .. used : sock[s].received \in Nat /\ used \in Nat
  BY <1>1, SocketTypes
<1>3. used <= used
  BY DEF TypeOK
<1> QED BY <1>2, <1>3 DEF SocketsGrow

LEMMA RetiredGrows ==
  ASSUME TypeOK, NEW s \in Sockets \cup {None}, sock' = Retired(s), used' = used
  PROVE  SocketsGrow
<1>1. \A t \in 1 .. used : t \in Sockets
  BY CaptureAssumption DEF TypeOK, Sockets
<1>2. \A t \in 1 .. used : sock[t].received \in Nat
  BY <1>1, SocketTypes
<1>3. used <= used'
  BY DEF TypeOK
<1> QED BY <1>1, <1>2, <1>3, RetiredSockets DEF SocketsGrow

\* What a waiting callback and a capture rely on stays true while the sockets only learn more.
LEMMA EventStays ==
  ASSUME TypeOK, TypeOK', SocketsGrow, NEW e \in Events, EventInv(e)
  PROVE  EventInv(e)'
<1>1. used \in Nat /\ used' \in Nat /\ used <= used'
  BY DEF TypeOK, SocketsGrow
<1>2. e.kind \in {"opened", "hello", "ack", "down"} => e.sock \in Sockets /\ e.sock \in Nat /\ e.sock <= used'
  BY <1>1, EventTypes, CaptureAssumption DEF EventInv, Sockets
<1>3. ASSUME e.kind = "ack" PROVE e.bytes <= sock'[e.sock].received
  <2>1. e.sock \in 1 .. used /\ e.sock \in Sockets /\ e.bytes \in Nat /\ e.bytes <= sock[e.sock].received
    BY <1>1, <1>3, EventTypes, CaptureAssumption DEF EventInv, Sockets
  <2>2. sock[e.sock].received \in Nat /\ sock'[e.sock].received \in Nat
    BY <2>1, CaptureAssumption DEF TypeOK, SocketStates
  <2>3. sock[e.sock].received <= sock'[e.sock].received
    BY <2>1 DEF SocketsGrow
  <2> QED BY <2>1, <2>2, <2>3
<1> QED BY <1>2, <1>3 DEF EventInv

LEMMA CaptureTypes ==
  ASSUME TypeOK, NEW r \in Runs
  PROVE  /\ cap[r] \in Captures /\ r \in Nat /\ r >= 1 /\ r <= MaxEvents
         /\ cap[r].frame \in Sockets \cup {None} /\ cap[r].cancelled \in BOOLEAN
         /\ ctl.run \in Nat /\ ctl.attempt \in Nat /\ ctl.active \in BOOLEAN
  BY CaptureAssumption DEF TypeOK, Captures, Controllers, Runs

\* What a capture relies on of the sockets.
FrameInv(c) ==
  /\ c.frame # None => c.frame <= used
  /\ c.pc \in {"allowed", "refused"} => c.frame # None
  /\ c.pc = "allowed" => sock[c.frame].hello \/ sock[c.frame].net \notin Up

\* What the active run says of its capture.
ActiveInv(r) ==
  ctl.active /\ ctl.run = r =>
    /\ ~cap[r].cancelled
    /\ cap[r].pc = "starting" => ctl.phase = "CONNECTING" /\ ctl.attempt = 0
    /\ cap[r].pc \in {"reading", "taken", "allowed", "refused"} => ctl.attempt >= 1

LEMMA CapParts ==
  ASSUME NEW r \in Runs
  PROVE  CapInv(r) <=> (r > ctl.run => cap[r] = NoCapture) /\ FrameInv(cap[r]) /\ ActiveInv(r)
  BY DEF CapInv, FrameInv, ActiveInv

LEMMA FrameStays ==
  ASSUME TypeOK, TypeOK', SocketsGrow, NEW c \in Captures, FrameInv(c)
  PROVE  FrameInv(c)'
<1>1. used \in Nat /\ used' \in Nat /\ used <= used'
  BY DEF TypeOK, SocketsGrow
<1>2. c.frame \in Sockets \cup {None}
  BY DEF Captures
<1>3. c.frame # None => c.frame \in Sockets /\ c.frame \in Nat /\ c.frame \in 1 .. used /\ c.frame <= used'
  BY <1>1, <1>2, CaptureAssumption DEF FrameInv, Sockets
<1>4. ASSUME c.pc = "allowed" PROVE sock'[c.frame].hello \/ sock'[c.frame].net \notin Up
  BY <1>3, <1>4 DEF FrameInv, SocketsGrow
<1> QED BY <1>3, <1>4 DEF FrameInv

\* A step that leaves the captures alone, and of the controller only moves a run on that was
\* connected before.
LEMMA CapsStay ==
  ASSUME TypeOK, TypeOK', SocketsGrow, \A r \in Runs : CapInv(r),
         cap' = cap, ctl'.run = ctl.run, ctl'.active => ctl.active,
         \/ ctl'.phase = ctl.phase /\ ctl'.attempt = ctl.attempt
         \/ ctl.attempt >= 1 /\ ctl'.attempt >= 1
         \/ ~ctl'.active
  PROVE  \A r \in Runs : CapInv(r)'
<1> SUFFICES ASSUME NEW r \in Runs PROVE CapInv(r)'
  OBVIOUS
<1>1. CapInv(r) /\ cap[r] \in Captures /\ ctl.attempt \in Nat
  BY CaptureTypes
<1>2. FrameInv(cap[r])'
  BY <1>1, FrameStays, CapParts
<1>3. ActiveInv(r)'
  BY <1>1, CapParts DEF ActiveInv
<1>4. (r > ctl.run => cap[r] = NoCapture)'
  BY <1>1, CapParts DEF NoCapture
<1> QED BY <1>2, <1>3, <1>4 DEF CapInv, FrameInv, ActiveInv

\* The same when one capture moves on, told what it relies on.
LEMMA OneCapMoves ==
  ASSUME TypeOK, TypeOK', SocketsGrow, \A r \in Runs : CapInv(r),
         NEW q \in Runs, NEW c \in Captures, cap' = [cap EXCEPT ![q] = c], q <= ctl.run,
         ctl'.run = ctl.run, ctl'.active = ctl.active, FrameInv(c)', ActiveInv(q)',
         ctl.run # q => ctl'.phase = ctl.phase /\ ctl'.attempt = ctl.attempt
  PROVE  \A r \in Runs : CapInv(r)'
<1> SUFFICES ASSUME NEW r \in Runs PROVE CapInv(r)'
  OBVIOUS
<1>0. cap \in [Runs -> Captures] /\ ctl.run \in Nat /\ q \in Nat /\ r \in Nat
  BY CaptureTypes DEF TypeOK
<1>1. CASE r = q
  <2>1. cap'[r] = c
    BY <1>0, <1>1
  <2>2. FrameInv(cap[r])'
    BY <2>1 DEF FrameInv
  <2> QED BY <1>0, <1>1, <2>2 DEF CapInv, FrameInv, ActiveInv
<1>2. CASE r # q
  <2>1. cap'[r] = cap[r]
    BY <1>0, <1>2
  <2>2. CapInv(r) /\ cap[r] \in Captures
    BY <1>0
  <2>3. FrameInv(cap[r])'
    <3> DEFINE k == cap[r]
    <3>1. FrameInv(k) /\ k \in Captures
      BY <2>2, CapParts
    <3>2. FrameInv(k)'
      <4> HIDE DEF k
      <4> QED BY <3>1, FrameStays, <2>1 DEF k
    <3> QED BY <3>2
  <2>4. ActiveInv(r)'
    BY <1>2, <2>1, <2>2, CapParts DEF ActiveInv
  <2>5. (r > ctl.run => cap[r] = NoCapture)'
    BY <2>1, <2>2, CapParts DEF NoCapture
  <2> QED BY <2>3, <2>4, <2>5 DEF CapInv, FrameInv, ActiveInv
<1> QED BY <1>1, <1>2

-----------------------------------------------------------------------------
(* The main handler's queue *)

Takes == {"start", "stop", "limit"}

LEMMA WaitingFinite ==
  ASSUME TypeOK
  PROVE  IsFiniteSet(Waiting) /\ Cardinality(Waiting) \in Nat /\ Waiting \subseteq 1 .. Len(main)
<1>1. Len(main) \in Nat
  BY DEF TypeOK
<1>2. IsFiniteSet(1 .. Len(main))
  BY <1>1, FS_Interval
<1>3. Waiting \subseteq 1 .. Len(main)
  BY DEF Waiting
<1> QED BY <1>2, <1>3, FS_Subset, FS_CardinalityType

\* A call that is posted is one more of its kind.
LEMMA PostedCounts ==
  ASSUME TypeOK, NEW e \in Events, main' = Append(main, e)
  PROVE  /\ Len(main') = Len(main) + 1 /\ main'[Len(main) + 1] = e
         /\ \A i \in 1 .. Len(main) : main'[i] = main[i]
         /\ e.kind \in Takes => Cardinality(Waiting') = Cardinality(Waiting) + 1
         /\ e.kind \notin Takes => Waiting' = Waiting
<1>1. main \in Seq(Events) /\ Len(main) \in Nat
  BY DEF TypeOK
<1>2. /\ Len(main') = Len(main) + 1 /\ main'[Len(main) + 1] = e
      /\ \A i \in 1 .. Len(main) : main'[i] = main[i]
  BY <1>1
<1>3. IsFiniteSet(Waiting) /\ Waiting \subseteq 1 .. Len(main)
  BY WaitingFinite
<1>4. ASSUME e.kind \in Takes PROVE Cardinality(Waiting') = Cardinality(Waiting) + 1
  <2>1. Waiting' = Waiting \cup {Len(main) + 1}
    BY <1>1, <1>2, <1>4 DEF Waiting, Takes
  <2>2. Len(main) + 1 \notin Waiting
    BY <1>1, <1>3
  <2> QED BY <1>3, <2>1, <2>2, FS_AddElement
<1>5. ASSUME e.kind \notin Takes PROVE Waiting' = Waiting
  BY <1>1, <1>2, <1>5 DEF Waiting, Takes
<1> QED BY <1>2, <1>4, <1>5

\* A call that is handled is one less of its kind.
LEMMA TakenCounts ==
  ASSUME TypeOK, main # <<>>, main' = Tail(main)
  PROVE  /\ Len(main) \in Nat /\ Len(main) >= 1 /\ Len(main') = Len(main) - 1
         /\ \A i \in 1 .. Len(main') : main'[i] = main[i + 1]
         /\ Head(main) = main[1] /\ Head(main) \in Events
         /\ Head(main).kind \in Takes => Cardinality(Waiting') = Cardinality(Waiting) - 1
         /\ Head(main).kind \notin Takes => Cardinality(Waiting') = Cardinality(Waiting)
<1>1. main \in Seq(Events) /\ Len(main) \in Nat
  BY DEF TypeOK
<1>2. Len(main) >= 1
  BY <1>1
<1>3. Len(main') = Len(main) - 1 /\ \A i \in 1 .. Len(main') : main'[i] = main[i + 1]
  BY <1>1, <1>2
<1>4. Head(main) = main[1] /\ Head(main) \in Events
  BY <1>1, <1>2
<1>5. IsFiniteSet(Waiting) /\ Waiting \subseteq 1 .. Len(main) /\ Cardinality(Waiting) \in Nat
  BY WaitingFinite
<1> DEFINE rest == Waiting \ {1}
           up == [i \in Waiting' |-> i + 1]
<1>6. Waiting' \subseteq 1 .. Len(main')
  BY DEF Waiting
<1>7. IsFiniteSet(rest)
  BY <1>5, FS_Subset
<1>8. \A i \in Waiting' : i \in Nat /\ i >= 1 /\ i + 1 \in rest
  BY <1>1, <1>2, <1>3, <1>6 DEF Waiting
<1>9. \A j \in rest : j \in Nat /\ j >= 2 /\ j - 1 \in Waiting'
  <2> TAKE j \in rest
  <2>1. j \in 1 .. Len(main) /\ j # 1 /\ main[j].kind \in Takes
    BY DEF Waiting, Takes
  <2>2. j - 1 \in 1 .. Len(main') /\ (j - 1) + 1 = j
    BY <1>1, <1>3, <2>1
  <2>3. main'[j - 1] = main[j]
    BY <1>3, <2>2
  <2> QED BY <1>1, <2>1, <2>2, <2>3 DEF Waiting, Takes
<1>10. up \in Bijection(Waiting', rest)
  <2>1. up \in [Waiting' -> rest]
    BY <1>8
  <2>2. \A a, b \in Waiting' : up[a] = up[b] => a = b
    BY <1>8
  <2>3. \A j \in rest : \E i \in Waiting' : up[i] = j
    <3> TAKE j \in rest
    <3>1. j - 1 \in Waiting' /\ up[j - 1] = j
      BY <1>9
    <3> QED BY <3>1
  <2> QED BY <2>1, <2>2, <2>3 DEF Bijection, Injection, Surjection, IsInjective
<1>11. Cardinality(Waiting') = Cardinality(rest)
  <2>1. IsFiniteSet(Waiting')
    <3>1. Len(main') \in Nat
      BY <1>1, <1>2, <1>3
    <3>2. IsFiniteSet(1 .. Len(main'))
      BY <3>1, FS_Interval
    <3> QED BY <1>6, <3>2, FS_Subset
  <2> QED BY <1>7, <1>10, <2>1, FS_Bijection DEF ExistsBijection
<1>12. Head(main).kind \in Takes <=> 1 \in Waiting
  BY <1>1, <1>2, <1>4 DEF Waiting, Takes
<1>13. Head(main).kind \in Takes => Cardinality(rest) = Cardinality(Waiting) - 1
  BY <1>5, <1>12, FS_RemoveElement
<1>14. Head(main).kind \notin Takes => rest = Waiting
  BY <1>12
<1> QED BY <1>1, <1>2, <1>3, <1>4, <1>11, <1>13, <1>14

LEMMA QueueStays ==
  ASSUME TypeOK, TypeOK', SocketsGrow, QueueInv, main' = main,
         ctl'.run = ctl.run, events' >= events
  PROVE  QueueInv'
<1>1. Waiting' = Waiting
  BY DEF Waiting
<1>2. Cardinality(Waiting) \in Nat /\ ctl.run \in Nat /\ events \in Nat /\ events' \in Nat
  BY WaitingFinite DEF TypeOK, Controllers
<1>3. \A i \in 1 .. Len(main) : main[i] \in Events
  BY DEF TypeOK
<1>4. \A i \in 1 .. Len(main') : EventInv(main[i])'
  <2> TAKE i \in 1 .. Len(main')
  <2>1. PICK e \in Events : e = main[i] /\ EventInv(e)
    BY <1>3 DEF QueueInv
  <2>2. EventInv(e)'
    BY <2>1, EventStays
  <2> QED BY <2>1, <2>2 DEF EventInv
<1>5. (ctl.run + Cardinality(Waiting) <= events)'
  BY <1>1, <1>2 DEF QueueInv
<1> QED BY <1>4, <1>5 DEF QueueInv

LEMMA QueuePosted ==
  ASSUME TypeOK, TypeOK', SocketsGrow, QueueInv, NEW e \in Events, main' = Append(main, e),
         EventInv(e)', ctl'.run = ctl.run,
         events' = events + 1 \/ (events' = events /\ e.kind \notin Takes)
  PROVE  QueueInv'
<1>1. Cardinality(Waiting) \in Nat /\ ctl.run \in Nat /\ events \in Nat
  BY WaitingFinite DEF TypeOK, Controllers
<1>2. (ctl.run + Cardinality(Waiting) <= events)'
  BY <1>1, PostedCounts DEF QueueInv
<1>3. \A i \in 1 .. Len(main) : main[i] \in Events
  BY DEF TypeOK
<1>4. \A i \in 1 .. Len(main') : EventInv(main[i])'
  <2> TAKE i \in 1 .. Len(main')
  <2>1. CASE i = Len(main) + 1
    <3>1. main'[i] = e
      BY <2>1, PostedCounts
    <3> QED BY <3>1 DEF EventInv
  <2>2. CASE i \in 1 .. Len(main)
    <3>1. PICK f \in Events : f = main[i] /\ EventInv(f)
      BY <1>3, <2>2 DEF QueueInv
    <3>2. EventInv(f)' /\ main'[i] = f
      BY <3>1, <2>2, EventStays, PostedCounts
    <3> QED BY <3>2 DEF EventInv
  <2>3. Len(main) \in Nat /\ Len(main') = Len(main) + 1
    BY PostedCounts DEF TypeOK
  <2> QED BY <2>1, <2>2, <2>3
<1> QED BY <1>2, <1>4 DEF QueueInv

LEMMA QueueTaken ==
  ASSUME TypeOK, TypeOK', SocketsGrow, QueueInv, main # <<>>, main' = Tail(main),
         events' = events,
         ctl'.run = ctl.run \/ (Head(main).kind \in Takes /\ ctl'.run = ctl.run + 1)
  PROVE  QueueInv'
<1>1. Cardinality(Waiting) \in Nat /\ ctl.run \in Nat /\ events \in Nat
  BY WaitingFinite DEF TypeOK, Controllers
<1>2. (ctl.run + Cardinality(Waiting) <= events)'
  BY <1>1, TakenCounts DEF QueueInv
<1>3. \A i \in 1 .. Len(main) : main[i] \in Events
  BY DEF TypeOK
<1>4. \A i \in 1 .. Len(main') : EventInv(main[i])'
  <2> TAKE i \in 1 .. Len(main')
  <2>1. i + 1 \in 1 .. Len(main)
    BY TakenCounts
  <2>2. PICK f \in Events : f = main[i + 1] /\ EventInv(f)
    BY <1>3, <2>1 DEF QueueInv
  <2>3. EventInv(f)' /\ main'[i] = f
    BY <2>2, EventStays, TakenCounts
  <2> QED BY <2>3 DEF EventInv
<1> QED BY <1>2, <1>4 DEF QueueInv

\* A failure that waits stays in the queue until it is handled.
LEMMA FailureStays ==
  ASSUME TypeOK, FailureWaits, ctl'.run = ctl.run,
         \/ main' = main
         \/ \E e \in Events : main' = Append(main, e)
         \/ main # <<>> /\ main' = Tail(main) /\ Head(main) # [kind |-> "captureFailed", run |-> ctl.run]
  PROVE  FailureWaits'
<1> DEFINE e == [kind |-> "captureFailed", run |-> ctl.run]
<1>1. PICK i \in 1 .. Len(main) : main[i] = e
  BY DEF FailureWaits
<1>2. e' = e
  OBVIOUS
<1>3. Len(main) \in Nat
  BY DEF TypeOK
<1> HIDE DEF e
<1>4. CASE main' = main
  BY <1>1, <1>2, <1>4 DEF FailureWaits, e
<1>5. CASE \E f \in Events : main' = Append(main, f)
  <2>1. i \in 1 .. Len(main') /\ main'[i] = e
    BY <1>1, <1>3, <1>5, PostedCounts
  <2> QED BY <1>2, <2>1 DEF FailureWaits, e
<1>6. CASE main # <<>> /\ main' = Tail(main) /\ Head(main) # e
  <2>0. Len(main') = Len(main) - 1 /\ Head(main) = main[1]
    BY <1>6, TakenCounts
  <2>1. i # 1
    BY <1>1, <1>6, <2>0
  <2>2. i - 1 \in 1 .. Len(main') /\ (i - 1) + 1 = i
    BY <1>1, <1>3, <2>0, <2>1
  <2>3. main'[i - 1] = e
    BY <1>1, <1>6, <2>2, TakenCounts
  <2> QED BY <1>2, <2>2, <2>3 DEF FailureWaits, e
<1> QED BY <1>4, <1>5, <1>6 DEF e

-----------------------------------------------------------------------------
(* Losing the connection, and dialing again *)

LEMMA ControllerTypes ==
  ASSUME TypeOK
  PROVE  /\ ctl \in Controllers /\ ctl.run \in 0 .. MaxEvents /\ ctl.attempt \in 0 .. MaxSockets
         /\ ctl.run \in Nat /\ ctl.attempt \in Nat /\ ctl.confirmed \in Nat /\ used \in Nat
         /\ events \in Nat /\ ctl.phase \in Phases /\ ctl.alert \in Alerts /\ ctl.active \in BOOLEAN
         /\ MaxEvents \in Nat /\ MaxSockets \in Nat /\ MaxFrames \in Nat
         /\ ctl.confirmed \in 0 .. MaxFrames /\ ctl.ackSupported \in BOOLEAN
  BY CaptureAssumption DEF TypeOK, Controllers

LEMMA LostKeeps ==
  ASSUME CaptureInv, NEW s \in Sockets, ws = s, ctl.active, ctl.attempt >= 1,
         NEW rest \in SUBSET Timers, Lost(s, rest), UNCHANGED <<url, job, cap, used, events>>,
         main' = main \/ (main # <<>> /\ main' = Tail(main))
  PROVE  CaptureInv'
<1>1. TypeOK /\ ctl \in Controllers /\ PhaseInv /\ QueueInv
  BY ControllerTypes DEF CaptureInv
<1>2. url /\ ctl.run \in Runs
  BY <1>1 DEF PhaseInv, TypeOK, Controllers, Runs
<1>3. /\ ctl' \in Controllers /\ ctl'.run = ctl.run /\ ctl'.attempt = ctl.attempt
      /\ ctl'.active = ctl.active /\ ctl'.phase = "RECONNECTING" /\ ctl'.alert = "reconnecting"
      /\ shown' = "reconnecting" /\ ui' = "RECONNECTING" /\ ws' = None
  <2>1. ctl' = [ctl EXCEPT !.phase = "RECONNECTING", !.alert = "reconnecting"]
    BY DEF Lost
  <2>2. shown' = "reconnecting"
    BY <1>1 DEF Lost, PhaseInv
  <2> QED BY <1>1, <2>1, <2>2 DEF Lost, Controllers, Phases, Alerts
<1>4. sock' = Retired(s) /\ sock' \in [Sockets -> SocketStates]
  BY <1>1, RetiredSockets DEF Lost
<1>5. timers' = rest \cup {Reconnect(ctl.run)} /\ timers' \subseteq Timers
  BY <1>2 DEF Lost, Timers, Reconnect
<1>6. main' \in Seq(Events)
  <2>1. main \in Seq(Events)
    BY <1>1 DEF TypeOK
  <2>2. CASE main # <<>> /\ main' = Tail(main)
    BY <2>1, <2>2
  <2> QED BY <2>1, <2>2
<1>7. TypeOK'
  BY <1>1, <1>3, <1>4, <1>5, <1>6 DEF TypeOK, Alerts
<1>8. SocketsGrow
  BY <1>1, <1>4, RetiredGrows
<1>9. \A t \in Sockets : SockInv(t)'
  <2> TAKE t \in Sockets
  <2>1. SockInv(t) /\ used \in Nat /\ t \in Nat
    BY <1>1, SocketTypes DEF CaptureInv
  <2>2. t > used => sock'[t] = NoSocket
    BY <1>1, <1>4, <2>1, RetiredSockets DEF SockInv, NoSocket, Up
  <2>3. t <= used => sock'[t].run >= 1 /\ sock'[t].attempt >= 1 /\ sock'[t].net # "unused"
    BY <1>1, <1>4, <2>1, RetiredSockets DEF SockInv
  <2>4. sock'[t].received > 0 => sock'[t].hello
    BY <1>1, <1>4, <2>1, RetiredSockets DEF SockInv
  <2>5. sock'[t].net \notin Up
    BY <1>1, <1>4, <2>1, RetiredSockets DEF SockInv
  <2> QED BY <2>2, <2>3, <2>4, <2>5 DEF SockInv, NoSocket
<1>10. \A r \in Runs : CapInv(r)'
  BY <1>1, <1>3, <1>7, <1>8, CapsStay DEF CaptureInv
<1>11. QueueInv'
  <2>1. events' = events /\ events' >= events
    BY <1>1, ControllerTypes
  <2> QED BY <1>1, <1>3, <1>7, <1>8, <2>1, QueueStays, QueueTaken
<1>12. PhaseInv'
  BY <1>1, <1>3, NoneApart, ControllerTypes DEF PhaseInv, OpenPhases, Dialing
<1>13. MovesOn'
  BY <1>3, <1>5 DEF MovesOn, Reconnect
<1> QED BY <1>7, <1>9, <1>10, <1>11, <1>12, <1>13 DEF CaptureInv

\* A new socket in the place of the old one, for the run that is current.
Dials(r, rest) ==
  LET s == used + 1 IN
  /\ used < MaxSockets
  /\ used' = s
  /\ ctl' = [ctl EXCEPT !.attempt = @ + 1, !.phase = "CONNECTING"]
  /\ sock' = [Retired(ws) EXCEPT ![s].run = r, ![s].attempt = ctl.attempt + 1, ![s].net = "opening"]
  /\ ws' = s
  /\ timers' = rest \cup {[kind |-> "handshake", sock |-> s]}

LEMMA DialsKeeps ==
  ASSUME CaptureInv, NEW r \in Runs, NEW rest \in SUBSET Timers, Dials(r, rest),
         ctl.active, ctl.run = r, ctl.phase \in Dialing, UNCHANGED <<url, ui, shown, job, main, events>>,
         \/ cap[r].pc = "starting" /\ cap' = [cap EXCEPT ![r].pc = "reading"]
         \/ cap[r].pc # "starting" /\ cap' = cap
  PROVE  CaptureInv'
<1> DEFINE s == used + 1
           o == Retired(ws)[s]
           y == [o EXCEPT !.run = r, !.attempt = ctl.attempt + 1, !.net = "opening"]
<1>1. TypeOK /\ ctl \in Controllers /\ PhaseInv /\ QueueInv /\ CapInv(r)
  BY ControllerTypes DEF CaptureInv
<1>2. /\ s \in Sockets /\ s \in Nat /\ used \in Nat /\ ctl.attempt \in Nat /\ ctl.attempt <= used
      /\ ctl.attempt + 1 \in 0 .. MaxSockets /\ ctl.attempt + 1 >= 1 /\ r \in 0 .. MaxEvents /\ r >= 1
  <2>1. used \in Nat /\ used < MaxSockets /\ MaxSockets \in Nat /\ ctl.attempt \in Nat /\ MaxEvents \in Nat
    BY <1>1, ControllerTypes DEF Dials
  <2>2. ctl.attempt <= used
    BY <1>1 DEF PhaseInv
  <2>3. r \in 0 .. MaxEvents /\ r >= 1
    BY <2>1 DEF Runs
  <2> QED BY <2>1, <2>2, <2>3 DEF Sockets
<1>3. /\ ctl' \in Controllers /\ ctl'.run = r /\ ctl'.attempt = ctl.attempt + 1 /\ ctl'.active
      /\ ctl'.phase = "CONNECTING" /\ ctl'.alert = ctl.alert
  BY <1>1, <1>2 DEF Dials, Controllers, Phases
<1>4. ws \in Sockets \cup {None} /\ Retired(ws) \in [Sockets -> SocketStates] /\ o \in SocketStates
  BY <1>1, <1>2, RetiredSockets DEF TypeOK
<1>5. /\ y \in SocketStates /\ y.run = r /\ y.attempt = ctl.attempt + 1 /\ y.net = "opening"
      /\ y.hello = o.hello /\ y.received = o.received
  BY <1>2, <1>4 DEF SocketStates
<1>6. sock' = [Retired(ws) EXCEPT ![s] = y]
  BY <1>2, <1>4 DEF Dials
<1> HIDE DEF y
<1>7. /\ sock' \in [Sockets -> SocketStates] /\ sock'[s] = y
      /\ \A t \in Sockets : t # s => sock'[t] = Retired(ws)[t]
  BY <1>2, <1>4, <1>5, <1>6
<1>8. used' = s /\ ws' = s /\ timers' = rest \cup {Handshake(s)} /\ timers' \subseteq Timers
  BY <1>2 DEF Dials, Handshake, Timers
<1>9. cap' \in [Runs -> Captures]
  <2>1. [cap[r] EXCEPT !.pc = "reading"] \in Captures /\ cap \in [Runs -> Captures]
    BY <1>1 DEF TypeOK, Captures
  <2> QED BY <2>1
<1>10. TypeOK'
  BY <1>1, <1>2, <1>3, <1>7, <1>8, <1>9, ControllerTypes DEF TypeOK, Sockets
<1>11. SocketsGrow
  <2>0. \A t \in 1 .. used : t \in Sockets /\ t # s
    <3>1. used \in Nat /\ used < MaxSockets /\ MaxSockets \in Nat
      BY <1>1, ControllerTypes DEF Dials
    <3>2. \A t \in 1 .. used : t \in 1 .. MaxSockets /\ t # used + 1
      BY <3>1
    <3> QED BY <3>2 DEF Sockets
  <2>1. \A t \in 1 .. used : t \in Sockets /\ t # s /\ sock[t].received \in Nat
    BY <1>1, <2>0, SocketTypes
  <2>2. \A t \in 1 .. used : sock'[t] = Retired(ws)[t]
    BY <1>7, <2>1
  <2>3. used <= used'
    BY <1>2, <1>8
  <2> QED BY <1>1, <1>4, <2>1, <2>2, <2>3, RetiredSockets DEF SocketsGrow
<1>12. ws # None => ws # s
  <2>1. ws # None => ws <= used /\ ws \in Nat
    BY <1>1, <1>4 DEF PhaseInv, Sockets
  <2> QED BY <1>2, <2>1
<1>13. \A t \in Sockets : SockInv(t)'
  <2> TAKE t \in Sockets
  <2>1. SockInv(t) /\ used \in Nat /\ t \in Nat
    BY <1>1, SocketTypes DEF CaptureInv
  <2>2. CASE t = s
    <3>1. sock[t] = NoSocket /\ o = sock[t]
      BY <1>1, <1>2, <1>4, <2>1, <2>2, RetiredSockets DEF SockInv, NoSocket, Up
    <3>2. y.received = 0
      BY <1>5, <3>1, <2>2 DEF NoSocket
    <3> QED BY <1>2, <1>5, <1>7, <1>8, <2>1, <2>2, <3>2 DEF SockInv
  <2>3. CASE t # s
    <3>1. sock'[t] = Retired(ws)[t]
      BY <1>7, <2>3
    <3>2. t > used' => sock'[t] = NoSocket
      BY <1>1, <1>2, <1>4, <1>8, <2>1, <3>1, RetiredSockets DEF SockInv, NoSocket, Up
    <3>3. t <= used' => sock'[t].run >= 1 /\ sock'[t].attempt >= 1 /\ sock'[t].net # "unused"
      BY <1>1, <1>2, <1>4, <1>8, <2>1, <2>3, <3>1, RetiredSockets DEF SockInv
    <3>4. sock'[t].received > 0 => sock'[t].hello
      BY <1>1, <1>4, <2>1, <3>1, RetiredSockets DEF SockInv
    <3>5. sock'[t].net \notin Up
      BY <1>1, <1>4, <2>1, <3>1, RetiredSockets DEF SockInv
    <3> QED BY <3>2, <3>3, <3>4, <3>5 DEF SockInv, NoSocket
  <2> QED BY <2>2, <2>3
<1>14. \A q \in Runs : CapInv(q)'
  <2>1. CASE cap[r].pc = "starting" /\ cap' = [cap EXCEPT ![r].pc = "reading"]
    <3> DEFINE c == [cap[r] EXCEPT !.pc = "reading"]
    <3>1. cap[r] \in Captures /\ cap' = [cap EXCEPT ![r] = c] /\ cap'[r] = c
      BY <1>1, <2>1 DEF TypeOK
    <3>2. /\ c \in Captures /\ c.pc = "reading" /\ c.frame = cap[r].frame /\ c.cancelled = cap[r].cancelled
      BY <3>1 DEF Captures
    <3>3. FrameInv(c)
      BY <1>1, <3>2, CapParts DEF FrameInv
    <3>4. PICK k \in Captures : k = c /\ FrameInv(k)
      BY <3>2, <3>3
    <3>5. FrameInv(k)'
      BY <1>1, <1>10, <1>11, <3>4, FrameStays
    <3> HIDE DEF c
    <3>6. ActiveInv(r)'
      BY <1>1, <1>2, <1>3, <3>1, <3>2, CapParts DEF ActiveInv
    <3>7. r <= ctl.run /\ (ctl.run # r => ctl'.phase = ctl.phase /\ ctl'.attempt = ctl.attempt)
      BY <1>1, ControllerTypes
    <3>8. ctl'.active = ctl.active /\ ctl'.run = ctl.run
      BY <1>1, <1>3, ControllerTypes
    <3>9. cap' = [cap EXCEPT ![r] = k]
      BY <3>1, <3>4
    <3> QED BY <1>1, <1>10, <1>11, <3>5, <3>6, <3>7, <3>8, <3>9, OneCapMoves DEF CaptureInv
  <2>2. CASE cap[r].pc # "starting" /\ cap' = cap
    <3> SUFFICES ASSUME NEW q \in Runs PROVE CapInv(q)'
      OBVIOUS
    <3>1. CapInv(q) /\ cap[q] \in Captures
      BY <1>1, CaptureTypes DEF CaptureInv
    <3>2. FrameInv(cap[q])'
      BY <1>1, <1>10, <1>11, <2>2, <3>1, FrameStays, CapParts
    <3>3. ActiveInv(q)'
      BY <1>1, <1>2, <1>3, <2>2, <3>1, CapParts DEF ActiveInv
    <3>4. (q > ctl.run => cap[q] = NoCapture)'
      BY <1>3, <2>2, <3>1, CapParts DEF NoCapture
    <3> QED BY <3>2, <3>3, <3>4 DEF CapInv, FrameInv, ActiveInv
  <2> QED BY <2>1, <2>2
<1>15. QueueInv'
  BY <1>1, <1>3, <1>10, <1>11, QueueStays, ControllerTypes
<1>16. Current'
  BY <1>2, <1>3, <1>5, <1>7, <1>8, NoneApart DEF Current
<1>17. PhaseInv'
  <2>1. /\ shown' = ctl'.alert /\ ui' # "LIVE" /\ url' /\ job' = ctl'.run
    BY <1>1, <1>3 DEF PhaseInv, Dialing, OpenPhases
  <2> QED BY <1>2, <1>3, <1>8, <2>1 DEF PhaseInv, Dialing, OpenPhases
<1>18. MovesOn'
  BY <1>3, <1>8, <1>16 DEF MovesOn, Handshake
<1> QED BY <1>10, <1>13, <1>14, <1>15, <1>17, <1>18 DEF CaptureInv

-----------------------------------------------------------------------------
(* Steps that leave the controller alone *)

\* A socket stays the one its run's attempt opened.
SameEnds == \A s \in Sockets : sock'[s].run = sock[s].run /\ sock'[s].attempt = sock[s].attempt

\* The deadline the phase waits for is still set.
DeadlineStays ==
  ctl.active =>
    /\ ctl.phase = "RECONNECTING" /\ Reconnect(ctl.run) \in timers => Reconnect(ctl.run) \in timers'
    /\ ctl.phase = "CONNECTING" /\ Current /\ Handshake(ws) \in timers => Handshake(ws) \in timers'
    /\ ctl.phase \in OpenPhases /\ Receipt(ws) \in timers => Receipt(ws) \in timers'

QueueMoves ==
  \/ main' = main
  \/ \E e \in Events : main' = Append(main, e)
  \/ main # <<>> /\ main' = Tail(main) /\ Head(main) # [kind |-> "captureFailed", run |-> ctl.run]

LEMMA PhaseStays ==
  ASSUME TypeOK, TypeOK', PhaseInv, SocketsGrow, SameEnds, UNCHANGED <<ctl, ws, url, ui, shown, job, used>>
  PROVE  PhaseInv'
<1>1. ws \in Sockets \cup {None} /\ used \in Nat
  BY DEF TypeOK
<1>2. Current => Current'
  BY <1>1 DEF Current, SameEnds
<1>3. ASSUME ctl.phase \in OpenPhases
      PROVE  sock'[ws].hello /\ ctl.confirmed <= sock'[ws].received
  <2>1. ws \in Sockets /\ ws \in 1 .. used /\ sock[ws].hello /\ ctl.confirmed <= sock[ws].received
    BY <1>1, <1>3, CaptureAssumption DEF PhaseInv, Current, Sockets
  <2>2. sock[ws].received \in Nat /\ sock'[ws].received \in Nat /\ ctl.confirmed \in Nat
    BY SMTT(30), <2>1, ControllerTypes, CaptureAssumption DEF TypeOK, SocketStates
  <2> QED BY <2>1, <2>2 DEF SocketsGrow
<1> QED BY <1>2, <1>3 DEF PhaseInv

LEMMA MovesStays ==
  ASSUME TypeOK, MovesOn, SameEnds, UNCHANGED <<ctl, ws>>, DeadlineStays, QueueMoves,
         ctl.active /\ cap[ctl.run].pc = "starting" => cap'[ctl.run].pc = "starting" \/ FailureWaits'
  PROVE  MovesOn'
<1> SUFFICES ASSUME ctl.active PROVE MovesOn'
  BY DEF MovesOn
<1>1. Current => Current'
  BY DEF Current, SameEnds, TypeOK
<1>2. FailureWaits => FailureWaits'
  BY FailureStays DEF QueueMoves
<1> QED BY <1>1, <1>2 DEF MovesOn, DeadlineStays, Handshake, Receipt, Reconnect

LEMMA SocketsStay ==
  ASSUME \A s \in Sockets : SockInv(s), UNCHANGED <<sock, used, ws>>
  PROVE  \A s \in Sockets : SockInv(s)'
  BY DEF SockInv, NoSocket

\* Nothing changes but the queue, and deadlines that are over.
LEMMA IdleKeeps ==
  ASSUME CaptureInv, UNCHANGED <<ctl, ws, ui, shown, service, sock, used, events>>,
         DeadlineStays, timers' \subseteq Timers,
         \/ main' = main
         \/ main # <<>> /\ main' = Tail(main) /\ Head(main) # [kind |-> "captureFailed", run |-> ctl.run]
  PROVE  CaptureInv'
<1>1. TypeOK /\ QueueInv /\ PhaseInv /\ MovesOn
  BY DEF CaptureInv
<1>2. main' \in Seq(Events)
  <2>1. main \in Seq(Events)
    BY <1>1 DEF TypeOK
  <2>2. CASE main # <<>> /\ main' = Tail(main)
    BY <2>1, <2>2
  <2> QED BY <2>1, <2>2
<1>3. TypeOK'
  BY <1>1, <1>2 DEF TypeOK, service
<1>4. SocketsGrow /\ SameEnds /\ QueueMoves
  BY <1>1, SameSocketsGrow DEF SameEnds, QueueMoves
<1>5. \A r \in Runs : CapInv(r)'
  BY <1>1, <1>3, <1>4, CapsStay DEF CaptureInv, service
<1>6. events' >= events /\ ctl'.run = ctl.run
  BY <1>1, ControllerTypes
<1>7. QueueInv'
  BY <1>1, <1>3, <1>4, <1>6, QueueStays, QueueTaken
<1>8. PhaseInv' /\ MovesOn'
  BY <1>1, <1>3, <1>4, PhaseStays, MovesStays DEF service
<1> QED BY <1>3, <1>5, <1>7, <1>8, SocketsStay DEF CaptureInv

LEMMA ClickKeeps ==
  ASSUME CaptureInv, NEW k \in {"start", "stop"}, Click(k)
  PROVE  CaptureInv'
<1>1. TypeOK /\ QueueInv /\ PhaseInv /\ MovesOn
  BY DEF CaptureInv
<1>2. PICK e \in Events : e = [kind |-> k] /\ e.kind \in Takes
  <2> DEFINE e == [kind |-> k]
  <2>1. e \in [kind : {"start", "stop", "limit"}] /\ e.kind = k
    OBVIOUS
  <2>2. e \in Events
    BY <2>1 DEF Events
  <2> QED BY <2>1, <2>2 DEF Takes
<1>3. main' = Append(main, e) /\ events' = events + 1 /\ events < MaxEvents
  BY <1>2 DEF Click, Post
<1>4. events' \in 0 .. MaxEvents
  BY <1>1, <1>3, ControllerTypes
<1>5. main' \in Seq(Events)
  BY <1>1, <1>3 DEF TypeOK
<1>6. TypeOK'
  BY <1>1, <1>4, <1>5 DEF TypeOK, Click, service
<1>7. SocketsGrow /\ SameEnds /\ QueueMoves /\ DeadlineStays
  BY <1>1, <1>3, SameSocketsGrow DEF SameEnds, QueueMoves, DeadlineStays, Click
<1>8. EventInv(e)'
  BY <1>2 DEF EventInv, Takes
<1>9. QueueInv'
  BY <1>1, <1>3, <1>6, <1>7, <1>8, QueuePosted DEF Click
<1>10. \A r \in Runs : CapInv(r)'
  BY <1>1, <1>6, <1>7, CapsStay DEF CaptureInv, Click, service
<1>11. PhaseInv' /\ MovesOn'
  BY <1>1, <1>6, <1>7, PhaseStays, MovesStays DEF Click, service
<1> QED BY <1>6, <1>9, <1>10, <1>11, SocketsStay DEF CaptureInv, Click

-----------------------------------------------------------------------------
(* The capture coroutines *)

LEMMA CaptureMoves ==
  ASSUME CaptureInv, TypeOK', NEW q \in Runs, NEW c \in Captures, cap' = [cap EXCEPT ![q] = c],
         UNCHANGED <<ctl, ws, url, ui, shown, job, timers, used>>, cap[q].pc # "none",
         FrameInv(c)', c.pc # "starting",
         ctl.active /\ ctl.run = q =>
           /\ c.cancelled = cap[q].cancelled
           /\ c.pc # "ended" => cap[q].pc \in {"reading", "taken", "allowed", "refused"}
           /\ cap[q].pc = "starting" => FailureWaits',
         \A s \in Sockets : SockInv(s)', SocketsGrow, SameEnds,
         \/ UNCHANGED <<main, events>>
         \/ \E e \in Events : /\ main' = Append(main, e) /\ EventInv(e)'
                              /\ events' = events + 1 \/ (events' = events /\ e.kind \notin Takes)
  PROVE  CaptureInv'
<1>1. TypeOK /\ QueueInv /\ PhaseInv /\ MovesOn /\ CapInv(q) /\ cap[q] \in Captures
  BY DEF CaptureInv, TypeOK
<1>2. q <= ctl.run
  BY <1>1, ControllerTypes DEF CapInv, NoCapture, Runs
<1>3. cap'[q] = c
  BY <1>1 DEF TypeOK
<1>4. c.pc \in {"none", "reading", "taken", "allowed", "refused", "ended"}
  BY DEF Captures
<1>5. ActiveInv(q)'
  <2>1. SUFFICES ASSUME ctl.active, ctl.run = q
                 PROVE  /\ ~c.cancelled
                        /\ c.pc \in {"reading", "taken", "allowed", "refused"} => ctl.attempt >= 1
    BY <1>3 DEF ActiveInv
  <2>2. ActiveInv(q)
    BY <1>1, CapParts
  <2> QED BY <2>1, <2>2 DEF ActiveInv
<1>6. \A r \in Runs : CapInv(r)'
  BY <1>1, <1>2, <1>5, OneCapMoves DEF CaptureInv
<1>7. QueueMoves /\ DeadlineStays
  BY DEF QueueMoves, DeadlineStays
<1>8. QueueInv'
  <2>1. CASE UNCHANGED <<main, events>>
    <3>1. events' >= events /\ ctl'.run = ctl.run
      BY <1>1, <2>1, ControllerTypes
    <3> QED BY <1>1, <2>1, <3>1, QueueStays
  <2>2. CASE ~UNCHANGED <<main, events>>
    BY <1>1, <2>2, QueuePosted
  <2> QED BY <2>1, <2>2
<1>9. PhaseInv'
  BY <1>1, PhaseStays
<1>10. ctl.active /\ cap[ctl.run].pc = "starting" => cap'[ctl.run].pc = "starting" \/ FailureWaits'
  <2>1. CASE ctl.run = q
    BY <2>1
  <2>2. CASE ctl.run # q
    <3>1. cap'[ctl.run] = cap[ctl.run]
      BY <1>1, <2>2 DEF TypeOK
    <3> QED BY <3>1
  <2> QED BY <2>1, <2>2
<1>11. MovesOn'
  BY <1>1, <1>7, <1>10, MovesStays
<1> QED BY <1>6, <1>8, <1>9, <1>11 DEF CaptureInv

LEMMA EndCaptureKeeps ==
  ASSUME CaptureInv, NEW r \in Runs, EndCapture(r)
  PROVE  CaptureInv'
<1>1. TypeOK /\ CapInv(r) /\ cap[r] \in Captures
  BY DEF CaptureInv, TypeOK
<1>2. PICK c \in Captures : c = [cap[r] EXCEPT !.pc = "ended"]
  BY <1>1 DEF Captures
<1>3. c.pc = "ended" /\ c.frame = cap[r].frame /\ c.cancelled = cap[r].cancelled
  BY <1>1, <1>2 DEF Captures
<1>4. cap' = [cap EXCEPT ![r] = c]
  BY <1>1, <1>2 DEF EndCapture, TypeOK
<1>5. TypeOK'
  BY <1>1, <1>4 DEF TypeOK, EndCapture
<1>6. SocketsGrow /\ SameEnds /\ \A s \in Sockets : SockInv(s)'
  BY <1>1, SameSocketsGrow, SocketsStay DEF SameEnds, EndCapture, CaptureInv
<1>7. FrameInv(c)'
  BY <1>1, <1>3, CapParts DEF FrameInv, EndCapture
<1>8. ~(ctl.active /\ ctl.run = r)
  BY <1>1 DEF CapInv, EndCapture
<1> QED BY <1>3, <1>4, <1>5, <1>6, <1>7, <1>8, CaptureMoves DEF EndCapture

LEMMA MicFailsKeeps ==
  ASSUME CaptureInv, NEW r \in Runs, MicFails(r)
  PROVE  CaptureInv'
<1>1. TypeOK /\ CapInv(r) /\ cap[r] \in Captures
  BY DEF CaptureInv, TypeOK
<1>2. PICK c \in Captures : c = [cap[r] EXCEPT !.pc = "ended"]
  BY <1>1 DEF Captures
<1>3. c.pc = "ended" /\ c.frame = cap[r].frame /\ c.cancelled = cap[r].cancelled
  BY <1>1, <1>2 DEF Captures
<1>4. cap' = [cap EXCEPT ![r] = c]
  BY <1>1, <1>2 DEF MicFails, TypeOK
<1>5. PICK e \in Events : e = [kind |-> "captureFailed", run |-> r]
  BY DEF Events
<1>6. main' = Append(main, e) /\ events' = events + 1 /\ events < MaxEvents
  BY <1>5 DEF MicFails, Post
<1>7. events' \in 0 .. MaxEvents /\ main' \in Seq(Events)
  <2>1. main \in Seq(Events)
    BY <1>1 DEF TypeOK
  <2>2. main' \in Seq(Events)
    BY <1>6, <2>1
  <2>3. events' \in 0 .. MaxEvents
    BY <1>1, <1>6, ControllerTypes
  <2> QED BY <2>2, <2>3
<1>8. TypeOK'
  BY <1>1, <1>4, <1>7 DEF TypeOK, MicFails
<1>9. SocketsGrow /\ SameEnds /\ \A s \in Sockets : SockInv(s)'
  BY <1>1, SameSocketsGrow, SocketsStay DEF SameEnds, MicFails, CaptureInv
<1>10. FrameInv(c)'
  BY <1>1, <1>3, CapParts DEF FrameInv, MicFails
<1>11. EventInv(e)'
  BY <1>5 DEF EventInv
<1>12. ctl.run = r => FailureWaits'
  <2>1. Len(main) \in Nat /\ main'[Len(main) + 1] = e /\ Len(main') = Len(main) + 1
    BY <1>1, <1>6, PostedCounts DEF TypeOK
  <2>2. Len(main) + 1 \in 1 .. Len(main')
    BY <2>1
  <2>3. ctl' = ctl
    BY DEF MicFails
  <2> QED BY <1>5, <2>1, <2>2, <2>3 DEF FailureWaits
<1> QED BY <1>3, <1>4, <1>6, <1>8, <1>9, <1>10, <1>11, <1>12, CaptureMoves DEF MicFails

LEMMA LimitReachedKeeps ==
  ASSUME CaptureInv, NEW r \in Runs, LimitReached(r)
  PROVE  CaptureInv'
<1>1. TypeOK /\ CapInv(r) /\ cap[r] \in Captures
  BY DEF CaptureInv, TypeOK
<1>2. PICK c \in Captures : c = [cap[r] EXCEPT !.pc = "ended"]
  BY <1>1 DEF Captures
<1>3. c.pc = "ended" /\ c.frame = cap[r].frame /\ c.cancelled = cap[r].cancelled
  BY <1>1, <1>2 DEF Captures
<1>4. cap' = [cap EXCEPT ![r] = c]
  BY <1>1, <1>2 DEF LimitReached, TypeOK
<1>5. PICK e \in Events : e = [kind |-> "limit"]
  BY DEF Events
<1>6. main' = Append(main, e) /\ events' = events + 1 /\ events < MaxEvents
  BY <1>5 DEF LimitReached, Post
<1>7. events' \in 0 .. MaxEvents /\ main' \in Seq(Events)
  <2>1. main \in Seq(Events)
    BY <1>1 DEF TypeOK
  <2>2. main' \in Seq(Events)
    BY <1>6, <2>1
  <2>3. events' \in 0 .. MaxEvents
    BY <1>1, <1>6, ControllerTypes
  <2> QED BY <2>2, <2>3
<1>8. TypeOK'
  BY <1>1, <1>4, <1>7 DEF TypeOK, LimitReached
<1>9. SocketsGrow /\ SameEnds /\ \A s \in Sockets : SockInv(s)'
  BY <1>1, SameSocketsGrow, SocketsStay DEF SameEnds, LimitReached, CaptureInv
<1>10. FrameInv(c)'
  BY <1>1, <1>3, CapParts DEF FrameInv, LimitReached
<1>11. EventInv(e)'
  BY <1>5 DEF EventInv
<1> QED BY <1>3, <1>4, <1>6, <1>8, <1>9, <1>10, <1>11, CaptureMoves DEF LimitReached

LEMMA TakeFrameKeeps ==
  ASSUME CaptureInv, NEW r \in Runs, TakeFrame(r)
  PROVE  CaptureInv'
<1>1. TypeOK /\ CapInv(r) /\ cap[r] \in Captures /\ PhaseInv /\ ws \in Sockets \cup {None}
  BY DEF CaptureInv, TypeOK
<1>2. PICK c \in Captures : c = [cap[r] EXCEPT !.pc = "taken", !.frame = ws]
  BY <1>1 DEF Captures
<1>3. c.pc = "taken" /\ c.frame = ws /\ c.cancelled = cap[r].cancelled
  BY <1>1, <1>2 DEF Captures
<1>4. cap' = [cap EXCEPT ![r] = c]
  BY <1>1, <1>2 DEF TakeFrame, TypeOK
<1>5. TypeOK'
  BY <1>1, <1>4 DEF TypeOK, TakeFrame
<1>6. SocketsGrow /\ SameEnds /\ \A s \in Sockets : SockInv(s)'
  BY <1>1, SameSocketsGrow, SocketsStay DEF SameEnds, TakeFrame, CaptureInv
<1>7. FrameInv(c)'
  BY <1>1, <1>3 DEF FrameInv, TakeFrame, PhaseInv
<1> QED BY <1>3, <1>4, <1>5, <1>6, <1>7, CaptureMoves DEF TakeFrame

\* What may be sent is a frame for the current socket, which was asked, or for an older one,
\* which is down.
LEMMA AskCanSendKeeps ==
  ASSUME CaptureInv, NEW r \in Runs, AskCanSend(r)
  PROVE  CaptureInv'
<1>1. TypeOK /\ CapInv(r) /\ cap[r] \in Captures /\ PhaseInv /\ \A s \in Sockets : SockInv(s)
  BY DEF CaptureInv, TypeOK
<1> DEFINE may == CanSend(r) /\ cap[r].frame # None
<1>2. PICK c \in Captures :
        c = IF may THEN [cap[r] EXCEPT !.pc = "allowed"] ELSE [cap[r] EXCEPT !.pc = "reading", !.frame = None]
  <2>1. [cap[r] EXCEPT !.pc = "allowed"] \in Captures
    BY <1>1 DEF Captures
  <2>2. [cap[r] EXCEPT !.pc = "reading", !.frame = None] \in Captures
    BY <1>1 DEF Captures
  <2> QED BY <2>1, <2>2
<1>3. /\ may => c.pc = "allowed" /\ c.frame = cap[r].frame
      /\ ~may => c.pc = "reading" /\ c.frame = None
      /\ c.cancelled = cap[r].cancelled
  BY <1>1, <1>2 DEF Captures
<1>4. cap' = [cap EXCEPT ![r] = c]
  BY <1>1, <1>2 DEF AskCanSend, TypeOK
<1>5. TypeOK'
  BY <1>1, <1>4 DEF TypeOK, AskCanSend
<1>6. SocketsGrow /\ SameEnds /\ \A s \in Sockets : SockInv(s)'
  BY <1>1, SameSocketsGrow, SocketsStay DEF SameEnds, AskCanSend, CaptureInv
<1>7. ASSUME may PROVE sock[cap[r].frame].hello \/ sock[cap[r].frame].net \notin Up
  <2>1. cap[r].frame \in Sockets
    BY <1>1, <1>7, CaptureTypes
  <2>2. ws # None /\ sock[ws].hello
    BY <1>1, <1>7 DEF CanSend, PhaseInv, Current
  <2>3. SockInv(cap[r].frame)
    BY <1>1, <2>1
  <2> QED BY <2>2, <2>3 DEF SockInv
<1>8. may => cap[r].frame <= used
  BY <1>1 DEF CapInv
<1>9. FrameInv(c)'
  <2>1. UNCHANGED <<sock, used>>
    BY DEF AskCanSend
  <2> HIDE DEF may
  <2> QED BY <1>3, <1>7, <1>8, <2>1 DEF FrameInv, may
<1>10. c.pc \in {"allowed", "reading"}
  BY <1>3
<1> HIDE DEF may
<1> QED BY <1>3, <1>4, <1>5, <1>6, <1>9, <1>10, CaptureMoves DEF AskCanSend

\* One field of one socket changes, and it only learns more.
LEMMA SocketLearns ==
  ASSUME TypeOK, \A s \in Sockets : SockInv(s), UNCHANGED <<ws, used>>,
         NEW q \in Sockets, NEW o \in SocketStates, sock' = [sock EXCEPT ![q] = o],
         o.run = sock[q].run, o.attempt = sock[q].attempt, sock[q].hello => o.hello,
         sock[q].received <= o.received, o.received > 0 => o.hello,
         o.net \in Up => sock[q].net \in Up, o.net # "unused", q <= used
  PROVE  /\ sock' \in [Sockets -> SocketStates] /\ sock'[q] = o
         /\ SocketsGrow /\ SameEnds /\ \A s \in Sockets : SockInv(s)'
<1>1. sock \in [Sockets -> SocketStates] /\ used \in Nat /\ ws \in Sockets \cup {None}
  BY DEF TypeOK
<1>2. /\ sock' \in [Sockets -> SocketStates] /\ sock'[q] = o
      /\ \A s \in Sockets : s # q => sock'[s] = sock[s]
  BY <1>1
<1>3. SameEnds
  BY <1>2 DEF SameEnds
<1>4. \A s \in 1 .. used : s \in Sockets
  BY CaptureAssumption DEF TypeOK, Sockets
<1>5. SocketsGrow
  <2>1. \A s \in 1 .. used : sock[s].received \in Nat
    BY <1>4, SocketTypes
  <2>2. used <= used'
    BY <1>1
  <2> QED BY <1>2, <1>4, <2>1, <2>2 DEF SocketsGrow
<1>6. \A s \in Sockets : SockInv(s)'
  <2> TAKE s \in Sockets
  <2>1. SockInv(s) /\ s \in Nat /\ q \in Nat
    BY SocketTypes
  <2>2. CASE s = q
    BY <1>1, <1>2, <2>1, <2>2 DEF SockInv
  <2>3. CASE s # q
    BY <1>2, <2>1, <2>3 DEF SockInv, NoSocket
  <2> QED BY <2>2, <2>3
<1> QED BY <1>2, <1>3, <1>5, <1>6

LEMMA SendFrameKeeps ==
  ASSUME CaptureInv, NEW r \in Runs, SendFrame(r)
  PROVE  CaptureInv'
<1> DEFINE s == cap[r].frame
<1>1. TypeOK /\ CapInv(r) /\ cap[r] \in Captures /\ PhaseInv /\ \A t \in Sockets : SockInv(t)
  BY DEF CaptureInv, TypeOK
<1>2. s \in Sockets /\ s <= used /\ SockInv(s)
  BY <1>1, CaptureTypes DEF CapInv, SendFrame
<1>3. sock[s] \in SocketStates
  BY <1>1, <1>2 DEF TypeOK
<1>4. CASE sock[s].net \in Up
  <2>1. sock[s].hello
    BY <1>1, <1>4 DEF CapInv, SendFrame
  <2>2. /\ sock[s].received < MaxFrames /\ sock' = [sock EXCEPT ![s].received = @ + 1]
        /\ cap' = [cap EXCEPT ![r].pc = "reading", ![r].frame = None]
    BY <1>4 DEF SendFrame, SendsOn, Up
  <2>3. sock[s].received + 1 \in 0 .. MaxFrames /\ sock[s].received <= sock[s].received + 1
    BY <1>1, <1>3, <2>2, ControllerTypes DEF SocketStates
  <2>4. PICK o \in SocketStates : o = [sock[s] EXCEPT !.received = @ + 1]
    BY <1>3, <2>3 DEF SocketStates
  <2>5. /\ o.run = sock[s].run /\ o.attempt = sock[s].attempt /\ o.hello = sock[s].hello
        /\ o.received = sock[s].received + 1 /\ o.net = sock[s].net
    BY <1>3, <2>4 DEF SocketStates
  <2>6. sock' = [sock EXCEPT ![s] = o]
    BY <1>1, <1>2, <2>2, <2>4 DEF TypeOK
  <2>7. o.net # "unused"
    BY <1>4, <2>5 DEF Up
  <2>8. PICK q \in Sockets : q = s
    BY <1>2
  <2>9. UNCHANGED <<ws, used>>
    BY DEF SendFrame
  <2>10. /\ sock' \in [Sockets -> SocketStates] /\ SocketsGrow /\ SameEnds
         /\ \A t \in Sockets : SockInv(t)'
    <3> HIDE DEF s
    <3> QED BY <1>1, <1>2, <2>1, <2>3, <2>5, <2>6, <2>7, <2>8, <2>9, SocketLearns
  <2>11. PICK c \in Captures : c = [cap[r] EXCEPT !.pc = "reading", !.frame = None]
    BY <1>1 DEF Captures
  <2>12. c.pc = "reading" /\ c.frame = None /\ c.cancelled = cap[r].cancelled
    BY <1>1, <2>11 DEF Captures
  <2>13. cap' = [cap EXCEPT ![r] = c]
    BY <1>1, <2>2, <2>11 DEF TypeOK
  <2>14. TypeOK'
    BY <1>1, <2>10, <2>13 DEF TypeOK, SendFrame
  <2>15. FrameInv(c)'
    BY <2>12 DEF FrameInv
  <2> QED BY <2>10, <2>12, <2>13, <2>14, <2>15, CaptureMoves DEF SendFrame
<1>5. CASE sock[s].net \notin Up
  <2>1. cap' = [cap EXCEPT ![r].pc = "refused"] /\ sock' = sock
    BY <1>5 DEF SendFrame, SendsOn, Up
  <2>2. PICK c \in Captures : c = [cap[r] EXCEPT !.pc = "refused"]
    BY <1>1 DEF Captures
  <2>3. c.pc = "refused" /\ c.frame = cap[r].frame /\ c.cancelled = cap[r].cancelled
    BY <1>1, <2>2 DEF Captures
  <2>4. cap' = [cap EXCEPT ![r] = c]
    BY <1>1, <2>1, <2>2 DEF TypeOK
  <2>5. TypeOK'
    BY <1>1, <2>1, <2>4 DEF TypeOK, SendFrame
  <2>6. SocketsGrow /\ SameEnds /\ \A t \in Sockets : SockInv(t)'
    BY <1>1, <2>1, SameSocketsGrow, SocketsStay DEF SameEnds, SendFrame
  <2>7. FrameInv(c)'
    BY <1>1, <2>1, <2>3 DEF FrameInv, SendFrame, CapInv
  <2> QED BY <2>3, <2>4, <2>5, <2>6, <2>7, CaptureMoves DEF SendFrame
<1> QED BY <1>4, <1>5

LEMMA ReportRefusedKeeps ==
  ASSUME CaptureInv, NEW r \in Runs, ReportRefused(r)
  PROVE  CaptureInv'
<1>1. TypeOK /\ CapInv(r) /\ cap[r] \in Captures /\ PhaseInv
  BY DEF CaptureInv, TypeOK
<1>2. PICK c \in Captures : c = [cap[r] EXCEPT !.pc = "reading", !.frame = None]
  BY <1>1 DEF Captures
<1>3. c.pc = "reading" /\ c.frame = None /\ c.cancelled = cap[r].cancelled
  BY <1>1, <1>2 DEF Captures
<1>4. cap' = [cap EXCEPT ![r] = c]
  BY <1>1, <1>2 DEF ReportRefused, TypeOK
<1>5. cap[r].frame \in Sockets /\ cap[r].frame <= used
  BY <1>1, CaptureTypes DEF CapInv, ReportRefused
<1>6. \/ main' = main
      \/ \E e \in Events : main' = Append(main, e) /\ EventInv(e)' /\ e.kind \notin Takes
  <2>1. CASE CurrentAttempt(r) = None
    BY <2>1 DEF ReportRefused
  <2>2. CASE CurrentAttempt(r) # None
    <3>1. IsCurrentRun(r) /\ CurrentAttempt(r) = ctl.attempt
      BY <2>2 DEF CurrentAttempt
    <3>2. ctl.attempt \in 1 .. MaxSockets
      BY <1>1, <3>1, ControllerTypes DEF CapInv, IsCurrentRun, ReportRefused
    <3> DEFINE e == [kind |-> "down", sock |-> cap[r].frame, run |-> r, attempt |-> ctl.attempt]
    <3>3. e \in Events /\ e.kind = "down" /\ e.sock = cap[r].frame
      BY <1>5, <3>2 DEF Events
    <3>4. main' = Append(main, e)
      BY <2>2, <3>1 DEF ReportRefused, Post
    <3> HIDE DEF e
    <3>5. PICK f \in Events : f = e
      BY <3>3
    <3>6. used' = used
      BY DEF ReportRefused
    <3>7. EventInv(f)'
      BY <1>5, <3>3, <3>5, <3>6 DEF EventInv
    <3> QED BY <3>3, <3>4, <3>5, <3>7 DEF Takes
  <2> QED BY <2>1, <2>2
<1>7. TypeOK'
  <2>1. main \in Seq(Events)
    BY <1>1 DEF TypeOK
  <2>2. main' \in Seq(Events)
    BY <1>6, <2>1
  <2> QED BY <1>1, <1>4, <2>2 DEF TypeOK, ReportRefused
<1>8. SocketsGrow /\ SameEnds /\ \A s \in Sockets : SockInv(s)'
  BY <1>1, SameSocketsGrow, SocketsStay DEF SameEnds, ReportRefused, CaptureInv
<1>9. FrameInv(c)'
  BY <1>3 DEF FrameInv
<1> QED BY <1>3, <1>4, <1>6, <1>7, <1>8, <1>9, CaptureMoves DEF ReportRefused

-----------------------------------------------------------------------------
(* OkHttp and the bridge *)

\* A socket learns something, and its callback is posted.
LEMMA BridgeMoves ==
  ASSUME CaptureInv, UNCHANGED <<ctl, ws, ui, shown, service, timers, used, events>>,
         NEW q \in Sockets, NEW o \in SocketStates, sock' = [sock EXCEPT ![q] = o],
         o.run = sock[q].run, o.attempt = sock[q].attempt, sock[q].hello = o.hello,
         sock[q].received = o.received, o.net \in Up => sock[q].net \in Up, o.net # "unused", q <= used,
         NEW e \in Events, main' = Append(main, e), e.kind \notin Takes,
         e.kind \in {"opened", "hello", "ack", "down"} => e.sock = q,
         e.kind = "ack" => e.bytes <= o.received
  PROVE  CaptureInv'
<1>1. TypeOK /\ QueueInv /\ PhaseInv /\ MovesOn /\ SockInv(q) /\ sock[q] \in SocketStates
  BY DEF CaptureInv, TypeOK
<1>2. sock[q].received \in Nat /\ sock[q].received <= o.received /\ (o.received > 0 => o.hello)
  BY <1>1, SocketTypes DEF SockInv
<1>3. /\ sock' \in [Sockets -> SocketStates] /\ sock'[q] = o
      /\ SocketsGrow /\ SameEnds /\ \A s \in Sockets : SockInv(s)'
  BY <1>1, <1>2, SocketLearns DEF CaptureInv
<1>4. main' \in Seq(Events)
  BY <1>1 DEF TypeOK
<1>5. TypeOK'
  BY <1>1, <1>3, <1>4 DEF TypeOK, service
<1>6. EventInv(e)'
  BY <1>3 DEF EventInv
<1>7. QueueInv'
  BY <1>1, <1>3, <1>5, <1>6, QueuePosted
<1>8. QueueMoves /\ DeadlineStays
  BY DEF QueueMoves, DeadlineStays
<1>9. \A r \in Runs : CapInv(r)'
  BY <1>1, <1>3, <1>5, CapsStay DEF CaptureInv, service
<1>10. PhaseInv' /\ MovesOn'
  BY <1>1, <1>3, <1>5, <1>8, PhaseStays, MovesStays DEF service
<1> QED BY <1>3, <1>5, <1>7, <1>9, <1>10 DEF CaptureInv

LEMMA SocketOpenedBefore ==
  ASSUME CaptureInv, NEW s \in Sockets, sock[s].net # "unused"
  PROVE  /\ s <= used /\ sock[s] \in SocketStates
         /\ sock[s].run \in Runs /\ sock[s].attempt \in 1 .. MaxSockets
<1>1. SockInv(s) /\ TypeOK
  BY DEF CaptureInv
<1>2. s <= used
  BY <1>1, SocketTypes DEF SockInv, NoSocket
<1>3. sock[s] \in SocketStates /\ sock[s].run \in 0 .. MaxEvents /\ sock[s].attempt \in 0 .. MaxSockets
  BY <1>1 DEF TypeOK, SocketStates
<1>4. sock[s].run \in Runs /\ sock[s].attempt \in 1 .. MaxSockets
  BY <1>1, <1>2, <1>3, CaptureAssumption DEF SockInv, Runs
<1> QED BY <1>2, <1>3, <1>4

LEMMA NetOpensKeeps ==
  ASSUME CaptureInv, NEW s \in Sockets, NetOpens(s)
  PROVE  CaptureInv'
<1>1. s <= used /\ sock[s] \in SocketStates /\ sock[s].net = "opening"
  BY SocketOpenedBefore DEF NetOpens
<1>2. PICK o \in SocketStates : o = [sock[s] EXCEPT !.net = "open"]
  BY <1>1 DEF SocketStates
<1>3. /\ o.run = sock[s].run /\ o.attempt = sock[s].attempt /\ o.hello = sock[s].hello
      /\ o.received = sock[s].received /\ o.net = "open"
  BY <1>1, <1>2 DEF SocketStates
<1>4. PICK e \in Events : e = [kind |-> "opened", sock |-> s]
  BY DEF Events
<1>5. sock' = [sock EXCEPT ![s] = o] /\ main' = Append(main, e)
  BY <1>1, <1>2, <1>4 DEF NetOpens, Callback, Post, CaptureInv, TypeOK
<1>6. UNCHANGED <<ctl, ws, ui, shown, service, timers, used, events>>
  BY DEF NetOpens, Callback
<1>7. e.kind = "opened" /\ e.sock = s
  BY <1>4
<1> QED BY <1>1, <1>3, <1>5, <1>6, <1>7, BridgeMoves DEF Up, Takes

LEMMA NetEndsKeeps ==
  ASSUME CaptureInv, NEW s \in Sockets, NetEnds(s)
  PROVE  CaptureInv'
<1>1. s <= used /\ sock[s] \in SocketStates /\ sock[s].run \in Runs /\ sock[s].attempt \in 1 .. MaxSockets
  BY SocketOpenedBefore DEF NetEnds
<1>2. PICK o \in SocketStates : o = [sock[s] EXCEPT !.net = "failed"]
  BY <1>1 DEF SocketStates
<1>3. /\ o.run = sock[s].run /\ o.attempt = sock[s].attempt /\ o.hello = sock[s].hello
      /\ o.received = sock[s].received /\ o.net = "failed"
  BY <1>1, <1>2 DEF SocketStates
<1>4. PICK e \in Events : e = Down(s)
  BY <1>1 DEF Events, Down
<1>5. sock' = [sock EXCEPT ![s] = o] /\ main' = Append(main, e)
  BY <1>1, <1>2, <1>4 DEF NetEnds, Callback, Post, CaptureInv, TypeOK
<1>6. UNCHANGED <<ctl, ws, ui, shown, service, timers, used, events>>
  BY DEF NetEnds, Callback
<1>7. e.kind = "down" /\ e.sock = s
  BY <1>4 DEF Down
<1> QED BY <1>1, <1>3, <1>5, <1>6, <1>7, BridgeMoves DEF Up, Takes

LEMMA BridgeHelloKeeps ==
  ASSUME CaptureInv, NEW s \in Sockets, BridgeHello(s)
  PROVE  CaptureInv'
<1>1. s <= used /\ sock[s] \in SocketStates /\ sock[s].net # "unused"
  BY SocketOpenedBefore DEF BridgeHello, Heard
<1>2. PICK o \in SocketStates : o = [sock[s] EXCEPT !.answered = TRUE]
  BY <1>1 DEF SocketStates
<1>3. /\ o.run = sock[s].run /\ o.attempt = sock[s].attempt /\ o.hello = sock[s].hello
      /\ o.received = sock[s].received /\ o.net = sock[s].net
  BY <1>1, <1>2 DEF SocketStates
<1>4. PICK e \in Events : e = [kind |-> "hello", sock |-> s]
  BY DEF Events
<1>5. sock' = [sock EXCEPT ![s] = o] /\ main' = Append(main, e)
  BY <1>1, <1>2, <1>4 DEF BridgeHello, Post, CaptureInv, TypeOK
<1>6. UNCHANGED <<ctl, ws, ui, shown, service, timers, used, events>>
  BY DEF BridgeHello
<1>7. e.kind = "hello" /\ e.sock = s
  BY <1>4
<1> QED BY <1>1, <1>3, <1>5, <1>6, <1>7, BridgeMoves DEF Takes

LEMMA BridgeAckKeeps ==
  ASSUME CaptureInv, NEW s \in Sockets, BridgeAck(s)
  PROVE  CaptureInv'
<1>1. s <= used /\ sock[s] \in SocketStates /\ sock[s].net # "unused"
  BY SocketOpenedBefore DEF BridgeAck, Heard
<1>2. PICK n \in sock[s].acked + 1 .. sock[s].received :
        /\ sock' = [sock EXCEPT ![s].acked = n]
        /\ main' = Append(main, [kind |-> "ack", sock |-> s, bytes |-> n])
  BY DEF BridgeAck, Post
<1>3. n \in 1 .. MaxFrames /\ n <= sock[s].received /\ n \in 0 .. MaxFrames
  <2>1. sock[s].acked \in 0 .. MaxFrames /\ sock[s].received \in 0 .. MaxFrames
    BY <1>1 DEF SocketStates
  <2> QED BY <1>2, <2>1, CaptureAssumption
<1>4. PICK o \in SocketStates : o = [sock[s] EXCEPT !.acked = n]
  BY <1>1, <1>3 DEF SocketStates
<1>5. /\ o.run = sock[s].run /\ o.attempt = sock[s].attempt /\ o.hello = sock[s].hello
      /\ o.received = sock[s].received /\ o.net = sock[s].net
  BY <1>1, <1>4 DEF SocketStates
<1>6. PICK e \in Events : e = [kind |-> "ack", sock |-> s, bytes |-> n]
  BY <1>3 DEF Events
<1>7. sock' = [sock EXCEPT ![s] = o] /\ main' = Append(main, e)
  BY <1>1, <1>2, <1>4, <1>6 DEF CaptureInv, TypeOK
<1>8. UNCHANGED <<ctl, ws, ui, shown, service, timers, used, events>>
  BY DEF BridgeAck
<1>9. e.kind = "ack" /\ e.sock = s /\ e.bytes = n
  BY <1>6
<1> QED BY <1>1, <1>3, <1>5, <1>7, <1>8, <1>9, BridgeMoves DEF Takes

-----------------------------------------------------------------------------
(* The main thread *)

Screens == {"IDLE", "CONNECTING", "LIVE", "UNCONFIRMED", "RECONNECTING", "STOPPED", "ERROR"}

LEMMA HandledQueue ==
  ASSUME TypeOK, NEW k, Handles(k)
  PROVE  /\ main # <<>> /\ main' = Tail(main) /\ main' \in Seq(Events)
         /\ Head(main) \in Events /\ Head(main).kind = k
<1>1. main \in Seq(Events) /\ main # <<>> /\ main' = Tail(main) /\ Head(main).kind = k
  BY DEF TypeOK, Handles
<1>2. main' \in Seq(Events) /\ Head(main) \in Events
  BY <1>1
<1> QED BY <1>1, <1>2

\* What the head of the queue says is true of the sockets.
LEMMA HeadTrue ==
  ASSUME CaptureInv, main # <<>>
  PROVE  Head(main) \in Events /\ EventInv(Head(main))
<1>1. main \in Seq(Events) /\ Len(main) \in Nat
  BY DEF CaptureInv, TypeOK
<1>2. Head(main) = main[1] /\ Head(main) \in Events /\ 1 \in 1 .. Len(main)
  BY <1>1
<1> QED BY <1>2 DEF CaptureInv, QueueInv

\* The controller moves between the open phases.
LEMMA OpenMoves ==
  ASSUME CaptureInv, UNCHANGED <<ws, service, used, events, sock, timers>>,
         ctl.active, ctl.phase \in OpenPhases, ctl' \in Controllers, ctl'.run = ctl.run,
         ctl'.attempt = ctl.attempt, ctl'.active = ctl.active, ctl'.phase \in OpenPhases,
         shown' = ctl'.alert, ui' \in Screens, ui' = "LIVE" => ctl'.phase = "HEALTHY",
         ctl'.phase \in {"HEALTHY", "UNCONFIRMED"} => ctl'.alert = "none",
         ctl'.confirmed <= sock[ws].received,
         ctl'.acked # "no" => ctl'.alert = "none" /\ ctl'.confirmed >= 1,
         ctl'.phase = "HEALTHY" => ctl'.confirmed >= 1,
         \/ main' = main
         \/ main # <<>> /\ main' = Tail(main) /\ Head(main).kind # "captureFailed"
  PROVE  CaptureInv'
<1>1. TypeOK /\ QueueInv /\ PhaseInv /\ MovesOn
  BY DEF CaptureInv
<1>2. main' \in Seq(Events)
  <2>1. main \in Seq(Events)
    BY <1>1 DEF TypeOK
  <2>2. CASE main # <<>> /\ main' = Tail(main)
    BY <2>1, <2>2
  <2> QED BY <2>1, <2>2
<1>3. shown' \in Alerts
  BY DEF Controllers
<1>4. TypeOK'
  BY <1>1, <1>2, <1>3 DEF TypeOK, service, Screens
<1>5. SocketsGrow
  BY <1>1, SameSocketsGrow
<1>6. Current /\ sock[ws].hello /\ Current'
  BY <1>1 DEF PhaseInv, Current
<1>7. ctl.attempt >= 1
  <2>1. ws \in Sockets /\ ws <= used
    BY <1>1, <1>6 DEF TypeOK, PhaseInv, Current
  <2>2. SockInv(ws)
    BY <2>1 DEF CaptureInv
  <2> QED BY <1>6, <2>1, <2>2 DEF SockInv, Current
<1>8. \A r \in Runs : CapInv(r)'
  BY <1>1, <1>4, <1>5, <1>7, CapsStay DEF CaptureInv, service
<1>9. QueueInv'
  <2>1. events' >= events
    BY <1>1, ControllerTypes
  <2> QED BY <1>1, <1>4, <1>5, <2>1, QueueStays, QueueTaken
<1>10. PhaseInv'
  BY <1>1, <1>6 DEF PhaseInv, OpenPhases, Dialing, service
<1>11. QueueMoves
  BY DEF QueueMoves
<1>12. MovesOn'
  <2>1. Receipt(ws) \in timers \/ FailureWaits
    BY <1>1 DEF MovesOn, OpenPhases
  <2>2. FailureWaits => FailureWaits'
    BY <1>1, <1>11, FailureStays DEF QueueMoves
  <2> QED BY <2>1, <2>2 DEF MovesOn, Receipt
<1> QED BY <1>4, <1>8, <1>9, <1>10, <1>12, SocketsStay DEF CaptureInv

LEMMA GotHelloKeeps ==
  ASSUME CaptureInv, GotHello
  PROVE  CaptureInv'
<1> DEFINE s == Head(main).sock
<1>1. TypeOK /\ PhaseInv /\ ctl \in Controllers
  BY ControllerTypes DEF CaptureInv
<1>2. main # <<>> /\ main' = Tail(main) /\ Head(main).kind = "hello"
  BY <1>1, HandledQueue DEF GotHello
<1>3. UNCHANGED <<ws, ui, shown, service, timers, sock, used, events>>
  BY DEF GotHello
<1>4. CASE ws = s /\ IsCurrentOpenAttempt(sock[s].run, sock[s].attempt)
  <2>1. ctl' = [ctl EXCEPT !.ackSupported = TRUE]
    BY <1>4 DEF GotHello
  <2>2. /\ ctl' \in Controllers /\ ctl'.run = ctl.run /\ ctl'.attempt = ctl.attempt
        /\ ctl'.active = ctl.active /\ ctl'.phase = ctl.phase /\ ctl'.alert = ctl.alert
        /\ ctl'.confirmed = ctl.confirmed /\ ctl'.acked = ctl.acked
    BY <1>1, <2>1 DEF Controllers
  <2>3. ctl.active /\ ctl.phase \in OpenPhases
    BY <1>4 DEF IsCurrentOpenAttempt, IsCurrentAttempt, IsCurrentRun
  <2>4. ui' \in Screens
    BY <1>1, <1>3 DEF TypeOK, Screens
  <2>5. /\ ui' = "LIVE" => ctl'.phase = "HEALTHY"
        /\ ctl'.phase \in {"HEALTHY", "UNCONFIRMED"} => ctl'.alert = "none"
        /\ ctl'.confirmed <= sock[ws].received
        /\ ctl'.acked # "no" => ctl'.alert = "none" /\ ctl'.confirmed >= 1
        /\ ctl'.phase = "HEALTHY" => ctl'.confirmed >= 1
    BY <1>1, <1>3, <2>2, <2>3 DEF PhaseInv
  <2>6. shown' = ctl'.alert
    BY <1>1, <1>3, <2>2 DEF PhaseInv
  <2> QED BY <1>2, <1>3, <2>2, <2>3, <2>4, <2>5, <2>6, OpenMoves
<1>5. CASE ~(ws = s /\ IsCurrentOpenAttempt(sock[s].run, sock[s].attempt))
  <2>1. ctl' = ctl
    BY <1>5 DEF GotHello
  <2>2. timers' \subseteq Timers
    BY <1>1, <1>3 DEF TypeOK
  <2> QED BY <1>2, <1>3, <2>1, <2>2, IdleKeeps DEF DeadlineStays
<1> QED BY <1>4, <1>5

LEMMA GotAckKeeps ==
  ASSUME CaptureInv, GotAck
  PROVE  CaptureInv'
<1> DEFINE s == Head(main).sock
           n == Head(main).bytes
           counts == /\ ws = s /\ IsCurrentOpenAttempt(sock[s].run, sock[s].attempt)
                     /\ ctl.ackSupported /\ n > ctl.confirmed
<1>1. TypeOK /\ PhaseInv /\ ctl \in Controllers
  BY ControllerTypes DEF CaptureInv
<1>2. main # <<>> /\ main' = Tail(main) /\ Head(main).kind = "ack"
  BY <1>1, HandledQueue DEF GotAck
<1>3. UNCHANGED <<ws, service, timers, sock, used, events>>
  BY DEF GotAck
<1>4. CASE counts
  <2>1. n \in 1 .. MaxFrames /\ n <= sock[s].received
    BY <1>2, HeadTrue, EventTypes DEF EventInv
  <2>2. Restored([ctl EXCEPT !.confirmed = n, !.acked = "fresh", !.phase = "HEALTHY"]) /\ ui' = "LIVE"
    BY <1>4 DEF GotAck
  <2>3. n \in 0 .. MaxFrames /\ n >= 1
    BY <2>1, CaptureAssumption
  <2> HIDE DEF n
  <2> DEFINE c == [ctl EXCEPT !.confirmed = n, !.acked = "fresh", !.phase = "HEALTHY"]
  <2>4. /\ c \in Controllers /\ c.run = ctl.run /\ c.attempt = ctl.attempt
        /\ c.active = ctl.active /\ c.phase = "HEALTHY" /\ c.alert = ctl.alert
        /\ c.confirmed = n /\ c.acked = "fresh"
    BY <1>1, <2>3 DEF Controllers, Phases
  <2>5. ctl' = [c EXCEPT !.alert = "none"] /\ shown' = IF c.alert = "none" THEN shown ELSE "none"
    BY <2>2 DEF Restored
  <2> HIDE DEF c
  <2>6. /\ ctl' \in Controllers /\ ctl'.run = ctl.run /\ ctl'.attempt = ctl.attempt
        /\ ctl'.active = ctl.active /\ ctl'.phase = "HEALTHY" /\ ctl'.alert = "none"
        /\ ctl'.confirmed = n /\ ctl'.acked = "fresh"
    BY <2>4, <2>5 DEF Controllers, Alerts
  <2>7. shown' = "none"
    BY <1>1, <2>4, <2>5 DEF PhaseInv
  <2>8. ctl.active /\ ctl.phase \in OpenPhases /\ ws = s
    BY <1>4 DEF IsCurrentOpenAttempt, IsCurrentAttempt, IsCurrentRun
  <2> HIDE DEF s, counts
  <2> QED BY <1>2, <1>3, <2>1, <2>2, <2>3, <2>6, <2>7, <2>8, OpenMoves DEF Screens, OpenPhases, n
<1>5. CASE ~counts
  <2>1. UNCHANGED <<ctl, shown, ui>>
    BY <1>5 DEF GotAck
  <2>2. timers' \subseteq Timers
    BY <1>1, <1>3 DEF TypeOK
  <2> HIDE DEF counts
  <2> QED BY <1>2, <1>3, <2>1, <2>2, IdleKeeps DEF DeadlineStays
<1> HIDE DEF counts
<1> QED BY <1>4, <1>5

\* The socket of the current attempt was dialed by it.
LEMMA CurrentAttemptDialed ==
  ASSUME CaptureInv, NEW s \in Sockets, s <= used, IsCurrentAttempt(sock[s].run, sock[s].attempt)
  PROVE  ctl.active /\ ctl.attempt >= 1 /\ ctl.run = sock[s].run /\ ctl.attempt = sock[s].attempt
<1>1. SockInv(s)
  BY DEF CaptureInv
<1> QED BY <1>1 DEF SockInv, IsCurrentAttempt, IsCurrentRun

LEMMA SocketDownKeeps ==
  ASSUME CaptureInv, SocketDown
  PROVE  CaptureInv'
<1> DEFINE e == Head(main)
           counts == DownCounts(e.sock, e.run, e.attempt) /\ ctl.phase \in OpenPhases \cup {"CONNECTING"}
<1>1. TypeOK
  BY DEF CaptureInv
<1>2. main # <<>> /\ main' = Tail(main) /\ e.kind = "down"
  BY <1>1, HandledQueue DEF SocketDown
<1>3. UNCHANGED <<service, used, events>>
  BY DEF SocketDown
<1>4. CASE counts
  <2>1. e.sock \in Sockets /\ e.attempt \in 1 .. MaxSockets
    BY <1>2, HeadTrue, EventTypes
  <2>2. ws = e.sock /\ ctl.active /\ ctl.attempt >= 1
    BY <1>4, <2>1, CaptureAssumption DEF DownCounts, IsCurrentAttempt, IsCurrentRun
  <2>3. Lost(e.sock, timers)
    BY <1>4 DEF SocketDown
  <2>4. timers \in SUBSET Timers
    BY <1>1 DEF TypeOK
  <2> HIDE DEF e
  <2> QED BY <1>2, <1>3, <2>1, <2>2, <2>3, <2>4, LostKeeps DEF service
<1>5. CASE ~counts
  <2>1. UNCHANGED <<ctl, ws, ui, shown, timers, sock>>
    BY <1>5 DEF SocketDown
  <2>2. timers' \subseteq Timers
    BY <1>1, <2>1 DEF TypeOK
  <2> HIDE DEF counts
  <2> QED BY <1>2, <1>3, <2>1, <2>2, IdleKeeps DEF DeadlineStays
<1> HIDE DEF counts
<1> QED BY <1>4, <1>5

LEMMA SocketOpenedKeeps ==
  ASSUME CaptureInv, SocketOpened
  PROVE  CaptureInv'
<1> DEFINE s == Head(main).sock
           old == IsCurrentAttempt(sock[s].run, sock[s].attempt)
<1>1. TypeOK /\ PhaseInv /\ QueueInv /\ MovesOn /\ ctl \in Controllers
  BY ControllerTypes DEF CaptureInv
<1>2. main # <<>> /\ main' = Tail(main) /\ main' \in Seq(Events) /\ Head(main).kind = "opened"
  BY <1>1, HandledQueue DEF SocketOpened
<1>3. s \in Sockets /\ s <= used /\ SockInv(s) /\ sock[s] \in SocketStates
  BY <1>1, <1>2, HeadTrue, EventTypes DEF EventInv, CaptureInv, TypeOK
<1>4. UNCHANGED <<service, used, events>>
  BY DEF SocketOpened
<1>5. timers \in SUBSET Timers
  BY <1>1 DEF TypeOK
<1>6. ASSUME UNCHANGED <<ctl, ws, ui, shown, timers, sock>> PROVE CaptureInv'
  BY <1>2, <1>4, <1>5, <1>6, IdleKeeps DEF DeadlineStays
<1>7. CASE ws # s
  BY <1>6, <1>7 DEF SocketOpened
<1>8. CASE ws = s /\ sock[s].net # "open"
  <2>1. CASE old /\ ctl.phase \in OpenPhases \cup {"CONNECTING"}
    <3>1. Lost(s, timers)
      BY <1>8, <2>1 DEF SocketOpened
    <3>2. ctl.active /\ ctl.attempt >= 1
      BY <1>3, <2>1, CurrentAttemptDialed
    <3> HIDE DEF s
    <3> QED BY <1>2, <1>3, <1>4, <1>5, <1>8, <3>1, <3>2, LostKeeps DEF service
  <2>2. CASE ~(old /\ ctl.phase \in OpenPhases \cup {"CONNECTING"})
    BY <1>6, <1>8, <2>2 DEF SocketOpened
  <2> QED BY <2>1, <2>2
<1>9. CASE ws = s /\ sock[s].net = "open"
  <2>1. sock' = [sock EXCEPT ![s].hello = TRUE] /\ UNCHANGED <<ws, shown>>
    BY <1>9 DEF SocketOpened
  <2>2. PICK o \in SocketStates : o = [sock[s] EXCEPT !.hello = TRUE]
    BY <1>3 DEF SocketStates
  <2>3. /\ o.run = sock[s].run /\ o.attempt = sock[s].attempt /\ o.hello = TRUE
        /\ o.received = sock[s].received /\ o.net = sock[s].net
    BY <1>3, <2>2 DEF SocketStates
  <2>4. sock' = [sock EXCEPT ![s] = o]
    BY <1>1, <1>3, <2>1, <2>2 DEF TypeOK
  <2>5. PICK q \in Sockets : q = s
    BY <1>3
  <2>6. sock[s].received <= o.received /\ o.net # "unused"
    BY <1>1, <1>3, <1>9, <2>3, SocketTypes
  <2>7. /\ sock' \in [Sockets -> SocketStates] /\ sock'[s] = o
        /\ SocketsGrow /\ SameEnds /\ \A t \in Sockets : SockInv(t)'
    <3> HIDE DEF s
    <3> QED BY <1>1, <1>3, <1>4, <2>1, <2>3, <2>4, <2>5, <2>6, SocketLearns DEF CaptureInv
  <2>8. CASE old /\ ctl.phase = "CONNECTING"
    <3>1. ctl' = Opened /\ ui' = "CONNECTING" /\ timers' = timers \cup {Receipt(s)}
      BY <1>9, <2>8 DEF SocketOpened
    <3>2. ctl.active /\ ctl.attempt >= 1 /\ ctl.run = sock[s].run /\ ctl.attempt = sock[s].attempt
      BY <1>3, <2>8, CurrentAttemptDialed
    <3>3. /\ ctl' \in Controllers /\ ctl'.run = ctl.run /\ ctl'.attempt = ctl.attempt
          /\ ctl'.active = ctl.active /\ ctl'.phase = "AWAITING_RECEIPT" /\ ctl'.alert = ctl.alert
          /\ ctl'.confirmed = 0 /\ ctl'.acked = "no"
      <4>1. 0 \in 0 .. MaxFrames
        BY CaptureAssumption
      <4>2. PICK zero : zero = 0 /\ zero \in 0 .. MaxFrames
        BY <4>1
      <4>3. ctl' = [ctl EXCEPT !.phase = "AWAITING_RECEIPT", !.opened = "fresh", !.acked = "no",
                              !.confirmed = zero, !.ackSupported = FALSE]
        BY <3>1, <4>2 DEF Opened
      <4>4. /\ ctl' \in Controllers /\ ctl'.run = ctl.run /\ ctl'.attempt = ctl.attempt
            /\ ctl'.active = ctl.active /\ ctl'.phase = "AWAITING_RECEIPT" /\ ctl'.alert = ctl.alert
            /\ ctl'.confirmed = zero /\ ctl'.acked = "no"
        BY <1>1, <4>2, <4>3 DEF Controllers, Phases
      <4> QED BY <4>2, <4>4
    <3>4. timers' \subseteq Timers
      BY <1>3, <1>5, <3>1 DEF Timers, Receipt
    <3>5. TypeOK'
      BY <1>1, <1>2, <1>4, <2>1, <2>7, <3>1, <3>3, <3>4 DEF TypeOK, service
    <3>6. \A r \in Runs : CapInv(r)'
      BY <1>1, <1>4, <2>7, <3>2, <3>3, <3>5, CapsStay DEF CaptureInv, service
    <3>7. QueueInv'
      BY <1>1, <1>2, <1>4, <2>7, <3>3, <3>5, QueueTaken
    <3>8. Current' /\ sock'[ws].hello
      BY <1>3, <1>9, <2>1, <2>3, <2>7, <3>2, <3>3, NoneApart DEF Current
    <3>9. PhaseInv'
      <4>1. 0 <= sock'[ws].received
        BY <1>1, <1>3, <1>9, <2>3, <2>7, SocketTypes
      <4>2. url' /\ job' = ctl'.run /\ ctl'.run >= 1 /\ (job' # None => job' <= ctl'.run)
            /\ ctl'.attempt <= used' /\ (ws' # None => ws' <= used') /\ shown' = ctl'.alert
        BY <1>1, <1>4, <2>1, <3>2, <3>3 DEF PhaseInv, service
      <4> QED BY <2>1, <3>1, <3>2, <3>3, <3>8, <4>1, <4>2 DEF PhaseInv, OpenPhases, Dialing
    <3>10. MovesOn'
      BY <1>9, <2>1, <3>1, <3>3 DEF MovesOn, OpenPhases, Receipt
    <3> QED BY <2>7, <3>5, <3>6, <3>7, <3>9, <3>10 DEF CaptureInv
  <2>9. CASE ~(old /\ ctl.phase = "CONNECTING")
    <3>1. UNCHANGED <<ctl, ui, timers>>
      BY <1>9, <2>9 DEF SocketOpened
    <3>2. TypeOK'
      BY <1>1, <1>2, <1>4, <2>1, <2>7, <3>1 DEF TypeOK, service
    <3>3. \A r \in Runs : CapInv(r)'
      BY <1>1, <1>4, <2>7, <3>1, <3>2, CapsStay DEF CaptureInv, service
    <3>4. QueueInv'
      BY <1>1, <1>2, <1>4, <2>7, <3>1, <3>2, QueueTaken
    <3>5. QueueMoves /\ DeadlineStays
      BY <1>2, <3>1 DEF QueueMoves, DeadlineStays
    <3>6. PhaseInv' /\ MovesOn'
      BY <1>1, <1>4, <2>1, <2>7, <3>1, <3>2, <3>5, PhaseStays, MovesStays DEF service
    <3> QED BY <2>7, <3>2, <3>3, <3>4, <3>6 DEF CaptureInv
  <2> QED BY <2>8, <2>9
<1> QED BY <1>7, <1>8, <1>9 DEF SocketOpened

LEMMA HandshakeTimeoutKeeps ==
  ASSUME CaptureInv, NEW s \in Sockets, HandshakeTimeout(s)
  PROVE  CaptureInv'
<1> DEFINE rest == timers \ {Handshake(s)}
           due == /\ ws = s /\ IsCurrentAttempt(sock[s].run, sock[s].attempt)
                  /\ ctl.phase = "CONNECTING"
<1>1. TypeOK /\ PhaseInv /\ rest \in SUBSET Timers
  BY DEF CaptureInv, TypeOK
<1>2. UNCHANGED <<service, main, used, events>>
  BY DEF HandshakeTimeout
<1>3. CASE due
  <2>1. Lost(s, rest)
    BY <1>3 DEF HandshakeTimeout, Handshake
  <2>2. ws # None /\ s <= used
    BY <1>1, <1>3, NoneApart DEF PhaseInv
  <2>3. ctl.active /\ ctl.attempt >= 1
    BY <1>3, <2>2, CurrentAttemptDialed
  <2> HIDE DEF rest
  <2> QED BY <1>1, <1>2, <1>3, <2>1, <2>3, LostKeeps DEF service
<1>4. CASE ~due
  <2>1. timers' = rest /\ UNCHANGED <<ctl, ws, ui, shown, sock>>
    BY <1>4 DEF HandshakeTimeout, Handshake
  <2>2. ctl.active /\ ctl.phase = "CONNECTING" /\ Current => ws # s
    BY <1>4 DEF Current, IsCurrentAttempt, IsCurrentRun
  <2>3. DeadlineStays
    BY <2>1, <2>2 DEF DeadlineStays, Handshake, Receipt, Reconnect
  <2>4. timers' \subseteq Timers
    BY <1>1, <2>1
  <2> QED BY <1>2, <2>1, <2>3, <2>4, IdleKeeps
<1> QED BY <1>3, <1>4

LEMMA ReceiptTickKeeps ==
  ASSUME CaptureInv, NEW s \in Sockets, ReceiptTick(s)
  PROVE  CaptureInv'
<1> DEFINE rest == timers \ {Receipt(s)}
           due == ws = s /\ IsCurrentOpenAttempt(sock[s].run, sock[s].attempt)
<1>1. TypeOK /\ PhaseInv /\ rest \in SUBSET Timers /\ ctl \in Controllers
  BY ControllerTypes DEF CaptureInv, TypeOK
<1>2. UNCHANGED <<service, main, used, events>>
  BY DEF ReceiptTick
<1>3. CASE due
  <2>1. ws = s /\ ws # None /\ s <= used /\ ctl.active /\ ctl.phase \in OpenPhases
    BY <1>1, <1>3, NoneApart DEF PhaseInv, IsCurrentOpenAttempt, IsCurrentAttempt, IsCurrentRun
  <2>2. ctl.attempt >= 1
    BY <1>3, <2>1, CurrentAttemptDialed DEF IsCurrentOpenAttempt
  <2>3. /\ ctl.confirmed <= sock[ws].received
        /\ ctl.acked # "no" => ctl.alert = "none" /\ ctl.confirmed >= 1
        /\ ctl.phase = "HEALTHY" => ctl.confirmed >= 1
        /\ shown = ctl.alert
        /\ ui \in Screens /\ ui' \in Screens
    BY <1>1, <2>1 DEF PhaseInv, TypeOK, Screens, ReceiptTick, Lost
  <2>4. CASE Status = "WAITING" /\ timers' = TickAgain(s) /\ UNCHANGED <<ctl, ws, ui, shown, sock>>
    <3>1. DeadlineStays /\ timers' \subseteq Timers
      BY <1>1, <2>4 DEF DeadlineStays, TickAgain, TypeOK
    <3> QED BY <1>2, <2>4, <3>1, IdleKeeps
  <2>5. CASE Status = "HEALTHY" /\ ctl' = [ctl EXCEPT !.phase = "HEALTHY"] /\ UNCHANGED <<ws, ui, shown, timers, sock>>
    <3>1. ctl.acked # "no"
      BY <2>5 DEF Status
    <3>2. /\ ctl' \in Controllers /\ ctl'.run = ctl.run /\ ctl'.attempt = ctl.attempt
          /\ ctl'.active = ctl.active /\ ctl'.phase = "HEALTHY" /\ ctl'.alert = ctl.alert
          /\ ctl'.confirmed = ctl.confirmed /\ ctl'.acked = ctl.acked
      BY <1>1, <2>5 DEF Controllers, Phases
    <3> QED BY <1>2, <2>1, <2>3, <2>5, <3>1, <3>2, OpenMoves DEF OpenPhases
  <2>6. CASE /\ UNCHANGED <<ws, timers, sock>>
             /\ IF ctl.phase = "UNCONFIRMED" THEN UNCHANGED <<ctl, ui, shown>>
                ELSE Restored([ctl EXCEPT !.phase = "UNCONFIRMED"]) /\ ui' = "UNCONFIRMED"
    <3>1. CASE ctl.phase = "UNCONFIRMED"
      <4>1. UNCHANGED <<ctl, ws, ui, shown, sock>> /\ timers' = timers
        BY <2>6, <3>1
      <4>2. DeadlineStays /\ timers' \subseteq Timers
        BY <1>1, <4>1 DEF DeadlineStays, TypeOK
      <4> QED BY <1>2, <4>1, <4>2, IdleKeeps
    <3>2. CASE ctl.phase # "UNCONFIRMED"
      <4> DEFINE c == [ctl EXCEPT !.phase = "UNCONFIRMED"]
      <4>1. /\ c \in Controllers /\ c.run = ctl.run /\ c.attempt = ctl.attempt
            /\ c.active = ctl.active /\ c.phase = "UNCONFIRMED" /\ c.alert = ctl.alert
            /\ c.confirmed = ctl.confirmed /\ c.acked = ctl.acked
        BY <1>1 DEF Controllers, Phases
      <4>2. ctl' = [c EXCEPT !.alert = "none"] /\ shown' = (IF c.alert = "none" THEN shown ELSE "none")
            /\ ui' = "UNCONFIRMED"
        BY <2>6, <3>2 DEF Restored
      <4> HIDE DEF c
      <4>3. /\ ctl' \in Controllers /\ ctl'.run = ctl.run /\ ctl'.attempt = ctl.attempt
            /\ ctl'.active = ctl.active /\ ctl'.phase = "UNCONFIRMED" /\ ctl'.alert = "none"
            /\ ctl'.confirmed = ctl.confirmed /\ ctl'.acked = ctl.acked
        BY <4>1, <4>2 DEF Controllers, Alerts
      <4>4. shown' = "none"
        BY <2>3, <4>1, <4>2
      <4> QED BY <1>2, <2>1, <2>3, <2>6, <4>2, <4>3, <4>4, OpenMoves DEF OpenPhases
    <3> QED BY <3>1, <3>2
  <2>7. CASE Lost(s, rest)
    <3> HIDE DEF rest
    <3> QED BY <1>1, <1>2, <2>1, <2>2, <2>7, LostKeeps DEF service
  <2> QED BY <1>3, <2>4, <2>5, <2>6, <2>7 DEF ReceiptTick
<1>4. CASE ~due
  <2>1. timers' = rest /\ UNCHANGED <<ctl, ws, ui, shown, sock>>
    BY <1>4 DEF ReceiptTick
  <2>2. ctl.active /\ ctl.phase \in OpenPhases => ws # s
    BY <1>1, <1>4 DEF PhaseInv, Current, IsCurrentOpenAttempt, IsCurrentAttempt, IsCurrentRun
  <2>3. DeadlineStays
    BY <2>1, <2>2 DEF DeadlineStays, Handshake, Receipt, Reconnect
  <2>4. timers' \subseteq Timers
    BY <1>1, <2>1
  <2> QED BY <1>2, <2>1, <2>3, <2>4, IdleKeeps
<1> QED BY <1>3, <1>4

LEMMA ReconnectDueKeeps ==
  ASSUME CaptureInv, NEW r \in Runs, ReconnectDue(r)
  PROVE  CaptureInv'
<1> DEFINE rest == timers \ {Reconnect(r)}
           due == url /\ ws = None /\ IsCurrentRun(r) /\ ctl.phase = "RECONNECTING"
<1>1. TypeOK /\ PhaseInv /\ CapInv(r) /\ rest \in SUBSET Timers
  BY DEF CaptureInv, TypeOK
<1>2. UNCHANGED <<service, ui, shown, main, events>>
  BY DEF ReconnectDue
<1>3. CASE due
  <2>1. Dials(r, rest)
    BY <1>3 DEF ReconnectDue, OpenSocket, Dials
  <2>2. ctl.active /\ ctl.run = r /\ ctl.phase \in Dialing /\ cap[r].pc # "starting"
    BY <1>1, <1>3 DEF IsCurrentRun, CapInv, Dialing
  <2> HIDE DEF rest
  <2> QED BY <1>1, <1>2, <2>1, <2>2, DialsKeeps DEF service
<1>4. CASE ~due
  <2>1. timers' = rest /\ UNCHANGED <<ctl, ws, sock, used>>
    BY <1>4 DEF ReconnectDue
  <2>2. ctl.active /\ ctl.phase = "RECONNECTING" => ctl.run # r
    BY <1>1, <1>4 DEF PhaseInv, IsCurrentRun
  <2>3. DeadlineStays
    BY <2>1, <2>2 DEF DeadlineStays, Handshake, Receipt, Reconnect
  <2>4. timers' \subseteq Timers
    BY <1>1, <2>1
  <2> QED BY <1>2, <2>1, <2>3, <2>4, IdleKeeps
<1> QED BY <1>3, <1>4

LEMMA TimePassesKeeps ==
  ASSUME CaptureInv, TimePasses
  PROVE  CaptureInv'
<1>1. TypeOK /\ PhaseInv /\ ctl \in Controllers
  BY ControllerTypes DEF CaptureInv
<1>2. /\ ctl.active /\ ctl.phase \in OpenPhases
      /\ UNCHANGED <<ws, ui, shown, service, main, timers, sock, used, events>>
  BY DEF TimePasses
<1>3. /\ ctl' \in Controllers /\ ctl'.run = ctl.run /\ ctl'.attempt = ctl.attempt
      /\ ctl'.active = ctl.active /\ ctl'.phase = ctl.phase /\ ctl'.alert = ctl.alert
      /\ ctl'.confirmed = ctl.confirmed
      /\ ctl'.acked # "no" => ctl.acked # "no"
  <2>1. CASE ctl' = [ctl EXCEPT !.opened = "old"]
    BY <1>1, <2>1 DEF Controllers
  <2>2. CASE ctl.acked = "fresh" /\ ctl' = [ctl EXCEPT !.acked = "old"]
    BY <1>1, <2>2 DEF Controllers
  <2> QED BY <2>1, <2>2 DEF TimePasses
<1>4. /\ ctl.confirmed <= sock[ws].received
      /\ ctl.acked # "no" => ctl.alert = "none" /\ ctl.confirmed >= 1
      /\ ctl.phase = "HEALTHY" => ctl.confirmed >= 1
      /\ shown = ctl.alert
      /\ ui \in Screens
  BY <1>1, <1>2 DEF PhaseInv, TypeOK, Screens
<1>5. /\ ui = "LIVE" => ctl.phase = "HEALTHY"
      /\ ctl.phase \in {"HEALTHY", "UNCONFIRMED"} => ctl.alert = "none"
  BY <1>1 DEF PhaseInv
<1> QED BY <1>2, <1>3, <1>4, <1>5, OpenMoves

LEMMA FirstOpenKeeps ==
  ASSUME CaptureInv, NEW r \in Runs, FirstOpen(r)
  PROVE  CaptureInv'
<1>1. TypeOK /\ CapInv(r) /\ cap[r] \in Captures /\ cap[r].pc = "starting" /\ timers \in SUBSET Timers
  BY DEF CaptureInv, TypeOK, FirstOpen
<1>2. UNCHANGED <<url, ui, shown, job, main, events>> /\ cap' = [cap EXCEPT ![r].pc = "reading"]
  BY DEF FirstOpen
<1>3. CASE IsCurrentRun(r)
  <2>1. ctl.phase = "CONNECTING" /\ ctl.active /\ ctl.run = r
    BY <1>1, <1>3 DEF CapInv, IsCurrentRun
  <2>2. Dials(r, timers)
    BY <1>3, <2>1 DEF FirstOpen, OpenSocket, Dials
  <2> QED BY <1>1, <1>2, <2>1, <2>2, DialsKeeps DEF Dialing
<1>4. CASE ~IsCurrentRun(r)
  <2>1. UNCHANGED <<timers, ctl, ws, sock, used>>
    BY <1>4 DEF FirstOpen, OpenSocket
  <2>2. PICK c \in Captures : c = [cap[r] EXCEPT !.pc = "reading"]
    BY <1>1 DEF Captures
  <2>3. c.pc = "reading" /\ c.frame = cap[r].frame /\ c.cancelled = cap[r].cancelled
    BY <1>1, <2>2 DEF Captures
  <2>4. cap' = [cap EXCEPT ![r] = c]
    BY <1>1, <1>2, <2>2 DEF TypeOK
  <2>5. TypeOK'
    BY <1>1, <1>2, <2>1, <2>4 DEF TypeOK
  <2>6. SocketsGrow /\ SameEnds /\ \A s \in Sockets : SockInv(s)'
    BY <1>1, <2>1, SameSocketsGrow, SocketsStay DEF SameEnds, CaptureInv
  <2>7. FrameInv(c)'
    BY <1>1, <2>1, <2>3, CapParts DEF FrameInv
  <2>8. ~(ctl.active /\ ctl.run = r)
    BY <1>4 DEF IsCurrentRun
  <2> QED BY <1>1, <1>2, <2>1, <2>3, <2>4, <2>5, <2>6, <2>7, <2>8, CaptureMoves
<1> QED BY <1>3, <1>4

\* A run id is left for every start and stop that waits.
LEMMA RunLeft ==
  ASSUME CaptureInv, main # <<>>, Head(main).kind \in Takes
  PROVE  ctl.run + 1 <= MaxEvents /\ ctl.run + 1 \in 0 .. MaxEvents /\ ctl.run + 1 \in Runs
<1>1. TypeOK /\ Len(main) \in Nat /\ main \in Seq(Events)
  BY DEF CaptureInv, TypeOK
<1>2. 1 \in Waiting
  <2>1. Head(main) = main[1] /\ 1 \in 1 .. Len(main)
    BY <1>1
  <2> QED BY <2>1 DEF Waiting, Takes
<1>3. IsFiniteSet(Waiting) /\ Cardinality(Waiting) \in Nat
  BY <1>1, WaitingFinite
<1>4. Cardinality(Waiting) >= 1
  BY <1>2, <1>3, FS_EmptySet
<1>5. ctl.run + Cardinality(Waiting) <= events /\ events <= MaxEvents
  BY <1>1 DEF CaptureInv, QueueInv, TypeOK
<1> QED BY SMTT(30), <1>1, <1>3, <1>4, <1>5, ControllerTypes DEF Runs

LEMMA StartKeeps ==
  ASSUME CaptureInv, Start
  PROVE  CaptureInv'
<1>1. TypeOK /\ PhaseInv /\ QueueInv /\ MovesOn /\ ctl \in Controllers
  BY ControllerTypes DEF CaptureInv
<1>2. main # <<>> /\ main' = Tail(main) /\ main' \in Seq(Events) /\ Head(main).kind = "start"
  BY <1>1, HandledQueue DEF Start
<1>3. UNCHANGED <<ws, timers, sock, used, events>>
  BY DEF Start
<1>4. CASE Capturing
  <2>1. UNCHANGED <<ctl, ui, shown, service>>
    BY <1>4 DEF Start
  <2>2. timers' \subseteq Timers
    BY <1>1, <1>3 DEF TypeOK
  <2> QED BY <1>2, <1>3, <2>1, <2>2, IdleKeeps DEF DeadlineStays
<1>5. CASE ~Capturing
  <2> DEFINE n == ctl.run + 1
  <2>1. n \in 0 .. MaxEvents /\ n \in Runs
    BY <1>2, RunLeft DEF Takes
  <2>2. /\ ctl' = [ctl EXCEPT !.run = n, !.attempt = 0, !.active = TRUE, !.phase = "CONNECTING",
                       !.alert = "none", !.ackSupported = FALSE, !.opened = "no", !.acked = "no",
                       !.confirmed = 0]
        /\ shown' = "none" /\ ui' = "CONNECTING" /\ url' = TRUE /\ job' = n
        /\ cap' = [cap EXCEPT ![n].pc = "starting"]
    BY <1>5 DEF Start, Started
  <2>3. ctl.run \in Nat /\ n > ctl.run /\ n >= 1 /\ n \in Nat
    BY <1>1, ControllerTypes
  <2> HIDE DEF n
  <2>4. /\ ctl' \in Controllers /\ ctl'.run = n /\ ctl'.attempt = 0 /\ ctl'.active
        /\ ctl'.phase = "CONNECTING" /\ ctl'.alert = "none"
    <3>1. PICK zero : zero = 0 /\ zero \in 0 .. MaxFrames /\ zero \in 0 .. MaxSockets
      BY CaptureAssumption
    <3>2. ctl' = [ctl EXCEPT !.run = n, !.attempt = zero, !.active = TRUE, !.phase = "CONNECTING",
                       !.alert = "none", !.ackSupported = FALSE, !.opened = "no", !.acked = "no",
                       !.confirmed = zero]
      BY <2>2, <3>1
    <3>3. /\ ctl' \in Controllers /\ ctl'.run = n /\ ctl'.attempt = zero /\ ctl'.active
          /\ ctl'.phase = "CONNECTING" /\ ctl'.alert = "none"
      BY <1>1, <2>1, <3>1, <3>2 DEF Controllers, Phases, Alerts
    <3> QED BY <3>1, <3>3
  <2>5. CapInv(n) /\ cap[n] = NoCapture
    BY <2>1, <2>3 DEF CaptureInv, CapInv
  <2>6. PICK c \in Captures : c = [pc |-> "starting", cancelled |-> FALSE, frame |-> None]
    BY DEF Captures
  <2>7. cap' = [cap EXCEPT ![n] = c] /\ cap'[n] = c /\ \A q \in Runs : q # n => cap'[q] = cap[q]
    <3>1. [cap[n] EXCEPT !.pc = "starting"] = c
      <4>1. PICK o : o = FALSE /\ o \in BOOLEAN
        OBVIOUS
      <4>2. NoCapture = [pc |-> "none", cancelled |-> o, frame |-> None]
        BY <4>1 DEF NoCapture
      <4>3. c = [pc |-> "starting", cancelled |-> o, frame |-> None]
        BY <2>6, <4>1
      <4>4. [NoCapture EXCEPT !.pc = "starting"] = c
        BY <4>2, <4>3
      <4> QED BY <2>5, <4>4
    <3>2. cap' = [cap EXCEPT ![n] = [cap[n] EXCEPT !.pc = "starting"]]
      BY <1>1, <2>1, <2>2 DEF TypeOK
    <3>3. cap' = [cap EXCEPT ![n] = c] /\ cap \in [Runs -> Captures]
      BY <1>1, <3>1, <3>2 DEF TypeOK
    <3> QED BY <2>1, <3>3
  <2>8. TypeOK'
    BY <1>1, <1>2, <1>3, <2>1, <2>2, <2>4, <2>7 DEF TypeOK, Alerts
  <2>9. SocketsGrow
    BY <1>1, <1>3, SameSocketsGrow
  <2>10. \A q \in Runs : CapInv(q)'
    <3> TAKE q \in Runs
    <3>1. CASE q = n
      BY <2>3, <2>4, <2>6, <2>7, <3>1, NoneApart DEF CapInv, NoCapture
    <3>2. CASE q # n
      <4>1. cap'[q] = cap[q] /\ CapInv(q) /\ cap[q] \in Captures /\ q \in Nat
        BY <1>1, <2>7, <3>2, CaptureTypes DEF CaptureInv
      <4>2. PICK k \in Captures : k = cap[q] /\ FrameInv(k)
        BY <4>1, CapParts
      <4>3. FrameInv(k)'
        BY <1>1, <2>8, <2>9, <4>2, FrameStays
      <4>4. FrameInv(cap[q])'
        BY <4>1, <4>2, <4>3 DEF FrameInv
      <4>5. ActiveInv(q)'
        BY <2>4, <3>2 DEF ActiveInv
      <4>6. (q > ctl.run => cap[q] = NoCapture)'
        BY <2>3, <2>4, <4>1 DEF CapInv, NoCapture
      <4> QED BY <4>4, <4>5, <4>6 DEF CapInv, FrameInv, ActiveInv
    <3> QED BY <3>1, <3>2
  <2>11. QueueInv'
    <3>1. events' = events /\ ctl'.run = ctl.run + 1 /\ Head(main).kind \in Takes
      BY <1>2, <1>3, <2>4 DEF n, Takes
    <3> QED BY <1>1, <1>2, <2>8, <2>9, <3>1, QueueTaken
  <2>12. PhaseInv'
    <3>1. (ws' # None => ws' <= used') /\ 0 <= used'
      BY <1>1, <1>3, ControllerTypes DEF PhaseInv
    <3> QED BY <2>2, <2>3, <2>4, <3>1 DEF PhaseInv, OpenPhases, Dialing
  <2>13. MovesOn'
    BY <2>4, <2>6, <2>7 DEF MovesOn
  <2> QED BY <1>3, <2>8, <2>10, <2>11, <2>12, <2>13, SocketsStay DEF CaptureInv
<1> QED BY <1>4, <1>5

LEMMA StopKeeps ==
  ASSUME CaptureInv, Stop
  PROVE  CaptureInv'
<1>1. TypeOK /\ PhaseInv /\ QueueInv /\ ctl \in Controllers
  BY ControllerTypes DEF CaptureInv
<1>2. main # <<>> /\ main' = Tail(main) /\ main' \in Seq(Events) /\ Head(main).kind \in Takes
  <2>1. Handles("stop") \/ Handles("limit")
    BY DEF Stop
  <2> QED BY <1>1, <2>1, HandledQueue DEF Takes
<1>3. /\ job' = None /\ url' = FALSE /\ ws' = None /\ shown' = "none" /\ ui' = "STOPPED"
      /\ UNCHANGED <<timers, used, events>>
  BY DEF Stop
<1> DEFINE n == ctl.run + 1
<1>4. n \in 0 .. MaxEvents /\ n > ctl.run /\ n \in Nat /\ ctl.run \in Nat
  BY <1>1, <1>2, RunLeft, ControllerTypes
<1>5. ctl' = [ctl EXCEPT !.run = n, !.attempt = 0, !.active = FALSE, !.phase = "STOPPED", !.alert = "none"]
  BY DEF Stop, Stopped
<1> HIDE DEF n
<1>6. /\ ctl' \in Controllers /\ ctl'.run = n /\ ctl'.attempt = 0 /\ ~ctl'.active
      /\ ctl'.phase = "STOPPED" /\ ctl'.alert = "none"
  <2>1. PICK zero : zero = 0 /\ zero \in 0 .. MaxSockets
    BY CaptureAssumption
  <2>2. ctl' = [ctl EXCEPT !.run = n, !.attempt = zero, !.active = FALSE, !.phase = "STOPPED", !.alert = "none"]
    BY <1>5, <2>1
  <2>3. /\ ctl' \in Controllers /\ ctl'.run = n /\ ctl'.attempt = zero /\ ~ctl'.active
        /\ ctl'.phase = "STOPPED" /\ ctl'.alert = "none"
    BY <1>1, <1>4, <2>1, <2>2 DEF Controllers, Phases, Alerts
  <2> QED BY <2>1, <2>3
<1>7. ws \in Sockets \cup {None} /\ sock \in [Sockets -> SocketStates]
  BY <1>1 DEF TypeOK
<1>8. /\ sock' \in [Sockets -> SocketStates]
      /\ \A t \in Sockets :
           /\ sock'[t].run = sock[t].run /\ sock'[t].attempt = sock[t].attempt
           /\ sock'[t].hello = sock[t].hello /\ sock'[t].received = sock[t].received
           /\ sock'[t].net \in Up => sock[t].net \in Up /\ t # ws
           /\ sock[t].net \notin Up => sock'[t] = sock[t]
           /\ sock[t].net # "unused" => sock'[t].net # "unused"
  <2>1. CASE ws = None
    BY <1>7, <2>1, NoneApart DEF Stop
  <2>2. CASE ws # None
    <3>1. ws \in Sockets /\ sock[ws] \in SocketStates
      BY <1>7, <2>2
    <3>2. PICK net : net = IF sock[ws].net \in Up THEN "closed" ELSE sock[ws].net
      OBVIOUS
    <3>3. /\ net \in {"unused", "opening", "open", "failed", "cancelled", "closed"} /\ net \notin Up
          /\ sock[ws].net \notin Up => net = sock[ws].net
          /\ sock[ws].net # "unused" => net # "unused"
      BY <3>1, <3>2 DEF SocketStates, Up
    <3>4. PICK y \in SocketStates : y = [sock[ws] EXCEPT !.net = net]
      BY <3>1, <3>3 DEF SocketStates
    <3>5. /\ y.run = sock[ws].run /\ y.attempt = sock[ws].attempt
          /\ y.hello = sock[ws].hello /\ y.received = sock[ws].received /\ y.net = net
          /\ net = sock[ws].net => y = sock[ws]
      BY <3>1, <3>4 DEF SocketStates
    <3>6. sock' = [sock EXCEPT ![ws] = y]
      BY <1>7, <2>2, <3>1, <3>2, <3>4 DEF Stop, Up
    <3>7. sock'[ws] = y /\ \A t \in Sockets : t # ws => sock'[t] = sock[t]
      BY <1>7, <3>1, <3>6
    <3> QED BY <1>7, <3>1, <3>3, <3>5, <3>6, <3>7
  <2> QED BY <2>1, <2>2
<1>9. /\ cap' \in [Runs -> Captures]
      /\ \A q \in Runs : cap'[q].pc = cap[q].pc /\ cap'[q].frame = cap[q].frame
      /\ \A q \in Runs : q > ctl.run => cap'[q] = cap[q]
  <2>0. cap \in [Runs -> Captures]
    BY <1>1 DEF TypeOK
  <2>1. CASE job = None
    BY <2>0, <2>1 DEF Stop
  <2>2. CASE job # None
    <3>1. job \in Runs /\ job <= ctl.run /\ job \in Nat
      BY <1>1, <2>2 DEF TypeOK, PhaseInv, Runs
    <3>2. PICK c \in Captures : c = [cap[job] EXCEPT !.cancelled = TRUE]
      BY <2>0, <3>1 DEF Captures
    <3>3. c.pc = cap[job].pc /\ c.frame = cap[job].frame
      BY <2>0, <3>1, <3>2 DEF Captures
    <3>4. cap' = [cap EXCEPT ![job] = c]
      BY <2>0, <2>2, <3>1, <3>2 DEF Stop
    <3>5. \A q \in Runs : q > ctl.run => q # job
      BY <1>4, <3>1 DEF Runs
    <3> QED BY <2>0, <3>1, <3>3, <3>4, <3>5
  <2> QED BY <2>1, <2>2
<1>10. TypeOK'
  BY <1>1, <1>2, <1>3, <1>6, <1>8, <1>9 DEF TypeOK, Alerts
<1>11. SocketsGrow
  <2>1. \A t \in 1 .. used : t \in Sockets
    BY <1>1, CaptureAssumption DEF TypeOK, Sockets
  <2>2. \A t \in 1 .. used : sock[t].received \in Nat
    BY <1>1, <2>1, SocketTypes
  <2>3. used <= used'
    BY <1>1, <1>3, ControllerTypes
  <2> QED BY <1>8, <2>1, <2>2, <2>3 DEF SocketsGrow
<1>12. \A t \in Sockets : SockInv(t)'
  <2> TAKE t \in Sockets
  <2>1. SockInv(t) /\ used \in Nat /\ t \in Nat
    BY <1>1, SocketTypes DEF CaptureInv
  <2>2. t > used => sock'[t] = NoSocket
    BY <1>8, <2>1 DEF SockInv, NoSocket, Up
  <2>3. t <= used => sock'[t].run >= 1 /\ sock'[t].attempt >= 1 /\ sock'[t].net # "unused"
    BY <1>8, <2>1 DEF SockInv
  <2>4. sock'[t].received > 0 => sock'[t].hello
    BY <1>8, <2>1 DEF SockInv
  <2>5. sock'[t].net \notin Up
    BY <1>8, <2>1 DEF SockInv
  <2> QED BY <1>3, <2>2, <2>3, <2>4, <2>5 DEF SockInv, NoSocket
<1>13. \A q \in Runs : CapInv(q)'
  <2> TAKE q \in Runs
  <2>1. CapInv(q) /\ cap[q] \in Captures /\ q \in Nat
    BY <1>1, CaptureTypes DEF CaptureInv
  <2>2. PICK k \in Captures : k = cap[q] /\ FrameInv(k)
    BY <2>1, CapParts
  <2>3. FrameInv(k)'
    BY <1>1, <1>10, <1>11, <2>2, FrameStays
  <2>4. FrameInv(cap[q])'
    BY <1>9, <2>2, <2>3 DEF FrameInv
  <2>5. ActiveInv(q)'
    BY <1>6 DEF ActiveInv
  <2>6. (q > ctl.run => cap[q] = NoCapture)'
    BY <1>4, <1>6, <1>9, <2>1 DEF CapInv, NoCapture
  <2> QED BY <2>4, <2>5, <2>6 DEF CapInv, FrameInv, ActiveInv
<1>14. QueueInv'
  <2>1. events' = events /\ ctl'.run = ctl.run + 1
    BY <1>3, <1>6 DEF n
  <2> QED BY <1>1, <1>2, <1>10, <1>11, <2>1, QueueTaken
<1>15. PhaseInv'
  <2>1. 0 <= used'
    BY <1>1, <1>3, ControllerTypes
  <2> QED BY <1>3, <1>6, <2>1 DEF PhaseInv, OpenPhases, Dialing
<1>16. MovesOn'
  BY <1>6 DEF MovesOn
<1> QED BY <1>10, <1>12, <1>13, <1>14, <1>15, <1>16 DEF CaptureInv

LEMMA CaptureFailedKeeps ==
  ASSUME CaptureInv, CaptureFailed
  PROVE  CaptureInv'
<1>1. TypeOK /\ PhaseInv /\ QueueInv /\ ctl \in Controllers
  BY ControllerTypes DEF CaptureInv
<1>2. main # <<>> /\ main' = Tail(main) /\ main' \in Seq(Events) /\ Head(main).kind = "captureFailed"
  BY <1>1, HandledQueue DEF CaptureFailed
<1>3. UNCHANGED <<job, cap, timers, used, events>>
  BY DEF CaptureFailed
<1>4. CASE ~IsCurrentRun(Head(main).run)
  <2>1. UNCHANGED <<ctl, url, ws, sock, shown, ui>> /\ timers' \subseteq Timers
    BY <1>1, <1>3, <1>4 DEF CaptureFailed, TypeOK
  <2>2. CASE ctl.active
    <3>1. Head(main).run # ctl.run
      BY <1>4, <2>2 DEF IsCurrentRun
    <3>2. Head(main) # [kind |-> "captureFailed", run |-> ctl.run]
      BY <3>1
    <3> QED BY <1>2, <1>3, <2>1, <3>2, IdleKeeps DEF DeadlineStays, service
  <2>3. CASE ~ctl.active
    <3>1. TypeOK'
      BY <1>1, <1>2, <1>3, <2>1 DEF TypeOK
    <3>2. SocketsGrow /\ SameEnds
      BY <1>1, <1>3, <2>1, SameSocketsGrow DEF SameEnds
    <3>3. \A r \in Runs : CapInv(r)'
      BY <1>1, <1>3, <2>1, <3>1, <3>2, CapsStay DEF CaptureInv
    <3>4. QueueInv'
      BY <1>1, <1>2, <1>3, <2>1, <3>1, <3>2, QueueTaken
    <3>5. PhaseInv'
      BY <1>1, <1>3, <2>1, <3>1, <3>2, PhaseStays
    <3>6. MovesOn'
      BY <2>1, <2>3 DEF MovesOn
    <3> QED BY <1>3, <2>1, <3>1, <3>3, <3>4, <3>5, <3>6, SocketsStay DEF CaptureInv
  <2> QED BY <2>2, <2>3
<1>5. CASE IsCurrentRun(Head(main).run)
  <2>1. /\ ctl' = [ctl EXCEPT !.active = FALSE, !.phase = "CAPTURE_STOPPED", !.alert = "stopped"]
        /\ url' = FALSE /\ ws' = None /\ sock' = Retired(ws) /\ shown' = "stopped" /\ ui' = "ERROR"
    BY <1>5 DEF CaptureFailed
  <2>2. /\ ctl' \in Controllers /\ ctl'.run = ctl.run /\ ctl'.attempt = ctl.attempt /\ ~ctl'.active
        /\ ctl'.phase = "CAPTURE_STOPPED" /\ ctl'.alert = "stopped"
    BY <1>1, <2>1 DEF Controllers, Phases, Alerts
  <2>3. PICK w \in Sockets \cup {None} : w = ws /\ sock' = Retired(w)
    BY <1>1, <2>1 DEF TypeOK
  <2>4. sock' \in [Sockets -> SocketStates]
    BY <1>1, <2>3, RetiredSockets
  <2>5. TypeOK'
    BY <1>1, <1>2, <1>3, <2>1, <2>2, <2>4 DEF TypeOK, Alerts
  <2>6. SocketsGrow
    BY <1>1, <1>3, <2>3, RetiredGrows
  <2>7. \A t \in Sockets : SockInv(t)'
    <3> TAKE t \in Sockets
    <3>1. SockInv(t) /\ used \in Nat /\ t \in Nat
      BY <1>1, SocketTypes DEF CaptureInv
    <3>2. t > used => sock'[t] = NoSocket
      BY <1>1, <2>3, <3>1, RetiredSockets DEF SockInv, NoSocket, Up
    <3>3. t <= used => sock'[t].run >= 1 /\ sock'[t].attempt >= 1 /\ sock'[t].net # "unused"
      BY <1>1, <2>3, <3>1, RetiredSockets DEF SockInv
    <3>4. sock'[t].received > 0 => sock'[t].hello
      BY <1>1, <2>3, <3>1, RetiredSockets DEF SockInv
    <3>5. sock'[t].net \notin Up
      BY <1>1, <2>3, <3>1, RetiredSockets DEF SockInv
    <3> QED BY <1>3, <3>2, <3>3, <3>4, <3>5 DEF SockInv, NoSocket
  <2>8. \A r \in Runs : CapInv(r)'
    BY <1>1, <1>3, <2>2, <2>5, <2>6, CapsStay DEF CaptureInv
  <2>9. QueueInv'
    BY <1>1, <1>2, <1>3, <2>2, <2>5, <2>6, QueueTaken
  <2>10. PhaseInv'
    BY <1>1, <1>3, <2>1, <2>2, NoneApart DEF PhaseInv, OpenPhases, Dialing
  <2>11. MovesOn'
    BY <2>2 DEF MovesOn
  <2> QED BY <2>5, <2>7, <2>8, <2>9, <2>10, <2>11 DEF CaptureInv
<1> QED BY <1>4, <1>5

-----------------------------------------------------------------------------
(* The invariant, and what it gives *)

LEMMA CaptureInit ==
  ASSUME Init
  PROVE  CaptureInv
<1>1. /\ ctl.run = 0 /\ ctl.attempt = 0 /\ ctl.active = FALSE /\ ctl.phase = "IDLE" /\ ctl.alert = "none"
      /\ ctl.confirmed = 0 /\ ctl \in Controllers
  <2>1. PICK o : o = FALSE /\ o \in BOOLEAN
    OBVIOUS
  <2>2. 0 \in 0 .. MaxEvents /\ 0 \in 0 .. MaxSockets /\ 0 \in 0 .. MaxFrames
    BY CaptureAssumption
  <2>3. ctl = [run |-> 0, attempt |-> 0, active |-> o, phase |-> "IDLE", alert |-> "none",
               ackSupported |-> o, opened |-> "no", acked |-> "no", confirmed |-> 0]
    BY <2>1 DEF Init
  <2> QED BY <2>1, <2>2, <2>3 DEF Controllers, Phases, Alerts
<1>2. PICK o : o = FALSE /\ o \in BOOLEAN
  OBVIOUS
<1>3. \A s \in Sockets : sock[s] = NoSocket
  BY DEF Init, NoSocket
<1>4. sock \in [Sockets -> SocketStates]
  <2>1. NoSocket \in SocketStates
    <3>1. 0 \in 0 .. MaxEvents /\ 0 \in 0 .. MaxSockets /\ 0 \in 0 .. MaxFrames
      BY CaptureAssumption
    <3>2. NoSocket = [run |-> 0, attempt |-> 0, hello |-> o, answered |-> o, received |-> 0, acked |-> 0,
                      net |-> "unused"]
      BY <1>2 DEF NoSocket
    <3> QED BY <1>2, <3>1, <3>2 DEF SocketStates
  <2>2. sock = [s \in Sockets |-> NoSocket]
    BY DEF Init, NoSocket
  <2> QED BY <2>1, <2>2
<1>5. cap \in [Runs -> Captures] /\ \A r \in Runs : cap[r] = NoCapture
  <2>1. NoCapture \in Captures
    <3>1. NoCapture = [pc |-> "none", cancelled |-> o, frame |-> None]
      BY <1>2 DEF NoCapture
    <3> QED BY <1>2, <3>1 DEF Captures
  <2>2. cap = [r \in Runs |-> NoCapture]
    BY DEF Init, NoCapture
  <2> QED BY <2>1, <2>2
<1>6. /\ main = <<>> /\ main \in Seq(Events) /\ Len(main) = 0 /\ timers = {} /\ used = 0 /\ events = 0
      /\ ws = None /\ url = FALSE /\ ui = "IDLE" /\ shown = "none" /\ job = None
  BY DEF Init
<1>7. TypeOK
  <2>1. 0 \in 0 .. MaxEvents /\ 0 \in 0 .. MaxSockets
    BY CaptureAssumption
  <2> QED BY <1>1, <1>4, <1>5, <1>6, <2>1 DEF TypeOK, Alerts
<1>8. \A s \in Sockets : SockInv(s)
  <2> TAKE s \in Sockets
  <2>1. sock[s].received = 0 /\ sock[s].net = "unused" /\ s \in Nat /\ s >= 1
    BY <1>3, CaptureAssumption DEF NoSocket, Sockets
  <2> QED BY <1>3, <1>6, <2>1 DEF SockInv, Up
<1>9. \A r \in Runs : CapInv(r)
  <2> TAKE r \in Runs
  <2>1. cap[r].pc = "none" /\ cap[r].frame = None
    BY <1>5 DEF NoCapture
  <2> QED BY <1>1, <1>5, <2>1 DEF CapInv
<1>10. QueueInv
  <2>1. Waiting = {}
    BY <1>6 DEF Waiting
  <2>2. Cardinality(Waiting) = 0
    BY <2>1, FS_EmptySet
  <2> QED BY <1>1, <1>6, <2>2 DEF QueueInv
<1>11. PhaseInv
  BY <1>1, <1>6 DEF PhaseInv, OpenPhases, Dialing
<1>12. MovesOn
  BY <1>1 DEF MovesOn
<1> QED BY <1>7, <1>8, <1>9, <1>10, <1>11, <1>12 DEF CaptureInv

LEMMA CaptureNext ==
  ASSUME CaptureInv, [Next]_vars
  PROVE  CaptureInv'
<1>1. CASE UNCHANGED vars
  <2>1. timers' \subseteq Timers
    BY <1>1 DEF vars, CaptureInv, TypeOK
  <2> QED BY <1>1, <2>1, IdleKeeps DEF vars, service, DeadlineStays
<1>2. CASE MainStep
  BY <1>2, StartKeeps, StopKeeps, CaptureFailedKeeps, SocketOpenedKeeps, GotHelloKeeps, GotAckKeeps,
     SocketDownKeeps DEF MainStep
<1>3. CASE Deadline
  BY <1>3, HandshakeTimeoutKeeps, ReceiptTickKeeps, ReconnectDueKeeps DEF Deadline
<1>4. CASE CaptureStep
  BY <1>4, FirstOpenKeeps, EndCaptureKeeps, MicFailsKeeps, LimitReachedKeeps, TakeFrameKeeps,
     AskCanSendKeeps, SendFrameKeeps, ReportRefusedKeeps DEF CaptureStep
<1>5. CASE BridgeStep
  BY <1>5, NetOpensKeeps, NetEndsKeeps, BridgeHelloKeeps, BridgeAckKeeps DEF BridgeStep
<1>6. CASE TimePasses
  BY <1>6, TimePassesKeeps
<1>7. CASE Click("start") \/ Click("stop")
  BY <1>7, ClickKeeps
<1> QED BY <1>1, <1>2, <1>3, <1>4, <1>5, <1>6, <1>7 DEF Next

(***************************************************************************)
(* The invariant of the live stream: it holds however clicks, the          *)
(* microphone thread, OkHttp's callbacks and the deadlines interleave      *)
(* around CaptureDeliveryController.                                       *)
(***************************************************************************)
THEOREM CaptureInvariant == Spec => []CaptureInv
<1>1. Init => CaptureInv
  BY CaptureInit
<1>2. CaptureInv /\ [Next]_vars => CaptureInv'
  BY CaptureNext
<1> QED BY <1>1, <1>2, PTL DEF Spec

(***************************************************************************)
(* Audio reaches one bridge socket at a time, and none before the hello    *)
(* that asks for receipts (MicStreamService.kt, openSocket and the capture *)
(* loop), whatever is cancelled or reconnected between the microphone's    *)
(* fetching the socket and its asking canSend.                             *)
(***************************************************************************)
THEOREM StreamInOrder == Spec => []SentInOrder
<1>1. CaptureInv => SentInOrder
  <2>1. SUFFICES ASSUME CaptureInv PROVE SentInOrder
    OBVIOUS
  <2>2. OneStream
    BY <2>1 DEF CaptureInv, SockInv, OneStream, Up
  <2>3. HelloFirst
    BY <2>1 DEF CaptureInv, SockInv, HelloFirst
  <2> QED BY <2>2, <2>3 DEF SentInOrder
<1> QED BY <1>1, CaptureInvariant, PTL

(***************************************************************************)
(* What the user is shown is true: "Live" only on the current socket's own *)
(* receipts, and a failure notification exactly while the failure lasts    *)
(* (CaptureDeliveryController.kt, deliveryRestoredUpdate).                 *)
(***************************************************************************)
THEOREM ShownTrue == Spec => []ShownIsTrue
<1>1. CaptureInv => ShownIsTrue
  <2>1. SUFFICES ASSUME CaptureInv PROVE ShownIsTrue
    OBVIOUS
  <2>2. TypeOK /\ PhaseInv
    BY <2>1 DEF CaptureInv
  <2>3. ui = "LIVE" => ctl.active /\ ctl.phase = "HEALTHY"
    BY <2>2 DEF PhaseInv, OpenPhases
  <2>4. ASSUME ctl.phase = "HEALTHY"
        PROVE  ws # None /\ sock[ws].run = ctl.run /\ ctl.confirmed \in 1 .. sock[ws].received
    <3>1. Current /\ ctl.confirmed <= sock[ws].received /\ ctl.confirmed >= 1
      BY <2>2, <2>4 DEF PhaseInv, OpenPhases
    <3>2. ws \in Sockets
      BY <2>2, <3>1 DEF TypeOK, Current
    <3> QED BY <2>2, <3>1, <3>2, SocketTypes, ControllerTypes DEF Current
  <2>5. AlertTells
    BY <2>2 DEF PhaseInv, AlertTells
  <2> QED BY <2>2, <2>3, <2>4, <2>5 DEF ShownIsTrue, LiveIsProven
<1> QED BY <1>1, CaptureInvariant, PTL

(***************************************************************************)
(* No phase hangs: while a run is active, the deadline its phase waits for *)
(* is set, or its first socket or its failure is still to come             *)
(* (MicStreamService.kt, the handshake, receipt and reconnect timers).     *)
(***************************************************************************)
THEOREM PhasesMoveOn == Spec => []NeverStuck
<1>1. CaptureInv => NeverStuck
  <2>1. SUFFICES ASSUME CaptureInv, ctl.active PROVE NeverStuck
    BY DEF NeverStuck
  <2>2. MovesOn /\ PhaseInv /\ main \in Seq(Events)
    BY <2>1 DEF CaptureInv, TypeOK
  <2>3. FailureWaits => [kind |-> "captureFailed", run |-> ctl.run] \in {main[i] : i \in DOMAIN main}
    BY <2>2 DEF FailureWaits
  <2>4. ctl.phase \in OpenPhases => ws # None
    BY <2>2 DEF PhaseInv, Current
  <2> QED BY <2>1, <2>2, <2>3, <2>4 DEF MovesOn, NeverStuck, Current, Handshake
<1> QED BY <1>1, CaptureInvariant, PTL
=============================================================================
