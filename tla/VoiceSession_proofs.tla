-------------------------- MODULE VoiceSession_proofs --------------------------
(***************************************************************************)
(* Proofs about VoiceSession, for any finite number of connections that a  *)
(* device makes and any number of troubles: the session that a served      *)
(* device has is whole, and a device that is there is told before the      *)
(* server closes its connection, but for the two races that TellsFirst     *)
(* names.                                                                  *)
(***************************************************************************)
EXTENDS VoiceSession, FiniteSetTheorems, TLAPS

SockStates == {"unused", "open", "halfopen", "closed", "yanked"}
ServeStates == {"none", "arrived", "evicting", "waiting", "serving", "done"}
Kinds == {"connect", "disconnect"}
Ends == Socks \cup {None}

TransportTypes ==
  /\ sock \in [Socks -> SockStates] /\ serve \in [Socks -> ServeStates]
  /\ evicted \in [Socks -> Ends] /\ inWs \in Ends /\ outWs \in Ends
  /\ told \subseteq Socks /\ hangups \subseteq Socks
  /\ events \in Seq(Kinds \X Socks)

SessionTypes ==
  /\ connecting \subseteq Socks /\ leaving \subseteq Socks \X Nat
  /\ active \in Ends /\ seq \in Nat /\ lock \in Socks \cup {None, Rotation}
  /\ openai \in {"up", "down"} /\ rotation \in {"none", "asleep", "resetting"}
  /\ idle \in [armed : BOOLEAN, closing : BOOLEAN, user : BOOLEAN, bot : BOOLEAN, pending : BOOLEAN, turn : BOOLEAN]

Types == TransportTypes /\ SessionTypes

LEMMA Numbers == None \notin Socks /\ Rotation \notin Socks /\ Rotation # None
BY SocksAssumption DEF None, Rotation

\* What the server's close does to the sockets.
LEMMA Closing ==
  ASSUME TransportTypes, NEW x \in Ends
  PROVE  LET after == ServerCloses(x)
         IN /\ after \in [Socks -> SockStates]
            /\ \A s \in Socks \ {x} : after[s] = sock[s]
            /\ x \in Socks /\ sock[x] \in {"open", "halfopen"} => after[x] \in {"closed", "yanked"}
            /\ x \in Socks /\ sock[x] \notin {"open", "halfopen"} => after[x] = sock[x]
            /\ x \in Socks /\ sock[x] = "open" /\ x \in told => after[x] = "closed"
<1>1. CASE x = None \/ sock[x] \notin {"open", "halfopen"}
  BY <1>1, Numbers DEF ServerCloses, TransportTypes
<1>2. CASE ~(x = None \/ sock[x] \notin {"open", "halfopen"})
  <2>1. x \in Socks /\ ServerCloses(x) = [sock EXCEPT ![x] = IF sock[x] = "open" /\ x \notin told THEN "yanked" ELSE "closed"]
    BY <1>2 DEF ServerCloses, Ends
  <2> QED
    BY <1>2, <2>1 DEF TransportTypes, SockStates
<1> QED
  BY <1>1, <1>2

-----------------------------------------------------------------------------
(* What each step does to the sockets and their handlers *)

\* The sockets only go down: none opens, none that is closed comes back.
Falls ==
  /\ sock' \in [Socks -> SockStates]
  /\ \A s \in Socks :
       /\ sock'[s] = "open" => sock[s] = "open"
       /\ Gone(s) => sock'[s] \in {"closed", "yanked"}
       /\ sock'[s] = "unused" <=> sock[s] = "unused"

\* The place of the input is taken by s.
Takes(s) ==
  /\ inWs = None /\ inWs' = s /\ outWs' = s /\ sock' = ServerCloses(outWs)
  /\ serve' = [serve EXCEPT ![s] = "serving"] /\ events' = Append(events, <<"connect", s>>)

\* The place was taken meanwhile: s is closed.
Refuses(s) ==
  /\ inWs # None /\ sock' = ServerCloses(s) /\ serve' = [serve EXCEPT ![s] = "done"]
  /\ UNCHANGED <<inWs, outWs, events>>

\* s takes the input's connection out of its place.
Evicts(s) ==
  /\ inWs # None /\ inWs' = None /\ evicted' = [evicted EXCEPT ![s] = inWs]
  /\ serve' = [serve EXCEPT ![s] = "evicting"] /\ UNCHANGED <<sock, outWs, events>>

Rests == UNCHANGED <<sessionVars, idle, troubles, failed, told>>

LEMMA ArriveDoes ==
  ASSUME NEW s \in Socks, Arrive(s)
  PROVE  /\ serve[s] = "arrived" /\ Rests /\ UNCHANGED hangups
         /\ (Takes(s) /\ UNCHANGED evicted) \/ Evicts(s)
BY DEF Arrive, Taken, Takes, Evicts, Rests

LEMMA EvictionOverDoes ==
  ASSUME NEW s \in Socks, EvictionOver(s)
  PROVE  /\ serve[s] = "waiting" /\ serve[evicted[s]] = "done" /\ Rests
         /\ UNCHANGED <<hangups, evicted>>
         /\ Takes(s) \/ Refuses(s)
BY DEF EvictionOver, TeardownOver, Taken, Takes, Refuses, Rests

LEMMA ClosingFalls ==
  ASSUME TransportTypes, NEW x \in Ends, sock' = ServerCloses(x)
  PROVE  Falls
BY Closing DEF Falls, Gone

\* A step of the device or of the transport.
TransportStep ==
  \E s \in Socks :
    \/ DeviceConnects(s) \/ DeviceVanishes(s) \/ DeviceCloses(s)
    \/ Arrive(s) \/ EvictedCloses(s) \/ EvictionOver(s) \/ Teardown(s) \/ HangupCloses(s)

LEMMA TransportTyped ==
  ASSUME Types, TransportStep
  PROVE  Types'
<1>1. PICK s \in Socks :
        \/ DeviceConnects(s) \/ DeviceVanishes(s) \/ DeviceCloses(s)
        \/ Arrive(s) \/ EvictedCloses(s) \/ EvictionOver(s) \/ Teardown(s) \/ HangupCloses(s)
  BY DEF TransportStep
<1>2. UNCHANGED <<sessionVars, idle>> => SessionTypes'
  BY DEF Types, SessionTypes, sessionVars
<1>3. UNCHANGED <<sessionVars, idle>>
  BY <1>1, ArriveDoes, EvictionOverDoes
     DEF DeviceConnects, DeviceVanishes, DeviceCloses, EvictedCloses, Teardown, HangupCloses, Rests
<1> USE DEF Types
<1>4. CASE DeviceConnects(s) \/ DeviceVanishes(s) \/ DeviceCloses(s)
  BY <1>2, <1>3, <1>4 DEF DeviceConnects, DeviceVanishes, DeviceCloses, TransportTypes, SockStates, ServeStates
<1>5. \A k \in Kinds : Append(events, <<k, s>>) \in Seq(Kinds \X Socks)
  BY DEF TransportTypes
<1>6. ASSUME Takes(s), UNCHANGED <<told, hangups, evicted>>
      PROVE  TransportTypes'
  <2>1. ServerCloses(outWs) \in [Socks -> SockStates]
    BY Closing DEF TransportTypes
  <2> QED
    BY <1>5, <1>6, <2>1 DEF Takes, TransportTypes, ServeStates, Kinds, Ends
<1>7. ASSUME Refuses(s), UNCHANGED <<told, hangups, evicted>>
      PROVE  TransportTypes'
  <2>1. ServerCloses(s) \in [Socks -> SockStates]
    BY Closing DEF Ends
  <2> QED
    BY <1>7, <2>1 DEF Refuses, TransportTypes, ServeStates
<1>8. ASSUME Evicts(s), UNCHANGED <<told, hangups>>
      PROVE  TransportTypes'
  BY <1>8 DEF Evicts, TransportTypes, ServeStates, Ends
<1>9. CASE Arrive(s) \/ EvictionOver(s)
  BY <1>2, <1>3, <1>6, <1>7, <1>8, <1>9, ArriveDoes, EvictionOverDoes DEF Rests
<1>10. CASE EvictedCloses(s)
  <2>1. ServerCloses(evicted[s]) \in [Socks -> SockStates]
    BY Closing DEF TransportTypes
  <2> QED
    BY <1>2, <1>3, <1>10, <2>1 DEF EvictedCloses, TransportTypes, ServeStates
<1>11. CASE Teardown(s)
  <2>1. ServerCloses(outWs) \in [Socks -> SockStates]
    BY Closing DEF TransportTypes
  <2> QED
    BY <1>2, <1>3, <1>5, <1>11, <2>1 DEF Teardown, TransportTypes, ServeStates, Kinds, Ends
<1>12. CASE HangupCloses(s)
  <2>1. ServerCloses(s) \in [Socks -> SockStates]
    BY Closing DEF Ends
  <2> QED
    BY <1>2, <1>3, <1>12, <2>1 DEF HangupCloses, TransportTypes
<1> QED
  BY <1>1, <1>4, <1>9, <1>10, <1>11, <1>12

-----------------------------------------------------------------------------
(* The places: who holds the input and the output, who waits for whom *)
Waits(s) == serve[s] \in {"evicting", "waiting"}
Over(s) == serve[s] \in {"serving", "done"}

\* A connection that is done is closed; only one not made yet is unused.
SockInv ==
  \A s \in Socks : (serve[s] = "none" <=> sock[s] = "unused") /\ (serve[s] = "done" => Gone(s))

\* Whom a connection evicted: an earlier one whose device is no longer there.
EvictInv ==
  \A s \in Socks :
    /\ serve[s] \in {"none", "arrived"} => evicted[s] = None
    /\ Waits(s) => evicted[s] # None
    /\ evicted[s] # None => evicted[s] # s /\ sock[evicted[s]] # "open" /\ Over(evicted[s])
    /\ serve[s] = "waiting" => Gone(evicted[s])

\* The device opens a connection when it has no other and none is on its way.
OneOpen ==
  \A s \in Socks :
    /\ serve[s] = "arrived" => \A o \in Socks \ {s} : sock[o] # "open" /\ serve[o] # "arrived"
    /\ sock[s] = "open" => \A o \in Socks \ {s} : sock[o] # "open"

\* A served connection without the place was evicted from it.  One that is open has the
\* place, or waits for it, and then only one that waited too may have it.
PlaceInv ==
  \A s \in Socks :
    /\ serve[s] = "serving" /\ inWs # s => \E o \in Socks : Waits(o) /\ evicted[o] = s
    /\ sock[s] = "open" /\ serve[s] = "serving" => inWs = s
    /\ sock[s] = "open" /\ Waits(s) /\ inWs # None => evicted[inWs] # None
    /\ inWs = s => serve[s] = "serving" /\ (outWs = s \/ Gone(s))

OutInv ==
  /\ outWs # None => Over(outWs)
  /\ active # None => Over(active)
  /\ hangups \subseteq told

SocketInv == SockInv /\ EvictInv /\ OneOpen /\ PlaceInv /\ OutInv

LEMMA ConnectsKeeps ==
  ASSUME Types, SocketInv, NEW s \in Socks, DeviceConnects(s)
  PROVE  SocketInv'
<1> USE DEF Types, TransportTypes, SocketInv
<1>1. /\ sock[s] = "unused" /\ serve[s] = "none"
      /\ \A o \in Socks : sock[o] # "open" /\ serve[o] # "arrived"
      /\ sock'[s] = "open" /\ serve'[s] = "arrived"
      /\ \A o \in Socks \ {s} : sock'[o] = sock[o] /\ serve'[o] = serve[o]
      /\ UNCHANGED <<told, evicted, inWs, outWs, hangups, active>>
  BY DEF DeviceConnects, SockInv, sessionVars
<1>2. \A o \in Socks : evicted[o] # s
  BY <1>1, Numbers DEF EvictInv, Over
<1>3. SockInv'
  BY <1>1 DEF SockInv, Gone
<1>4. EvictInv'
  BY <1>1, <1>2 DEF EvictInv, Waits, Over, Gone, Ends
<1>5. OneOpen'
  BY <1>1 DEF OneOpen
<1>6. inWs # s /\ outWs # s /\ active # s
  BY <1>1, Numbers DEF PlaceInv, OutInv, Over
<1>7. PlaceInv'
  BY <1>1, <1>6 DEF PlaceInv, Waits, Gone
<1>8. OutInv'
  BY <1>1, <1>6 DEF OutInv, Over, Types, SessionTypes, Ends
<1> QED
  BY <1>3, <1>4, <1>5, <1>7, <1>8

\* A step in which sockets only fall.
LEMMA FallsKeeps ==
  ASSUME Types, SocketInv, Falls, hangups' \subseteq told',
         UNCHANGED <<serve, evicted, inWs, outWs, active>>
  PROVE  SocketInv'
<1> USE DEF Types, TransportTypes, SocketInv
<1>1. SockInv'
  BY DEF SockInv, Falls, Gone
<1>2. EvictInv'
  BY DEF EvictInv, Falls, Gone, Over, Waits, Ends
<1>3. OneOpen'
  BY DEF OneOpen, Falls
<1>4. PlaceInv'
  BY DEF PlaceInv, Falls, Gone, Waits
<1>5. OutInv'
  BY DEF OutInv, Over
<1> QED
  BY <1>1, <1>2, <1>3, <1>4, <1>5

LEMMA TakesKeeps ==
  ASSUME Types, SocketInv, NEW s \in Socks, Takes(s), UNCHANGED <<evicted, hangups, told, active>>,
         serve[s] = "arrived" \/ (serve[s] = "waiting" /\ serve[evicted[s]] = "done")
  PROVE  SocketInv'
<1> USE DEF Types, TransportTypes, SocketInv
<1>1. Falls
  BY ClosingFalls DEF Takes
<1>2. /\ serve'[s] = "serving" /\ \A o \in Socks \ {s} : serve'[o] = serve[o]
      /\ inWs = None /\ inWs' = s /\ outWs' = s
  BY DEF Takes
<1>3. SockInv'
  BY <1>1, <1>2 DEF SockInv, Falls, Gone
<1>4. EvictInv'
  BY <1>1, <1>2 DEF EvictInv, Falls, Gone, Over, Waits, Ends
<1>5. OneOpen'
  BY <1>1, <1>2 DEF OneOpen, Falls
<1>6. ASSUME NEW x \in Socks, serve'[x] = "serving", x # s
      PROVE  \E o \in Socks : Waits(o)' /\ evicted'[o] = x
  <2>1. PICK o \in Socks : Waits(o) /\ evicted[o] = x
    BY <1>2, <1>6, Numbers DEF PlaceInv
  <2>2. o # s
    BY <1>2, <1>6, <2>1 DEF Waits
  <2> QED
    BY <1>2, <2>1, <2>2 DEF Waits
<1>7. ASSUME NEW x \in Socks, sock'[x] = "open", serve'[x] = "serving"
      PROVE  x = s
  BY <1>1, <1>2, <1>7, Numbers DEF PlaceInv, Falls
<1>8. ASSUME NEW x \in Socks, sock'[x] = "open", Waits(x)'
      PROVE  evicted'[s] # None
  <2>1. x # s /\ sock[x] = "open"
    BY <1>1, <1>2, <1>8 DEF Waits, Falls
  <2>2. serve[s] # "arrived"
    BY <2>1 DEF OneOpen
  <2> QED
    BY <2>2 DEF EvictInv, Waits
<1>9. PlaceInv'
  BY <1>2, <1>6, <1>7, <1>8 DEF PlaceInv
<1>10. OutInv'
  BY <1>2, Numbers DEF OutInv, Over, SessionTypes, Ends
<1> QED
  BY <1>3, <1>4, <1>5, <1>9, <1>10

LEMMA RefusesKeeps ==
  ASSUME Types, SocketInv, NEW s \in Socks, Refuses(s), UNCHANGED <<evicted, hangups, told, active>>,
         serve[s] = "waiting", serve[evicted[s]] = "done"
  PROVE  SocketInv'
<1> USE DEF Types, TransportTypes, SocketInv
<1>1. Falls /\ sock'[s] \in {"closed", "yanked"}
  BY ClosingFalls, Closing DEF Refuses, Ends, SockInv, SockStates, Gone, Falls
<1>2. /\ serve'[s] = "done" /\ \A o \in Socks \ {s} : serve'[o] = serve[o]
      /\ UNCHANGED <<inWs, outWs>>
  BY DEF Refuses
<1>3. SockInv'
  BY <1>1, <1>2 DEF SockInv, Falls, Gone
<1>4. EvictInv'
  BY <1>1, <1>2 DEF EvictInv, Falls, Gone, Over, Waits, Ends
<1>5. OneOpen'
  BY <1>1, <1>2 DEF OneOpen, Falls
<1>6. ASSUME NEW x \in Socks, serve'[x] = "serving", inWs' # x
      PROVE  \E o \in Socks : Waits(o)' /\ evicted'[o] = x
  <2>1. PICK o \in Socks : Waits(o) /\ evicted[o] = x
    BY <1>2, <1>6 DEF PlaceInv
  <2>2. o # s
    BY <1>2, <1>6, <2>1 DEF Waits
  <2> QED
    BY <1>2, <2>1, <2>2 DEF Waits
<1>7. inWs # s
  BY DEF PlaceInv
<1>8. PlaceInv'
  BY <1>1, <1>2, <1>6, <1>7 DEF PlaceInv, Falls, Gone, Waits
<1>9. OutInv'
  BY <1>2, Numbers DEF OutInv, Over, SessionTypes, Ends
<1> QED
  BY <1>3, <1>4, <1>5, <1>8, <1>9

LEMMA EvictsKeeps ==
  ASSUME Types, SocketInv, NEW s \in Socks, serve[s] = "arrived", Evicts(s),
         UNCHANGED <<hangups, told, active>>
  PROVE  SocketInv'
<1> USE DEF Types, TransportTypes, SocketInv
<1>1. /\ inWs \in Socks /\ inWs' = None /\ evicted'[s] = inWs /\ serve'[s] = "evicting"
      /\ \A o \in Socks \ {s} : serve'[o] = serve[o] /\ evicted'[o] = evicted[o]
      /\ UNCHANGED <<sock, outWs>>
  BY DEF Evicts, Ends
<1>2. serve[inWs] = "serving" /\ inWs # s /\ sock[inWs] # "open"
  BY <1>1 DEF PlaceInv, OneOpen
<1>3. SockInv'
  BY <1>1 DEF SockInv, Gone
<1>4. \A o \in Socks : evicted[o] # s
  BY Numbers DEF EvictInv, Over
<1>5. EvictInv'
  <2> SUFFICES ASSUME NEW o \in Socks
               PROVE  /\ serve'[o] \in {"none", "arrived"} => evicted'[o] = None
                      /\ Waits(o)' => evicted'[o] # None
                      /\ evicted'[o] # None =>
                           evicted'[o] # o /\ sock'[evicted'[o]] # "open" /\ Over(evicted[o])'
                      /\ serve'[o] = "waiting" => Gone(evicted[o])'
    BY DEF EvictInv
  <2>1. CASE o = s
    BY <1>1, <1>2, <2>1, Numbers DEF Waits, Over
  <2>2. CASE o # s
    <3>1. serve'[o] = serve[o] /\ evicted'[o] = evicted[o]
      BY <1>1, <2>2
    <3>2. evicted[o] # None => evicted[o] \in Socks \ {s}
      BY <1>4 DEF Ends
    <3> QED
      BY <1>1, <3>1, <3>2 DEF EvictInv, Waits, Over, Gone
  <2> QED
    BY <2>1, <2>2
<1>6. OneOpen'
  BY <1>1 DEF OneOpen
<1>7. ASSUME NEW x \in Socks, serve'[x] = "serving"
      PROVE  \E o \in Socks : Waits(o)' /\ evicted'[o] = x
  <2>1. CASE x = inWs
    BY <1>1, <2>1 DEF Waits
  <2>2. CASE x # inWs
    <3>1. PICK o \in Socks : Waits(o) /\ evicted[o] = x
      BY <1>1, <1>7, <2>2 DEF PlaceInv
    <3>2. o # s
      BY <3>1 DEF Waits
    <3> QED
      BY <1>1, <3>1, <3>2 DEF Waits
  <2> QED
    BY <2>1, <2>2
<1>8. PlaceInv'
  BY <1>1, <1>2, <1>7, Numbers DEF PlaceInv
<1>9. OutInv'
  BY <1>1, Numbers DEF OutInv, Over, SessionTypes, Ends
<1> QED
  BY <1>3, <1>5, <1>6, <1>8, <1>9

LEMMA EvictedClosesKeeps ==
  ASSUME Types, SocketInv, NEW s \in Socks, EvictedCloses(s)
  PROVE  SocketInv'
<1> USE DEF Types, TransportTypes, SocketInv
<1>1. /\ serve[s] = "evicting" /\ serve'[s] = "waiting" /\ sock' = ServerCloses(evicted[s])
      /\ \A o \in Socks \ {s} : serve'[o] = serve[o]
      /\ UNCHANGED <<told, evicted, inWs, outWs, hangups, active>>
  BY DEF EvictedCloses, sessionVars
<1>2. evicted[s] \in Socks /\ evicted[s] # s /\ Over(evicted[s]) /\ sock[evicted[s]] # "open"
  BY <1>1 DEF EvictInv, Waits, Ends
<1>3. Falls /\ sock'[evicted[s]] \in {"closed", "yanked"}
  BY <1>1, <1>2, ClosingFalls, Closing DEF Ends, SockInv, SockStates, Over
<1>4. SockInv'
  BY <1>1, <1>3 DEF SockInv, Falls, Gone
<1>5. EvictInv'
  BY <1>1, <1>2, <1>3 DEF EvictInv, Falls, Gone, Over, Waits, Ends
<1>6. OneOpen'
  BY <1>1, <1>3 DEF OneOpen, Falls
<1>7. ASSUME NEW x \in Socks, serve'[x] = "serving", inWs' # x
      PROVE  \E o \in Socks : Waits(o)' /\ evicted'[o] = x
  <2>1. PICK o \in Socks : Waits(o) /\ evicted[o] = x
    BY <1>1, <1>7 DEF PlaceInv
  <2> QED
    BY <1>1, <2>1 DEF Waits
<1>8. PlaceInv'
  BY <1>1, <1>3, <1>7 DEF PlaceInv, Falls, Gone, Waits
<1>9. OutInv'
  BY <1>1, Numbers DEF OutInv, Over, SessionTypes, Ends
<1> QED
  BY <1>4, <1>5, <1>6, <1>8, <1>9

LEMMA TeardownKeeps ==
  ASSUME Types, SocketInv, NEW s \in Socks, Teardown(s)
  PROVE  SocketInv'
<1> USE DEF Types, TransportTypes, SocketInv
<1>1. /\ serve[s] = "serving" /\ Gone(s) /\ serve'[s] = "done" /\ sock' = ServerCloses(outWs)
      /\ outWs' = None /\ inWs' = IF inWs = s THEN None ELSE inWs
      /\ \A o \in Socks \ {s} : serve'[o] = serve[o]
      /\ UNCHANGED <<told, evicted, hangups, active>>
  BY DEF Teardown, sessionVars
<1>2. Falls
  BY <1>1, ClosingFalls
<1>3. SockInv'
  BY <1>1, <1>2 DEF SockInv, Falls, Gone
<1>4. EvictInv'
  BY <1>1, <1>2 DEF EvictInv, Falls, Gone, Over, Waits, Ends
<1>5. OneOpen'
  BY <1>1, <1>2 DEF OneOpen, Falls
<1>6. ASSUME NEW x \in Socks, serve'[x] = "serving", inWs' # x
      PROVE  \E o \in Socks : Waits(o)' /\ evicted'[o] = x
  <2>1. PICK o \in Socks : Waits(o) /\ evicted[o] = x
    BY <1>1, <1>6 DEF PlaceInv
  <2>2. o # s
    BY <1>1, <2>1 DEF Waits
  <2> QED
    BY <1>1, <2>1, <2>2 DEF Waits
<1>7. ASSUME NEW x \in Socks, inWs' = x
      PROVE  serve'[x] = "serving" /\ Gone(x)'
  <2>1. x # s /\ inWs = x
    BY <1>1, <1>7, Numbers
  <2>2. serve[x] = "serving" /\ (outWs = x \/ Gone(x))
    BY <2>1 DEF PlaceInv
  <2>3. CASE outWs = x
    BY <1>1, <2>1, <2>2, <2>3, Closing DEF SockInv, Gone, SockStates
  <2>4. CASE Gone(x)
    BY <1>1, <1>2, <2>1, <2>2, <2>4 DEF Falls, Gone
  <2> QED
    BY <2>2, <2>3, <2>4
<1>8. ASSUME NEW x \in Socks, sock'[x] = "open", serve'[x] = "serving"
      PROVE  inWs' = x
  <2>1. x # s /\ inWs = x
    BY <1>1, <1>2, <1>8 DEF PlaceInv, Falls
  <2> QED
    BY <1>1, <2>1
<1>9. ASSUME NEW x \in Socks, sock'[x] = "open", Waits(x)', inWs' # None
      PROVE  evicted'[inWs'] # None
  BY <1>1, <1>2, <1>9 DEF PlaceInv, Falls, Waits
<1>10. PlaceInv'
  BY <1>6, <1>7, <1>8, <1>9 DEF PlaceInv
<1>11. OutInv'
  BY <1>1, Numbers DEF OutInv, Over, SessionTypes, Ends
<1> QED
  BY <1>3, <1>4, <1>5, <1>10, <1>11

\* A step of the session: it may give the output its connection back.
LEMMA SessionKeeps ==
  ASSUME Types, SocketInv, UNCHANGED <<sock, serve, evicted, inWs>>,
         hangups' \subseteq told', active' # None => Over(active'),
         outWs' = outWs \/ (outWs = None /\ outWs' = active)
  PROVE  SocketInv'
<1> USE DEF Types, TransportTypes, SocketInv
<1>1. SockInv' /\ EvictInv' /\ OneOpen'
  BY DEF SockInv, EvictInv, OneOpen, Gone, Over, Waits
<1>2. PlaceInv'
  BY Numbers DEF PlaceInv, Gone, Waits
<1>3. OutInv'
  BY DEF OutInv, Over
<1> QED
  BY <1>1, <1>2, <1>3

LEMMA TransportKeeps ==
  ASSUME Types, SocketInv, TransportStep
  PROVE  SocketInv'
<1>1. PICK s \in Socks :
        \/ DeviceConnects(s) \/ DeviceVanishes(s) \/ DeviceCloses(s)
        \/ Arrive(s) \/ EvictedCloses(s) \/ EvictionOver(s) \/ Teardown(s) \/ HangupCloses(s)
  BY DEF TransportStep
<1>2. CASE DeviceConnects(s) \/ EvictedCloses(s) \/ Teardown(s)
  BY <1>2, ConnectsKeeps, EvictedClosesKeeps, TeardownKeeps
<1>3. CASE DeviceVanishes(s) \/ DeviceCloses(s)
  <2>1. Falls
    BY <1>3 DEF DeviceVanishes, DeviceCloses, Falls, Gone, Types, TransportTypes, SockStates
  <2>2. hangups' \subseteq told' /\ UNCHANGED <<serve, evicted, inWs, outWs, active>>
    BY <1>3 DEF DeviceVanishes, DeviceCloses, SocketInv, OutInv, sessionVars
  <2> QED
    BY <2>1, <2>2, FallsKeeps
<1>4. CASE HangupCloses(s)
  <2>1. Falls
    BY <1>4, ClosingFalls DEF HangupCloses, Types, Ends
  <2>2. hangups' \subseteq told' /\ UNCHANGED <<serve, evicted, inWs, outWs, active>>
    BY <1>4 DEF HangupCloses, SocketInv, OutInv, sessionVars
  <2> QED
    BY <2>1, <2>2, FallsKeeps
<1>5. CASE Arrive(s)
  BY <1>5, ArriveDoes, TakesKeeps, EvictsKeeps DEF Rests, sessionVars
<1>6. CASE EvictionOver(s)
  BY <1>6, EvictionOverDoes, TakesKeeps, RefusesKeeps DEF Rests, sessionVars
<1> QED
  BY <1>1, <1>2, <1>3, <1>4, <1>5, <1>6

-----------------------------------------------------------------------------
(* What each step of the session does *)

\* A step of the session that takes no event: the lock, OpenAI and the idle manager.
LockStep ==
  \/ \E s \in Socks : ConnectLocks(s) \/ ConnectEnds(s)
  \/ \E d \in leaving : DisconnectEnds(d)
  \/ Deferred \/ RotationLocks \/ RotationEnds
IdleStep ==
  \/ UserSpeaks \/ UserStops \/ Transcribed \/ ReplyPends \/ ReplyDone \/ BotSpeaks \/ BotStops
  \/ IdleFires \/ DisconnectTool
EventStep == \E s \in Socks : ConnectBegins(s) \/ DisconnectBegins(s)

LEMMA NextIs ==
  ASSUME Next
  PROVE  TransportStep \/ EventStep \/ LockStep \/ IdleStep
BY DEF Next, TransportStep, EventStep, LockStep, IdleStep, Serve, HandleEvent, ReleaseLock

\* What holds of the session between its handlers: a live connection has an idle manager
\* and OpenAI, or a connect handler that is about to give it both; the disconnect handlers
\* that wait for the lock are of connections before it.
LiveInv ==
  /\ \A d \in leaving : d[2] <= seq /\ (active # None => d[2] < seq)
  /\ active # None => seq > 0
  /\ rotation = "resetting" => lock = Rotation
  /\ active # None => idle.armed \/ connecting # {} \/ lock \in Socks
  /\ active # None /\ ~failed =>
       openai = "up" \/ connecting # {} \/ lock \in Socks \/ rotation = "resetting"

LEMMA LockDoes ==
  ASSUME Types, LiveInv, LockStep
  PROVE  UNCHANGED <<transportVars, events, active, seq>> /\ SessionTypes' /\ LiveInv'
<1> USE Numbers DEF Types, SessionTypes, LiveInv, transportVars
<1>1. ASSUME NEW s \in Socks, ConnectLocks(s)
      PROVE  UNCHANGED <<transportVars, events, active, seq>> /\ SessionTypes' /\ LiveInv'
  BY <1>1 DEF ConnectLocks
<1>2. ASSUME NEW s \in Socks, ConnectEnds(s)
      PROVE  UNCHANGED <<transportVars, events, active, seq>> /\ SessionTypes' /\ LiveInv'
  BY <1>2 DEF ConnectEnds, Fails, Fresh
<1>3. ASSUME NEW d \in leaving, DisconnectEnds(d)
      PROVE  UNCHANGED <<transportVars, events, active, seq>> /\ SessionTypes' /\ LiveInv'
  <2>1. d[2] \in Nat /\ (active # None => d[2] < seq)
    OBVIOUS
  <2>2. active # None => openai' = openai
    BY <1>3, <2>1 DEF DisconnectEnds, StillLast
  <2>3. UNCHANGED <<transportVars, events, active, seq>> /\ leaving' \subseteq leaving
        /\ openai' \in {"up", "down"} /\ UNCHANGED <<connecting, lock, rotation, idle, failed>>
    BY <1>3 DEF DisconnectEnds
  <2>4. SessionTypes'
    BY <2>3
  <2>5. LiveInv'
    BY <2>2, <2>3
  <2> QED
    BY <2>3, <2>4, <2>5
<1>4. CASE Deferred
  BY <1>4 DEF Deferred, NoClientYet
<1>5. CASE RotationLocks
  BY <1>5 DEF RotationLocks
<1>6. CASE RotationEnds
  BY <1>6 DEF RotationEnds, Fails
<1> QED
  BY <1>1, <1>2, <1>3, <1>4, <1>5, <1>6 DEF LockStep

LEMMA IdleDoes ==
  ASSUME Types, SocketInv, LiveInv, IdleStep
  PROVE  /\ UNCHANGED <<sock, serve, evicted, inWs, outWs, events, active, seq>>
         /\ told' \subseteq Socks /\ hangups' \subseteq Socks /\ hangups' \subseteq told'
         /\ SessionTypes' /\ LiveInv'
<1> USE DEF Types, SessionTypes, TransportTypes, SocketInv, OutInv
<1>1. /\ UNCHANGED <<sock, serve, evicted, inWs, outWs, events, sessionVars, failed>>
      /\ idle' \in [armed : BOOLEAN, closing : BOOLEAN, user : BOOLEAN, bot : BOOLEAN, pending : BOOLEAN, turn : BOOLEAN]
      /\ idle'.armed = idle.armed
      /\ UNCHANGED <<told, hangups>>
           \/ (inWs # None /\ told' = told \cup {inWs} /\ hangups' = hangups \cup {inWs})
  <2>1. CASE UserSpeaks \/ UserStops \/ BotSpeaks \/ BotStops \/ Transcribed \/ ReplyPends \/ ReplyDone
    BY <2>1 DEF UserSpeaks, UserStops, BotSpeaks, BotStops, Transcribed, ReplyPends, ReplyDone, Told, transportVars
  <2>2. CASE IdleFires \/ DisconnectTool
    BY <2>2 DEF IdleFires, DisconnectTool, Hangup
  <2> QED
    BY <2>1, <2>2 DEF IdleStep
<1>2. SessionTypes' /\ LiveInv'
  BY <1>1 DEF sessionVars, LiveInv
<1>3. told' \subseteq Socks /\ hangups' \subseteq Socks /\ hangups' \subseteq told'
  BY <1>1 DEF Ends
<1> QED
  BY <1>1, <1>2, <1>3 DEF sessionVars

LEMMA EventDoes ==
  ASSUME Types, LiveInv, EventStep
  PROVE  /\ UNCHANGED <<sock, told, serve, evicted, inWs, hangups>>
         /\ events # <<>> /\ events' = Tail(events) /\ Head(events)[2] \in Socks
         /\ LET s == Head(events)[2]
            IN \/ /\ Head(events) = <<"connect", s>> /\ active' = s /\ seq' \in {seq, seq + 1}
                  /\ outWs' = outWs
               \/ /\ Head(events) = <<"disconnect", s>> /\ seq' = seq
                  /\ \/ active \notin {None, s} /\ active' = active
                     \/ active \in {None, s} /\ active' = None
                  /\ outWs' = outWs \/ (outWs = None /\ outWs' = active)
         /\ SessionTypes' /\ LiveInv'
<1> USE Numbers DEF Types, SessionTypes, LiveInv, transportVars, Raised
<1>1. ASSUME NEW s \in Socks, ConnectBegins(s)
      PROVE  /\ events # <<>> /\ events' = Tail(events) /\ Head(events) = <<"connect", s>>
             /\ UNCHANGED transportVars /\ active' = s /\ seq' \in {seq, seq + 1}
             /\ SessionTypes' /\ LiveInv'
  <2>1. UNCHANGED <<transportVars, leaving, lock, openai, rotation, deferral, idle, troubles, failed>>
        /\ active' = s /\ Raised("connect", s)
    BY <1>1 DEF ConnectBegins
  <2>2. CASE active \notin {None, s}
    BY <1>1, <2>1, <2>2 DEF ConnectBegins, Ends
  <2>3. CASE active \in {None, s}
    BY <1>1, <2>1, <2>3 DEF ConnectBegins, Ends
  <2> QED
    BY <2>2, <2>3
<1>2. ASSUME NEW s \in Socks, DisconnectBegins(s)
      PROVE  /\ events # <<>> /\ events' = Tail(events) /\ Head(events) = <<"disconnect", s>>
             /\ UNCHANGED <<sock, told, serve, evicted, inWs, hangups, seq>>
             /\ \/ active \notin {None, s} /\ active' = active
                \/ active \in {None, s} /\ active' = None
             /\ outWs' = outWs \/ (outWs = None /\ outWs' = active)
             /\ SessionTypes' /\ LiveInv'
  <2>1. /\ UNCHANGED <<sock, told, serve, evicted, inWs, hangups, connecting, seq, openai, failed>>
        /\ Raised("disconnect", s)
    BY <1>2 DEF DisconnectBegins
  <2>2. CASE active \notin {None, s}
    BY <1>2, <2>1, <2>2 DEF DisconnectBegins, RestoreOutput
  <2>3. CASE active \in {None, s}
    <3>1. /\ active' = None /\ rotation' = "none" /\ lock' \in {lock, None}
          /\ idle' = [idle EXCEPT !.armed = FALSE] /\ leaving' = leaving \cup {<<s, seq>>} /\ outWs' = outWs
      BY <1>2, <2>3 DEF DisconnectBegins
    <3>2. \A d \in leaving' : d \in Socks \X Nat /\ d[2] <= seq
      BY <3>1
    <3>3. SessionTypes'
      BY <2>1, <3>1, <3>2 DEF Ends
    <3>4. LiveInv'
      BY <2>1, <3>1, <3>2
    <3> QED
      BY <2>1, <2>3, <3>1, <3>3, <3>4
  <2> QED
    BY <2>2, <2>3
<1> QED
  BY <1>1, <1>2 DEF EventStep

-----------------------------------------------------------------------------
(* The events that are still to come *)

LEMMA Tails ==
  ASSUME TransportTypes, events # <<>>, events' = Tail(events)
  PROVE  /\ events' \in Seq(Kinds \X Socks) /\ Len(events) \in Nat /\ Len(events') = Len(events) - 1
         /\ \A i \in 1 .. Len(events') : i + 1 \in 1 .. Len(events) /\ events'[i] = events[i + 1]
         /\ 1 \in 1 .. Len(events) /\ events[1] = Head(events)
BY DEF TransportTypes

LEMMA Appends ==
  ASSUME TransportTypes, NEW e \in Kinds \X Socks, events' = Append(events, e)
  PROVE  /\ Len(events) \in Nat /\ Len(events') = Len(events) + 1
         /\ \A i \in 1 .. Len(events) : events'[i] = events[i]
         /\ events'[Len(events) + 1] = e
BY DEF TransportTypes

\* An event is of a connection that was taken; a disconnect event of one that is done.  No
\* connection has a connect event twice.
EventInv ==
  /\ \A i \in 1 .. Len(events) :
       /\ Over(events[i][2])
       /\ events[i][1] = "disconnect" => serve[events[i][2]] = "done"
  /\ \A i, j \in 1 .. Len(events) : events[i][1] = "connect" /\ events[i] = events[j] => i = j

\* The connection in the input's place is the session's, or its connect event is the last.
LinkInv ==
  inWs # None =>
    \/ active = inWs /\ \A i \in 1 .. Len(events) : events[i][1] = "disconnect"
    \/ \E i \in 1 .. Len(events) :
         events[i] = <<"connect", inWs>> /\ \A j \in i + 1 .. Len(events) : events[j][1] = "disconnect"

\* The connections whose connect handler has begun: _conn_seq counts no more than these.
Begun == {s \in Socks : Over(s) /\ \A i \in 1 .. Len(events) : events[i] # <<"connect", s>>}
CountInv == seq <= Cardinality(Begun)

\* What a step of the transport does to the connections taken and to the events.
Grows ==
  /\ \A o \in Socks : (Over(o) => Over(o)') /\ (serve[o] = "done" => serve'[o] = "done")
  /\ \/ events' = events /\ inWs' \in {inWs, None}
     \/ \E s \in Socks : /\ ~Over(s) /\ Over(s)' /\ inWs' = s
                         /\ events' = Append(events, <<"connect", s>>)
     \/ \E s \in Socks : /\ serve'[s] = "done" /\ inWs' \in {inWs, None}
                         /\ events' = Append(events, <<"disconnect", s>>)

LEMMA TransportGrows ==
  ASSUME Types, SocketInv, TransportStep
  PROVE  Grows /\ UNCHANGED <<sessionVars, idle, failed>>
<1>1. PICK s \in Socks :
        \/ DeviceConnects(s) \/ DeviceVanishes(s) \/ DeviceCloses(s)
        \/ Arrive(s) \/ EvictedCloses(s) \/ EvictionOver(s) \/ Teardown(s) \/ HangupCloses(s)
  BY DEF TransportStep
<1> USE DEF Types, TransportTypes, Grows, Over
<1>2. CASE DeviceConnects(s) \/ DeviceVanishes(s) \/ DeviceCloses(s) \/ EvictedCloses(s) \/ HangupCloses(s)
  <2>1. CASE DeviceConnects(s)
    <3>1. serve' = [serve EXCEPT ![s] = "arrived"] /\ UNCHANGED <<inWs, events, sessionVars, idle, failed>>
      BY <2>1 DEF DeviceConnects
    <3>2. serve[s] = "none"
      BY <2>1 DEF DeviceConnects, SocketInv, SockInv
    <3> QED
      BY <3>1, <3>2
  <2>2. CASE EvictedCloses(s)
    BY <2>2 DEF EvictedCloses
  <2>3. CASE DeviceVanishes(s) \/ DeviceCloses(s) \/ HangupCloses(s)
    BY <2>3 DEF DeviceVanishes, DeviceCloses, HangupCloses
  <2> QED
    BY <1>2, <2>1, <2>2, <2>3
<1>3. ASSUME Takes(s), ~Over(s)
      PROVE  Grows
  BY <1>3 DEF Takes
<1>4. CASE Arrive(s)
  BY <1>3, <1>4, ArriveDoes DEF Evicts, Rests
<1>5. CASE EvictionOver(s)
  BY <1>3, <1>5, EvictionOverDoes DEF Refuses, Rests
<1>6. CASE Teardown(s)
  BY <1>6 DEF Teardown
<1> QED
  BY <1>1, <1>2, <1>4, <1>5, <1>6

EventsInv == EventInv /\ LinkInv /\ CountInv

LEMMA BegunFinite ==
  IsFiniteSet(Begun) /\ Begun \subseteq Socks /\ Cardinality(Begun) \in Nat
<1>1. Begun \subseteq Socks
  BY DEF Begun
<1> QED
  BY <1>1, SocksAssumption, FS_Subset, FS_CardinalityType

\* The count holds while the handlers begun stay begun.
LEMMA CountStays ==
  ASSUME seq \in Nat, CountInv, Begun \subseteq Begun', UNCHANGED seq
  PROVE  CountInv'
<1>1. IsFiniteSet(Begun')
  <2>1. Begun' \subseteq Socks
    BY DEF Begun
  <2> QED
    BY <2>1, SocksAssumption, FS_Subset
<1>2. Cardinality(Begun) <= Cardinality(Begun')
  BY <1>1, FS_Subset
<1>3. Cardinality(Begun) \in Nat /\ Cardinality(Begun') \in Nat
  BY <1>1, BegunFinite, FS_CardinalityType
<1> QED
  BY <1>2, <1>3 DEF CountInv

LEMMA TransportEvents ==
  ASSUME Types, Types', SocketInv, EventsInv, TransportStep
  PROVE  EventsInv'
<1> USE DEF Types, TransportTypes
<1>1. Grows /\ UNCHANGED <<seq, active>>
  BY TransportGrows DEF sessionVars
<1>2. CASE events' = events /\ inWs' \in {inWs, None}
  <2>1. EventInv'
    <3>1. \A i \in 1 .. Len(events) : events[i][2] \in Socks
      OBVIOUS
    <3> QED
      BY <1>1, <1>2, <3>1 DEF Grows, EventsInv, EventInv, Over
  <2>2. LinkInv'
    BY <1>1, <1>2 DEF EventsInv, LinkInv
  <2>3. Begun \subseteq Begun'
    BY <1>1, <1>2 DEF Grows, Begun
  <2> QED
    BY <1>1, <2>1, <2>2, <2>3, CountStays DEF EventsInv, SessionTypes
<1>3. ASSUME NEW s \in Socks, NEW k \in Kinds, events' = Append(events, <<k, s>>), Over(s)',
             k = "connect" => ~Over(s) /\ inWs' = s,
             k = "disconnect" => serve'[s] = "done" /\ inWs' \in {inWs, None}
      PROVE  EventsInv'
  <2>1. /\ Len(events) \in Nat /\ Len(events') = Len(events) + 1
        /\ \A i \in 1 .. Len(events) : events'[i] = events[i] /\ events[i] \in Kinds \X Socks
        /\ events'[Len(events) + 1] = <<k, s>>
    BY <1>3, Appends
  <2>2. \A i \in 1 .. Len(events') : i \in 1 .. Len(events) \/ i = Len(events) + 1
    BY <2>1
  <2>3. k = "connect" => \A i \in 1 .. Len(events) : events[i][2] # s
    BY <1>3 DEF EventsInv, EventInv
  <2>4. EventInv'
    <3>1. ASSUME NEW i \in 1 .. Len(events')
          PROVE  Over(events[i][2])' /\ (events'[i][1] = "disconnect" => serve'[events'[i][2]] = "done")
      <4>1. CASE i \in 1 .. Len(events)
        <5>1. events[i][2] \in Socks /\ Over(events[i][2])
              /\ (events[i][1] = "disconnect" => serve[events[i][2]] = "done")
          BY <2>1, <4>1 DEF EventsInv, EventInv
        <5> QED
          BY <1>1, <2>1, <4>1, <5>1 DEF Grows, Over
      <4>2. CASE i = Len(events) + 1
        BY <1>3, <2>1, <4>2 DEF Over, Kinds
      <4> QED
        BY <2>2, <4>1, <4>2
    <3>2. ASSUME NEW i \in 1 .. Len(events'), NEW j \in 1 .. Len(events'),
                 events'[i][1] = "connect", events'[i] = events'[j]
          PROVE  i = j
      <4>1. CASE i \in 1 .. Len(events) /\ j \in 1 .. Len(events)
        BY <2>1, <3>2, <4>1 DEF EventsInv, EventInv
      <4>2. CASE i = Len(events) + 1 /\ j \in 1 .. Len(events)
        BY <2>1, <2>3, <3>2, <4>2
      <4>3. CASE j = Len(events) + 1 /\ i \in 1 .. Len(events)
        BY <2>1, <2>3, <3>2, <4>3
      <4> QED
        BY <2>2, <4>1, <4>2, <4>3
    <3> QED
      BY <3>1, <3>2 DEF EventInv
  <2>5. LinkInv'
    <3>1. CASE k = "connect"
      <4>1. Len(events') \in 1 .. Len(events') /\ Len(events') + 1 .. Len(events') = {}
        BY <2>1
      <4>2. events'[Len(events')] = <<"connect", inWs'>>
        BY <1>3, <2>1, <3>1
      <4> QED
        BY <4>1, <4>2 DEF LinkInv
    <3>2. CASE k = "disconnect"
      <4>1. SUFFICES ASSUME inWs' # None
                     PROVE  LinkInv'
        BY DEF LinkInv
      <4>2. inWs' = inWs
        BY <1>3, <3>2, <4>1
      <4>3. CASE active = inWs /\ \A i \in 1 .. Len(events) : events[i][1] = "disconnect"
        BY <1>1, <2>1, <2>2, <3>2, <4>2, <4>3 DEF LinkInv
      <4>4. ASSUME NEW i \in 1 .. Len(events), events[i] = <<"connect", inWs>>,
                   \A j \in i + 1 .. Len(events) : events[j][1] = "disconnect"
            PROVE  LinkInv'
        <5>1. i \in 1 .. Len(events') /\ events'[i] = <<"connect", inWs'>>
          BY <2>1, <4>2, <4>4
        <5>2. \A j \in i + 1 .. Len(events') : events'[j][1] = "disconnect"
          <6> TAKE j \in i + 1 .. Len(events')
          <6>1. (j \in i + 1 .. Len(events) /\ j \in 1 .. Len(events)) \/ j = Len(events) + 1
            BY <2>1, <4>4
          <6>2. CASE j \in i + 1 .. Len(events) /\ j \in 1 .. Len(events)
            BY <2>1, <4>4, <6>2
          <6>3. CASE j = Len(events) + 1
            BY <2>1, <3>2, <6>3
          <6> QED
            BY <6>1, <6>2, <6>3
        <5> QED
          BY <5>1, <5>2 DEF LinkInv
      <4> QED
        BY <4>1, <4>2, <4>3, <4>4 DEF EventsInv, LinkInv
    <3> QED
      BY <3>1, <3>2 DEF Kinds
  <2>6. Begun \subseteq Begun'
    <3> SUFFICES ASSUME NEW b \in Begun
                 PROVE  b \in Begun'
      OBVIOUS
    <3>1. b \in Socks /\ Over(b) /\ Over(b)' /\ \A i \in 1 .. Len(events) : events[i] # <<"connect", b>>
      BY <1>1 DEF Begun, Grows
    <3>2. <<k, s>> # <<"connect", b>>
      BY <1>3, <3>1
    <3>3. \A i \in 1 .. Len(events') : events'[i] # <<"connect", b>>
      BY <2>1, <2>2, <3>1, <3>2
    <3> QED
      BY <3>1, <3>3 DEF Begun
  <2> QED
    BY <1>1, <2>4, <2>5, <2>6, CountStays DEF EventsInv, SessionTypes
<1>4. CASE \E s \in Socks : ~Over(s) /\ Over(s)' /\ inWs' = s /\ events' = Append(events, <<"connect", s>>)
  BY <1>3, <1>4 DEF Kinds
<1>5. CASE \E s \in Socks : /\ serve'[s] = "done" /\ inWs' \in {inWs, None}
                           /\ events' = Append(events, <<"disconnect", s>>)
  BY <1>3, <1>5 DEF Kinds, Over
<1> QED
  BY <1>1, <1>2, <1>4, <1>5 DEF Grows

LEMMA EventStepEvents ==
  ASSUME Types, LiveInv, SocketInv, EventsInv, EventStep
  PROVE  EventsInv'
<1> USE DEF Types, TransportTypes
<1>1. PICK s \in Socks :
      /\ UNCHANGED <<serve, inWs>> /\ events # <<>> /\ events' = Tail(events)
      /\ \/ Head(events) = <<"connect", s>> /\ active' = s /\ seq' \in {seq, seq + 1}
         \/ /\ Head(events) = <<"disconnect", s>> /\ seq' = seq
            /\ (active \notin {None, s} /\ active' = active) \/ active \in {None, s}
  BY EventDoes
<1>2. /\ Len(events) \in Nat /\ Len(events') = Len(events) - 1
      /\ \A i \in 1 .. Len(events') : i + 1 \in 1 .. Len(events) /\ events'[i] = events[i + 1]
      /\ 1 \in 1 .. Len(events) /\ events[1] = Head(events)
  BY <1>1, Tails
<1>3. EventInv'
  <2>1. ASSUME NEW i \in 1 .. Len(events')
        PROVE  Over(events[i][2])' /\ (events'[i][1] = "disconnect" => serve'[events'[i][2]] = "done")
    BY <1>1, <1>2 DEF EventsInv, EventInv, Over
  <2>2. ASSUME NEW i \in 1 .. Len(events'), NEW j \in 1 .. Len(events'),
               events'[i][1] = "connect", events'[i] = events'[j]
        PROVE  i = j
    <3>1. i + 1 \in 1 .. Len(events) /\ j + 1 \in 1 .. Len(events)
          /\ events[i + 1][1] = "connect" /\ events[i + 1] = events[j + 1]
      BY <1>2, <2>2
    <3>2. i + 1 = j + 1
      BY <3>1 DEF EventsInv, EventInv
    <3> QED
      BY <3>2
  <2> QED
    BY <2>1, <2>2 DEF EventInv
<1>4. LinkInv'
  <2>1. SUFFICES ASSUME inWs # None
                 PROVE  LinkInv'
    BY <1>1 DEF LinkInv
  <2>2. serve[inWs] = "serving"
    BY <2>1 DEF SocketInv, PlaceInv, Ends
  <2>3. CASE active = inWs /\ \A i \in 1 .. Len(events) : events[i][1] = "disconnect"
    <3>1. Head(events) = <<"disconnect", s>>
      BY <1>1, <1>2, <2>3
    <3>2. serve[s] = "done"
      BY <1>2, <3>1 DEF EventsInv, EventInv
    <3>3. active' = active
      BY <1>1, <2>1, <2>2, <2>3, <3>1, <3>2
    <3> QED
      BY <1>1, <1>2, <2>3, <3>3 DEF LinkInv
  <2>4. ASSUME NEW i \in 1 .. Len(events), events[i] = <<"connect", inWs>>,
               \A j \in i + 1 .. Len(events) : events[j][1] = "disconnect"
        PROVE  LinkInv'
    <3>1. CASE i = 1
      <4>1. active' = inWs'
        BY <1>1, <1>2, <2>4, <3>1
      <4>2. \A j \in 1 .. Len(events') : events'[j][1] = "disconnect"
        <5> TAKE j \in 1 .. Len(events')
        <5>1. j + 1 \in i + 1 .. Len(events)
          BY <1>2, <3>1
        <5> QED
          BY <1>2, <2>4, <5>1
      <4> QED
        BY <4>1, <4>2 DEF LinkInv
    <3>2. CASE i # 1
      <4>1. i - 1 \in 1 .. Len(events') /\ (i - 1) + 1 = i
        BY <1>2, <3>2
      <4>2. events'[i - 1] = <<"connect", inWs'>>
        BY <1>1, <1>2, <2>4, <4>1
      <4>3. \A j \in (i - 1) + 1 .. Len(events') : events'[j][1] = "disconnect"
        <5> TAKE j \in (i - 1) + 1 .. Len(events')
        <5>1. j \in 1 .. Len(events') /\ j + 1 \in i + 1 .. Len(events)
          BY <1>2, <4>1
        <5> QED
          BY <1>2, <2>4, <5>1
      <4> QED
        BY <4>1, <4>2, <4>3 DEF LinkInv
    <3> QED
      BY <3>1, <3>2
  <2> QED
    BY <2>1, <2>3, <2>4 DEF EventsInv, LinkInv
<1>5. Begun \subseteq Begun'
  <2> SUFFICES ASSUME NEW b \in Begun
               PROVE  b \in Begun'
    OBVIOUS
  <2>1. b \in Socks /\ Over(b) /\ \A i \in 1 .. Len(events) : events[i] # <<"connect", b>>
    BY DEF Begun
  <2>2. Over(b)' /\ \A i \in 1 .. Len(events') : events'[i] # <<"connect", b>>
    BY <1>1, <1>2, <2>1 DEF Over
  <2> QED
    BY <2>1, <2>2 DEF Begun
<1>6. CountInv'
  <2>1. CASE seq' = seq
    BY <1>5, <2>1, CountStays DEF EventsInv, SessionTypes
  <2>2. CASE seq' = seq + 1
    <3>1. Head(events) = <<"connect", s>>
      BY <1>1, <2>2 DEF SessionTypes
    <3>2. s \notin Begun
      BY <1>2, <3>1 DEF Begun
    <3>3. s \in Begun'
      <4>1. Over(s)'
        BY <1>1, <1>2 DEF EventsInv, EventInv, Over
      <4>2. \A i \in 1 .. Len(events') : events'[i] # <<"connect", s>>
        <5> SUFFICES ASSUME NEW i \in 1 .. Len(events'), events'[i] = <<"connect", s>>
                     PROVE  FALSE
          OBVIOUS
        <5>1. i + 1 \in 1 .. Len(events) /\ events[i + 1] = <<"connect", s>> /\ events[1] = events[i + 1]
          BY <1>2, <3>1
        <5>2. events[1][1] = "connect"
          BY <1>2, <3>1
        <5>3. 1 = i + 1
          BY <1>2, <5>1, <5>2 DEF EventsInv, EventInv
        <5> QED
          BY <5>3
      <4> QED
        BY <1>1, <4>1, <4>2 DEF Begun
    <3>4. Begun \cup {s} \subseteq Begun' /\ IsFiniteSet(Begun')
      <4>1. Begun' \subseteq Socks
        BY DEF Begun
      <4> QED
        BY <1>5, <3>3, <4>1, SocksAssumption, FS_Subset
    <3>5. Cardinality(Begun \cup {s}) = Cardinality(Begun) + 1
      BY <3>2, BegunFinite, FS_AddElement
    <3>6. Cardinality(Begun \cup {s}) <= Cardinality(Begun')
      BY <3>4, FS_Subset
    <3>7. Cardinality(Begun) \in Nat /\ Cardinality(Begun') \in Nat
      BY <3>4, BegunFinite, FS_CardinalityType
    <3> QED
      BY <2>2, <3>5, <3>6, <3>7 DEF EventsInv, CountInv, SessionTypes
  <2> QED
    BY <1>1, <2>1, <2>2
<1> QED
  BY <1>3, <1>4, <1>6 DEF EventsInv

-----------------------------------------------------------------------------
(* The inductive invariant, and the session that a served device has *)
IInv == Types /\ SocketInv /\ EventsInv /\ LiveInv

LEMMA InitHolds == ASSUME Init PROVE IInv
<1> USE Numbers DEF Init
<1>1. Types
  <2>1. <<>> \in Seq(Kinds \X Socks)
    OBVIOUS
  <2> QED
    BY <2>1 DEF Types, TransportTypes, SessionTypes, Ends, SockStates, ServeStates, Fresh
<1>2. SocketInv
  BY DEF SocketInv, SockInv, EvictInv, OneOpen, PlaceInv, OutInv, Over, Waits, Gone
<1>3. EventsInv
  <2>1. Cardinality(Begun) \in Nat
    BY BegunFinite
  <2>2. Len(events) = 0
    OBVIOUS
  <2> QED
    BY <2>1, <2>2 DEF EventsInv, EventInv, LinkInv, CountInv
<1>4. LiveInv
  BY DEF LiveInv
<1> QED
  BY <1>1, <1>2, <1>3, <1>4 DEF IInv

\* A step that takes no event and moves no connection keeps what is said of the events.
LEMMA EventsStay ==
  ASSUME EventsInv, UNCHANGED <<serve, events, inWs, active, seq>>
  PROVE  EventsInv'
BY DEF EventsInv, EventInv, LinkInv, CountInv, Begun, Over

LEMMA NextKeeps == ASSUME IInv, [Next]_vars PROVE IInv'
<1> USE DEF IInv
<1>1. CASE TransportStep
  <2>1. Types' /\ SocketInv'
    BY <1>1, TransportTyped, TransportKeeps
  <2>2. EventsInv'
    BY <1>1, <2>1, TransportEvents
  <2>3. LiveInv'
    <3>1. UNCHANGED <<sessionVars, idle, failed>>
      BY <1>1, TransportGrows
    <3> QED
      BY <3>1 DEF LiveInv, sessionVars
  <2> QED
    BY <2>1, <2>2, <2>3
<1>2. CASE EventStep
  <2>1. /\ UNCHANGED <<sock, told, serve, evicted, inWs, hangups>> /\ SessionTypes' /\ LiveInv'
        /\ events # <<>> /\ events' = Tail(events)
        /\ outWs' = outWs \/ (outWs = None /\ outWs' = active)
    BY <1>2, EventDoes
  <2>2. Types'
    <3>1. events' \in Seq(Kinds \X Socks)
      BY <2>1, Tails DEF Types
    <3> QED
      BY <2>1, <3>1 DEF Types, TransportTypes, SessionTypes
  <2>3. active' # None => Over(active')
    <3>1. Over(Head(events)[2])
      <4>1. 1 \in 1 .. Len(events) /\ events[1] = Head(events)
        BY <2>1, Tails DEF Types
      <4> QED
        BY <4>1 DEF EventsInv, EventInv
    <3>2. active' \in {None, active, Head(events)[2]}
      BY <1>2, EventDoes
    <3> QED
      BY <3>1, <3>2 DEF SocketInv, OutInv
  <2>4. SocketInv'
    BY <2>1, <2>3, SessionKeeps DEF SocketInv, OutInv
  <2>5. EventsInv'
    BY <1>2, EventStepEvents
  <2> QED
    BY <2>1, <2>2, <2>4, <2>5
<1>3. ASSUME /\ UNCHANGED <<sock, serve, evicted, inWs, outWs, events, active, seq>>
             /\ told' \subseteq Socks /\ hangups' \subseteq Socks /\ hangups' \subseteq told'
             /\ SessionTypes' /\ LiveInv'
      PROVE  IInv'
  <2>1. Types'
    BY <1>3 DEF Types, TransportTypes
  <2>2. SocketInv'
    BY <1>3, SessionKeeps DEF SocketInv, OutInv
  <2>3. EventsInv'
    BY <1>3, EventsStay
  <2> QED
    BY <1>3, <2>1, <2>2, <2>3
<1>4. CASE LockStep
  BY <1>3, <1>4, LockDoes DEF transportVars, Types, TransportTypes, SocketInv, OutInv
<1>5. CASE IdleStep
  BY <1>3, <1>5, IdleDoes
<1>6. CASE UNCHANGED vars
  <2>1. SessionTypes' /\ LiveInv'
    BY <1>6 DEF vars, sessionVars, Types, SessionTypes, LiveInv
  <2> QED
    BY <1>3, <1>6, <2>1 DEF vars, sessionVars, transportVars, Types, TransportTypes, SocketInv, OutInv
<1> QED
  BY <1>1, <1>2, <1>4, <1>5, <1>6, NextIs

LEMMA Holds == Spec => []IInv
BY InitHolds, NextKeeps, PTL DEF Spec

LEMMA Whole == ASSUME IInv PROVE SessionWhole
<1> USE Numbers DEF IInv, Types, TransportTypes, SessionTypes
<1>1. TypeOK
  <2>1. Range(evicted) \subseteq Socks \cup {None}
    BY DEF Range, Ends
  <2>2. leaving \subseteq Socks \X (0 .. Cardinality(Socks))
    <3>1. Cardinality(Begun) <= Cardinality(Socks) /\ Cardinality(Begun) \in Nat /\ Cardinality(Socks) \in Nat
      BY BegunFinite, SocksAssumption, FS_Subset, FS_CardinalityType
    <3>2. seq <= Cardinality(Socks)
      BY <3>1 DEF EventsInv, CountInv
    <3> SUFFICES ASSUME NEW d \in leaving
                 PROVE  d \in Socks \X (0 .. Cardinality(Socks))
      OBVIOUS
    <3>3. d \in Socks \X Nat /\ d[2] <= seq
      BY DEF LiveInv
    <3> QED
      BY <3>1, <3>2, <3>3
  <2> QED
    BY <2>1, <2>2 DEF TypeOK, SockStates, ServeStates, Ends
<1>2. ServedIsLive
  <2> SUFFICES ASSUME Settled, inWs # None
               PROVE  outWs = inWs /\ active = inWs /\ idle.armed /\ (openai = "up" \/ failed)
    BY DEF ServedIsLive
  <2>1. events = <<>> /\ connecting = {} /\ lock = None /\ rotation # "resetting" /\ inWs \in Socks
    BY DEF Settled, Ends
  <2>2. active = inWs
    <3>1. Len(events) = 0
      BY <2>1
    <3> QED
      BY <3>1 DEF EventsInv, LinkInv
  <2>3. outWs = inWs
    BY <2>1 DEF SocketInv, PlaceInv, Settled
  <2>4. idle.armed /\ (openai = "up" \/ failed)
    BY <2>1, <2>2 DEF LiveInv
  <2> QED
    BY <2>2, <2>3, <2>4
<1> QED
  BY <1>1, <1>2 DEF SessionWhole

(* Every state is well-formed, and a device whose connection is served has,  *)
(* once the handlers' work is done, its sockets on both sides, the idle      *)
(* manager on watch and OpenAI unless that failed: whatever the order in     *)
(* which the connect and disconnect handlers of its connections ran.         *)
THEOREM SessionIsWhole == Spec => []SessionWhole
BY Holds, Whole, PTL

-----------------------------------------------------------------------------
(* Whom the server closes *)

\* A connection yanked is the one that the step closes, and its device was not told.
Yanks(s) == sock[s] = "open" /\ sock'[s] = "yanked"

LEMMA YankedIs ==
  ASSUME Types, NEW x \in Ends, sock' = ServerCloses(x), NEW s \in Socks, Yanks(s)
  PROVE  s = x /\ s \notin told
<1>1. sock'[s] # sock[s] /\ sock'[s] # "closed"
  BY DEF Yanks
<1> QED
  BY <1>1, Closing DEF Types, Yanks

\* A connection that takes the place closes what the output held, and no device holds that.
LEMMA TakesYanksNone ==
  ASSUME IInv, NEW o \in Socks, Takes(o), NEW s \in Socks, Yanks(s)
  PROVE  FALSE
<1> USE DEF IInv, Types, TransportTypes
<1>1. s = outWs
  BY YankedIs DEF Takes
<1>2. Over(s) /\ inWs = None /\ sock[s] = "open"
  BY <1>1, Numbers DEF Takes, SocketInv, OutInv, Yanks
<1> QED
  BY <1>2, Numbers DEF SocketInv, SockInv, PlaceInv, Over, Gone

LEMMA YankedWas ==
  ASSUME IInv, Next, NEW s \in Socks, Yanks(s)
  PROVE  Overtook(s) \/ PlaceRetaken(s)
<1> USE DEF IInv, Types, TransportTypes
<1>1. sock'[s] # sock[s] /\ sock'[s] = "yanked" /\ sock[s] = "open"
  BY DEF Yanks
<1>2. TransportStep
  BY <1>1, NextIs, EventDoes, LockDoes, IdleDoes DEF transportVars
<1>3. PICK o \in Socks :
        \/ DeviceConnects(o) \/ DeviceVanishes(o) \/ DeviceCloses(o)
        \/ Arrive(o) \/ EvictedCloses(o) \/ EvictionOver(o) \/ Teardown(o) \/ HangupCloses(o)
  BY <1>2 DEF TransportStep
<1>4. CASE DeviceConnects(o) \/ DeviceVanishes(o) \/ DeviceCloses(o)
  BY <1>1, <1>4 DEF DeviceConnects, DeviceVanishes, DeviceCloses
<1>5. CASE Arrive(o)
  BY <1>1, <1>5, ArriveDoes, TakesYanksNone DEF Evicts
<1>6. CASE EvictedCloses(o)
  <2>1. sock' = ServerCloses(evicted[o]) /\ serve[o] = "evicting"
    BY <1>6 DEF EvictedCloses
  <2>2. s = evicted[o]
    BY <2>1, YankedIs
  <2> QED
    BY <1>1, <2>1, <2>2, Numbers DEF SocketInv, EvictInv
<1>7. CASE EvictionOver(o)
  <2>1. CASE Takes(o)
    BY <2>1, TakesYanksNone
  <2>2. CASE Refuses(o)
    <3>1. s = o /\ inWs # None /\ serve[s] = "waiting"
      BY <1>7, <2>2, EvictionOverDoes, YankedIs DEF Refuses, Ends
    <3>2. serve[s] # "serving" /\ evicted[inWs] # None
      BY <1>1, <3>1 DEF SocketInv, PlaceInv, Waits
    <3>3. inWs # s
      BY <3>1, <3>2 DEF SocketInv, PlaceInv
    <3> QED
      BY <3>1, <3>2, <3>3 DEF PlaceRetaken
  <2> QED
    BY <1>7, <2>1, <2>2, EvictionOverDoes
<1>8. CASE Teardown(o)
  <2>1. sock' = ServerCloses(outWs) /\ serve[o] = "serving" /\ Gone(o)
    BY <1>8 DEF Teardown
  <2>2. s = outWs /\ s # o
    BY <1>1, <2>1, YankedIs DEF Gone
  <2>3. Over(s)
    BY <2>2, Numbers DEF SocketInv, OutInv
  <2>4. inWs = s
    BY <1>1, <2>3 DEF SocketInv, SockInv, PlaceInv, Over, Gone
  <2>5. PICK w \in Socks : Waits(w) /\ evicted[w] = o
    BY <2>1, <2>2, <2>4 DEF SocketInv, PlaceInv
  <2>6. w # s
    BY <2>3, <2>5 DEF Waits, Over
  <2> QED
    BY <2>2, <2>4, <2>5, <2>6 DEF Overtook, Waits
<1>9. CASE HangupCloses(o)
  <2>1. o \in told /\ s = o /\ s \notin told
    BY <1>9, YankedIs DEF HangupCloses, SocketInv, OutInv, Ends
  <2> QED
    BY <2>1
<1> QED
  BY <1>3, <1>4, <1>5, <1>6, <1>7, <1>8, <1>9

(* A device that is still there is told to go idle before the server closes  *)
(* its connection, whoever closes it: the eviction, a handler's teardown,    *)
(* the refusal of a second client or the watchdog.  What is left are the two *)
(* races of an eviction that another connection overtakes.                   *)
THEOREM ToldFirst == Spec => TellsFirst
<1>1. ASSUME IInv, [Next]_vars
      PROVE  [\A s \in Socks : sock[s] = "open" /\ sock'[s] = "yanked"
                                 => Overtook(s) \/ PlaceRetaken(s)]_vars
  BY <1>1, YankedWas DEF Yanks
<1> QED
  BY <1>1, Holds, PTL DEF Spec, TellsFirst
=============================================================================
