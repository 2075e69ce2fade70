--------------------------- MODULE MeetingSession ---------------------------
(* One audio WebSocket of the meeting bridge (bridges/meeting_bridge): the     *)
(* loudness gate with its opening hysteresis, the audio held back meanwhile,   *)
(* the billed cloud session it opens and closes, the dormancy after a          *)
(* transcript-idle close, and the status shown to the phone.                   *)
(*                                                                             *)
(* A frame carries one tick of audio.  Every clock is the age of the instant   *)
(* it was set at, capped at Cap; between two frames Gaps ticks pass (0: a      *)
(* burst after a stalled link).  Connections share nothing but counters, so    *)
(* one is modelled, closing and reconnecting.                                  *)
EXTENDS Integers, FiniteSets

CONSTANTS
    Hangover, SilenceClose, OpenSpeech, OpenWindow, IdleClose, Stall, Recent,
    StatusEvery,  \* ticks between two asr_status frames
    Gaps,         \* ticks that may pass between two messages
    Cap,          \* ages stop counting here: no threshold lies above it
    MaxTurns      \* turns a transcript is counted to

VARIABLES
    conn,       \* a connection is being served
    armed,      \* MEETING_VAD_THRESHOLD > 0
    gate,       \* [last: age of _last_speech, cands: _candidates as [wall, audio] ages]
    held,       \* frames in the pre-roll: always the newest ones
    session,    \* the open cloud session, or NoSession
    dormant, evidence, lastTurns, quiet, spoke,
    status,     \* asr_status: [on, shown, age of last_status_ts]
    wordsLost   \* a transcript with words or a marker in it was removed

vars == <<conn, armed, gate, held, session, dormant, evidence, lastTurns, quiet,
          spoke, status, wordsLost>>

None == -1
NoSession == [live |-> FALSE, act |-> None, turns |-> 0, opened |-> None, heard |-> FALSE]
Open == session # NoSession
States == {"idle", "dormant", "transcribing", "stalled", "error"}
Ages == None .. Cap

Older(a, d) == IF a = None THEN None ELSE IF a + d > Cap THEN Cap ELSE a + d
Least(a, b) == IF a < b THEN a ELSE b

(* SessionGate.reset and .mark_speech. *)
Reset == [last |-> None, cands |-> {}]
\* Mutated form: a marker opens a session the gate knows nothing of.
MarkNothing == gate

MarkSpeech == [last |-> 0, cands |-> {}]

GateAged(d) == [last |-> Older(gate.last, d),
                cands |-> {[wall |-> Older(c.wall, d), audio |-> Older(c.audio, 1)] : c \in gate.cands}]

(* SessionGate.observe on a gate aged to this frame: what to do with it. *)
Observe(g, loud) ==
    LET speech == ~armed \/ loud
        recent == {c \in g.cands : c.wall <= OpenWindow} \cup {[wall |-> 0, audio |-> 0]}
        building == g.last = None /\ armed /\ OpenSpeech > 0
    IN  IF speech /\ building /\ Cardinality(recent) < OpenSpeech
        THEN [fwd |-> FALSE, close |-> FALSE, gate |-> [last |-> None, cands |-> recent]]
        ELSE IF speech
        THEN [fwd |-> TRUE, close |-> FALSE,
              gate |-> [last |-> 0, cands |-> IF building THEN {} ELSE g.cands]]
        ELSE [fwd |-> g.last # None /\ g.last <= Hangover,
              close |-> g.last # None /\ g.last > Hangover /\ g.last >= SilenceClose,
              gate |-> g]

(* PreRoll.push: bounded to OpenWindow of audio; off without the hysteresis. *)
Pushed == IF armed /\ OpenSpeech > 0 THEN Least(held + 1, OpenWindow) ELSE 0

(* asr_state. *)
AsrState(s, isDormant, quietAge, spokeAge) ==
    LET proof == IF s.act = None THEN s.opened ELSE Least(s.act, s.opened)
    IN  IF s = NoSession
        THEN IF isDormant /\ quietAge < Recent THEN "dormant" ELSE "idle"
        ELSE IF ~s.live THEN "error"
        ELSE IF spokeAge # None /\ spokeAge < Recent /\ proof >= Stall THEN "stalled"
        ELSE "transcribing"

Unserved ==
    /\ conn' = FALSE /\ gate' = Reset /\ held' = 0 /\ session' = NoSession
    /\ dormant' = FALSE /\ evidence' = None /\ lastTurns' = 0 /\ quiet' = 0 /\ spoke' = None
    /\ status' = [on |-> FALSE, shown |-> "idle", age |-> None]

Init ==
    /\ conn = FALSE /\ armed \in BOOLEAN /\ gate = Reset /\ held = 0 /\ session = NoSession
    /\ dormant = FALSE /\ evidence = None /\ lastTurns = 0 /\ quiet = 0 /\ spoke = None
    /\ status = [on |-> FALSE, shown |-> "idle", age |-> None]
    /\ wordsLost = FALSE

(* _finalize: results still arriving while the session stops become turns      *)
(* (late), and only then is a transcript judged empty and removed.  Without a  *)
(* cloud session a system note was committed, which is a turn.                 *)
Finalized(s, late) ==
    LET turns == s.turns + late
        removed == turns = 0 /\ s.act = None
    IN  wordsLost' = (wordsLost \/ (removed /\ (s.heard \/ late > 0)))
Late(s) == IF s.live /\ s.turns < MaxTurns THEN {0, 1} ELSE {0}

(* _open_session: the cloud answers, or the key is missing and a system note   *)
(* is committed instead.                                                       *)
Opened == {[live |-> TRUE, act |-> None, turns |-> 0, opened |-> 0, heard |-> FALSE],
           [live |-> FALSE, act |-> None, turns |-> 1, opened |-> 0, heard |-> FALSE]}

(* _handle_ws: connect, and leave the message loop (a client close, a missed   *)
(* heartbeat, a failed start or send): the session is finalized on the way out.*)
Connect ==
    /\ ~conn /\ conn' = TRUE
    /\ UNCHANGED <<armed, gate, held, session, dormant, evidence, lastTurns, quiet, spoke,
                   status, wordsLost>>

Disconnect ==
    /\ conn /\ Unserved /\ UNCHANGED armed
    /\ IF Open THEN \E late \in Late(session) : Finalized(session, late) ELSE UNCHANGED wordsLost

(* The cloud: a changed partial, a new turn, an error. *)
CloudResult ==
    /\ Open /\ session.live
    /\ \E words \in {"partial", "final"} :
        /\ words = "final" => session.turns < MaxTurns
        /\ session' = [session EXCEPT !.act = 0, !.heard = TRUE,
                                   !.turns = @ + IF words = "final" THEN 1 ELSE 0]
    /\ UNCHANGED <<conn, armed, gate, held, dormant, evidence, lastTurns, quiet, spoke, status, wordsLost>>

CloudError ==
    /\ Open /\ session.live
    /\ session' = [session EXCEPT !.live = FALSE]
    /\ UNCHANGED <<conn, armed, gate, held, dormant, evidence, lastTurns, quiet, spoke, status, wordsLost>>

SessionAged(d) == IF Open THEN [session EXCEPT !.act = Older(@, d), !.opened = Older(@, d)]
                  ELSE NoSession

(* The transcript-idle tracker: the latest of ASR activity and a changed count *)
(* of turns.                                                                   *)
Evidence(s, d) ==
    LET seen == IF s.act # None THEN Least(Older(evidence, d), s.act) ELSE Older(evidence, d)
    IN  IF s.turns # lastTurns THEN 0 ELSE seen

Show(s, isDormant, quietAge, spokeAge, d) ==
    LET due == status.on /\ (status.age = None \/ Older(status.age, d) >= StatusEvery)
    IN  status' = IF due THEN [on |-> TRUE, age |-> 0,
                               shown |-> AsrState(s, isDormant, quietAge, spokeAge)]
                  ELSE [status EXCEPT !.age = Older(@, d)]

Idle(s, d) == armed /\ Open /\ Evidence(s, d) >= IdleClose
Rearmed(loud, d) ==
    LET quietAge == IF armed /\ loud THEN 0 ELSE Older(quiet, d)
    IN  dormant /\ armed /\ quietAge >= SilenceClose

\* Mutated form: the re-arm keeps what the gate counted while dormant.
RegatedOnClose(rearmed, idle, g) == IF idle THEN Reset ELSE g

Regated(rearmed, idle, g) == IF rearmed \/ idle THEN Reset ELSE g

(* One BINARY message, in the order of the handler: the gate, the re-arm, the  *)
(* transcript-idle close, then forward (opening a session and flushing the     *)
(* pre-roll into it) or hold back (and maybe close), then the status.          *)
Frame(loud, d) ==
    LET seen == Observe(GateAged(d), loud)
        aged == SessionAged(d)
        quietAge == IF armed /\ loud THEN 0 ELSE Older(quiet, d)
        idle == Idle(aged, d)
        dorm == (dormant /\ ~Rearmed(loud, d)) \/ idle
        g == Regated(Rearmed(loud, d), idle, seen.gate)
        s == IF idle THEN NoSession ELSE aged
        send == seen.fwd /\ ~dorm
        spokeAge == IF send /\ loud THEN 0 ELSE Older(spoke, d)
        ends == ~send /\ seen.close /\ s # NoSession
        clear == ~send /\ seen.close /\ (s # NoSession \/ ~dorm)
    IN  /\ conn
        /\ quiet' = quietAge /\ dormant' = dorm /\ spoke' = spokeAge
        /\ gate' = IF clear THEN Reset ELSE g
        /\ IF send /\ s = NoSession
           THEN \E fresh \in Opened :
                 /\ session' = fresh /\ lastTurns' = fresh.turns /\ evidence' = 0
                 /\ held' = 0
           ELSE /\ session' = IF ends THEN NoSession ELSE s
                /\ held' = IF ~send /\ s = NoSession /\ ~dorm THEN Pushed ELSE held
                /\ IF armed /\ Open
                   THEN evidence' = Evidence(aged, d) /\ lastTurns' = aged.turns
                   ELSE evidence' = Older(evidence, d) /\ UNCHANGED lastTurns
        /\ IF idle \/ ends THEN \E late \in Late(aged) : Finalized(aged, late)
           ELSE UNCHANGED wordsLost
        /\ Show(session', dorm, quietAge, spokeAge, d)
        /\ UNCHANGED <<conn, armed>>

(* A TEXT message: a hello adds capabilities, a marker ends dormancy and opens *)
(* a session when there is none.                                               *)
Hello ==
    /\ conn /\ status' = [status EXCEPT !.on = TRUE]
    /\ UNCHANGED <<conn, armed, gate, held, session, dormant, evidence, lastTurns, quiet, spoke, wordsLost>>

Marker ==
    /\ conn /\ dormant' = FALSE
    /\ IF Open
       THEN /\ session' = [session EXCEPT !.turns = Least(@ + 1, MaxTurns), !.heard = TRUE]
            /\ UNCHANGED <<gate, held, evidence, lastTurns>>
       ELSE \E fresh \in Opened :
             /\ session' = [fresh EXCEPT !.turns = Least(@ + 1, MaxTurns), !.heard = TRUE]
             /\ lastTurns' = fresh.turns /\ evidence' = 0
             /\ held' = 0 /\ gate' = MarkSpeech
    /\ UNCHANGED <<conn, armed, quiet, spoke, status, wordsLost>>

Next ==
    \/ Connect \/ Disconnect \/ CloudResult \/ CloudError \/ Hello \/ Marker
    \/ \E loud \in BOOLEAN, d \in Gaps : Frame(loud, d)

Spec == Init /\ [][Next]_vars

-----------------------------------------------------------------------------
TypeOK ==
    /\ conn \in BOOLEAN /\ armed \in BOOLEAN /\ dormant \in BOOLEAN /\ wordsLost \in BOOLEAN
    /\ gate.last \in Ages /\ gate.cands \subseteq [wall : 0 .. Cap, audio : 0 .. Cap]
    /\ held \in 0 .. OpenWindow /\ evidence \in Ages /\ quiet \in Ages /\ spoke \in Ages
    /\ session \in [live : BOOLEAN, act : Ages, turns : 0 .. MaxTurns, opened : Ages, heard : BOOLEAN]
    /\ lastTurns \in 0 .. MaxTurns
    /\ status \in [on : BOOLEAN, shown : States, age : Ages]

(* While the gate is still deciding whether speech is real, every frame it     *)
(* counts towards opening and that is at most a window of audio old is in the  *)
(* pre-roll, so a session opened by it starts with its first word; and noise   *)
(* heard while dormant never counts towards opening.                           *)
OpeningKept ==
    conn /\ ~Open /\ ~dormant =>
        \A c \in gate.cands : c.audio < OpenWindow => c.audio < held

(* An armed connection never carries a billed session that nothing would end:  *)
(* a speech run is in progress, it was heard less than SilenceClose ago, and   *)
(* the ASR gave evidence less than IdleClose ago.                              *)
BillingEnds ==
    conn /\ armed /\ Open =>
        /\ gate.last \in 0 .. SilenceClose - 1
        /\ evidence \in 0 .. IdleClose - 1
        /\ ~dormant

(* A transcript is removed as empty only if nobody was heard in it, late       *)
(* results of its stopping session included, and no marker was set.            *)
NothingHeardIsRemoved == ~wordsLost

(* Both: of what is said in a meeting neither the opening nor a transcript     *)
(* that already has words goes missing.                                        *)
ConversationKept == OpeningKept /\ NothingHeardIsRemoved
=============================================================================
