------------------------------ MODULE MCAmbient ------------------------------
(* The components of the bridges' servers for TLC: diarization, recovery,      *)
(* windows, enrolment, OMI's webhook and the meeting session.  As in           *)
(* MCSessions they are checked side by side: Init picks the one that moves.    *)
EXTENDS Integers, Sequences

CONSTANTS
    MaxRows, QueueMax, Ceiling, Target, MaxPurges,          \* of AmbientDiar
    DarkAfter, SeenWindow, Cooldown, MaxPerWindow, RebootWindow, Escalation, MinReboots,
    MaxRestarts, MaxFailedSaves,                            \* of DeviceRecovery
    DiarWindow, Chunk, LongestUtt, Silence, MaxFed,         \* of AmbientPipeline
    Requests, MaxEnrollRestarts,                            \* of OnlineEnroll
    Segments, Tolerance, MaxClock, MaxDeliveries, MaxOdd, MaxOmiFaults,   \* of OmiIngest
    Hangover, SilenceClose, OpenSpeech, OpenWindow, IdleClose, Stall, Recent, StatusEvery, Gaps,
    Cap, MaxTurns                                           \* of MeetingSession

(* Bounds and sizes are numbers, the queue has room (AMBIENT_DIAR_QUEUE_MAX is *)
(* 4 by default), a purge over the ceiling goes down to a part of it, requests *)
(* are numbered from one; the tail of a word (MEETING_VAD_HANGOVER_S, 0.4 s)   *)
(* is shorter than the pause that ends a meeting (MEETING_SILENCE_CLOSE_S, 45). *)
ASSUME DiarAssumption == /\ MaxRows \in Nat /\ MaxPurges \in Nat /\ QueueMax \in Nat \ {0}
                         /\ Ceiling \in Nat /\ Target \in 0 .. Ceiling
ASSUME MeetingAssumption == /\ Hangover \in Nat /\ SilenceClose \in Nat /\ Hangover < SilenceClose
                            /\ OpenSpeech \in Nat /\ OpenWindow \in 1 .. Cap /\ IdleClose \in Nat \ {0}
                            /\ Stall \in Nat /\ Recent \in Nat /\ StatusEvery \in Nat
                            /\ Gaps \subseteq Nat /\ Cap \in Nat /\ MaxTurns \in Nat \ {0}
(* A diarization window (AMBIENT_DIAR_WINDOW_S, 60 s) is longer than what the  *)
(* voice detector takes for one utterance with the pause after it (0.4 s).     *)
ASSUME PipelineAssumption == /\ DiarWindow \in Nat \ {0} /\ Chunk \in Nat /\ LongestUtt \in Nat
                             /\ Silence \in Nat /\ MaxFed \in Nat
                             /\ LongestUtt + Silence <= DiarWindow + 1
(* The watchdog may press once in a window (the cap is clamped to one), ages   *)
(* are counted through a window (AMBIENT_RECOVERY_REBOOT_WINDOW_S, 3600 s).    *)
ASSUME RecoveryAssumption == /\ DarkAfter \in Nat /\ SeenWindow \in Nat /\ Cooldown \in Nat
                             /\ MaxPerWindow \in Nat \ {0} /\ RebootWindow \in 1 .. Escalation
                             /\ Escalation \in Nat /\ MinReboots \in Nat
                             /\ MaxRestarts \in Nat /\ MaxFailedSaves \in Nat
ASSUME EnrolAssumption == Requests \subseteq Nat \ {0} /\ MaxEnrollRestarts \in Nat
ASSUME OmiAssumption == Segments \subseteq Nat /\ Tolerance \in Nat /\ MaxClock \in Nat
                         /\ MaxDeliveries \in Nat /\ MaxOdd \in Nat /\ MaxOmiFaults \in Nat

VARIABLES
    rows, lastId, spoken, pending, queue, job, unfinished, windows, pool, failures, enabled, cooling,
    purging, purges, phase,
    device, active, mem, disk, task, late, presses, forgotten, tried, restarts, failedSaves,
    fed, heard, rawBase, rawLen, winUtts, winFirst, handed, flushed,
    told, reqFile, resFile, enrollment, heardSpeech, lastEnrolled, voice, voiceFile, built, outcome,
    enrollRestarts,
    clock, talk, said, sendings, ingest, keys, seen, anchor, omiRows, inserts, again, failed,
    wordless, doubled, omiFaults,
    conn, armed, gate, held, session, dormant, evidence, lastTurns, quiet, spoke, status, wordsLost,
    which  \* the component that moves

Diar == INSTANCE AmbientDiar
Recovery == INSTANCE DeviceRecovery WITH Window <- RebootWindow
Pipeline == INSTANCE AmbientPipeline WITH Window <- DiarWindow
Enrolling == INSTANCE OnlineEnroll
Omi == INSTANCE OmiIngest
Meeting == INSTANCE MeetingSession

diarVars == <<rows, lastId, spoken, pending, queue, job, unfinished, windows, pool, failures,
              enabled, cooling, purging, purges, phase>>
recoveryVars == <<device, active, mem, disk, task, late, presses, forgotten, tried, restarts, failedSaves>>
pipelineVars == <<fed, heard, rawBase, rawLen, winUtts, winFirst, handed, flushed>>
enrollVars == <<told, reqFile, resFile, enrollment, heardSpeech, lastEnrolled, voice, voiceFile,
                built, outcome, enrollRestarts>>
omiVars == <<clock, talk, said, sendings, ingest, keys, seen, anchor, omiRows, inserts, again,
             failed, wordless, doubled, omiFaults>>
meetingVars == <<conn, armed, gate, held, session, dormant, evidence, lastTurns, quiet, spoke,
                 status, wordsLost>>
vars == <<which, diarVars, recoveryVars, pipelineVars, enrollVars, omiVars, meetingVars>>

(* A component with several initial states varies while it is the one.         *)
Init ==
    /\ which \in {"diar", "recovery", "pipeline", "enroll", "omi", "meeting"}
    /\ Diar!Init /\ Recovery!Init /\ Pipeline!Init /\ Enrolling!Init /\ Omi!Init /\ Meeting!Init
    /\ which # "diar" => enabled
    /\ which # "meeting" => armed

Next ==
    \/ which = "diar" /\ Diar!Next
       /\ UNCHANGED <<which, recoveryVars, pipelineVars, enrollVars, omiVars, meetingVars>>
    \/ which = "recovery" /\ Recovery!Next
       /\ UNCHANGED <<which, diarVars, pipelineVars, enrollVars, omiVars, meetingVars>>
    \/ which = "pipeline" /\ Pipeline!Next
       /\ UNCHANGED <<which, diarVars, recoveryVars, enrollVars, omiVars, meetingVars>>
    \/ which = "enroll" /\ Enrolling!Next
       /\ UNCHANGED <<which, diarVars, recoveryVars, pipelineVars, omiVars, meetingVars>>
    \/ which = "omi" /\ Omi!Next
       /\ UNCHANGED <<which, diarVars, recoveryVars, pipelineVars, enrollVars, meetingVars>>
    \/ which = "meeting" /\ Meeting!Next
       /\ UNCHANGED <<which, diarVars, recoveryVars, pipelineVars, enrollVars, omiVars>>
Spec == Init /\ [][Next]_vars

-----------------------------------------------------------------------------
(* The modules' properties, each stated where it is defined.                   *)

(* Every variable of every component stays within its type.                    *)
TypeOK ==
    Diar!TypeOK /\ Recovery!TypeOK /\ Pipeline!TypeOK /\ Enrolling!TypeOK /\ Omi!TypeOK /\ Meeting!TypeOK

(* AmbientDiar: a label lands on the row it was computed for or nowhere.       *)
LabelsOwnRow == Diar!LabelsOwnRow

(* AmbientDiar: an utterance is diarized in one window only.                   *)
OneWindowEach == Diar!OneWindowEach

(* DeviceRecovery: no reboot beyond the budget, no page before an attempt.     *)
RecoveryTrue == Recovery!RecoveryTrue

(* AmbientPipeline: a window's audio is that of its utterances.                *)
SlicedRight == Pipeline!SlicedRight

(* OnlineEnroll: a request is served once, and its answer is the truth.        *)
EnrolmentTrue == Enrolling!EnrolmentTrue

(* OmiIngest: re-delivered segments are inserted once, and none with words is  *)
(* lost unless it came without words before.                                   *)
InsertedOnce == Omi!InsertedOnce

(* OmiIngest: a row's time is near the moment its words were spoken.           *)
TimesNear == Omi!TimesNear

(* OmiIngest: what the code says of a batch that failed midway.                *)
Reprocessed == Omi!Reprocessed

(* MeetingSession: neither an opening nor a transcript with words goes missing.*)
ConversationKept == Meeting!ConversationKept

(* MeetingSession: an open billed session has something that will end it.      *)
BillingEnds == Meeting!BillingEnds
=============================================================================
