----------------------------- MODULE TranscriptSync ---------------------------
(* How the realtime voice bridge hands its conversations to Genesis (class     *)
(* GenesisToolService): the context of the process only ever grows; each       *)
(* disconnect starts a task that posts it, from the base of the current        *)
(* transcript session on, and tasks may overlap.  Genesis appends what goes    *)
(* beyond the lines it has.  A post may fail before or after it was stored,    *)
(* the file kept instead may fail too, and the process may be killed.          *)
EXTENDS Integers, Sequences, FiniteSets

CONSTANTS
    MaxTurns,      \* bound: turns of the process
    MaxPersists,   \* bound: disconnects
    MaxAttempts,   \* _MAX_PERSIST_ATTEMPTS
    MaxPostFaults  \* bound: posts that fail or are refused

VARIABLES
    turns,         \* turns in the context, numbered
    sessionId,     \* _session_id, 0 for none
    base,          \* _session_base
    lastTurnCount, \* _last_turn_count
    posts,         \* _persist_tasks: [id, session, from, to, attempt]
    persists, postFaults,
    transcripts,   \* Genesis: session -> the turns it holds, in order
    fallback,      \* the turns of the files in failed_transcripts
    unsaved,       \* history: the turns of a file that could not be written
    alive          \* the process has not been killed

kept == <<fallback, unsaved>>
vars == <<turns, sessionId, base, lastTurnCount, posts, persists, postFaults, transcripts, kept, alive>>
Sessions == 1 .. MaxPersists

Init ==
    /\ turns = 0 /\ sessionId = 0 /\ base = 0 /\ lastTurnCount = 0 /\ posts = {} /\ persists = 0
    /\ postFaults = 0 /\ transcripts = [s \in Sessions |-> <<>>] /\ fallback = {}
    /\ unsaved = {} /\ alive = TRUE

Talk ==
    /\ alive /\ turns < MaxTurns /\ turns' = turns + 1
    /\ UNCHANGED <<sessionId, base, lastTurnCount, posts, persists, postFaults, transcripts, kept, alive>>

\* Mutated form: the new transcript starts where the context ends.
BaseAtEnd == turns

(* sync_conversation: a persist long after the one before begins a new         *)
(* transcript, which leaves out the turns that one was given.                  *)
NewBase == lastTurnCount
SyncConversation(gap) ==
    /\ alive /\ turns > 0 /\ persists < MaxPersists /\ persists' = persists + 1 /\ (gap => sessionId # 0)
    /\ sessionId' = IF gap \/ sessionId = 0 THEN sessionId + 1 ELSE sessionId
    /\ base' = IF gap THEN NewBase ELSE base
    /\ lastTurnCount' = turns
    /\ posts' = IF base' = turns THEN posts
                ELSE posts \cup {[id |-> persists, session |-> sessionId', from |-> base',
                                  to |-> turns, attempt |-> 1]}
    /\ UNCHANGED <<turns, postFaults, transcripts, kept, alive>>

(* Genesis appends the turns beyond the transcript's line count.               *)
Payload(p) == [i \in 1 .. p.to - p.from |-> p.from + i]
Appended(p) ==
    LET held == transcripts[p.session] IN
    IF Len(Payload(p)) <= Len(held) THEN held ELSE held \o SubSeq(Payload(p), Len(held) + 1, Len(Payload(p)))
Stored(p) == transcripts' = [transcripts EXCEPT ![p.session] = Appended(p)]
PostKeeps == UNCHANGED <<turns, sessionId, base, lastTurnCount, persists, alive>>

(* _write_fallback: a file, or, if it cannot be written, a line in the log.    *)
Carried(p) == p.from + 1 .. p.to
Saved(p) ==
    \/ fallback' = fallback \cup Carried(p) /\ UNCHANGED unsaved
    \/ unsaved' = unsaved \cup Carried(p) /\ UNCHANGED fallback

(* Genesis stores a post, perhaps one whose process is gone.                   *)
PostAccepted(p) ==
    /\ p \in posts /\ posts' = posts \ {p} /\ Stored(p) /\ PostKeeps /\ UNCHANGED <<postFaults, kept>>

\* Mutated form: one attempt too many.
OneMoreAttempt(p) == p.attempt > MaxAttempts

(* A network error or a 5xx, the post stored or not: another attempt, or, when *)
(* they are used up, a local file.                                             *)
OutOfAttempts(p) == p.attempt = MaxAttempts
PostFails(p) ==
    /\ alive /\ p \in posts /\ postFaults < MaxPostFaults /\ postFaults' = postFaults + 1
    /\ Stored(p) \/ UNCHANGED transcripts
    /\ IF OutOfAttempts(p) THEN posts' = posts \ {p} /\ Saved(p)
       ELSE /\ posts' = (posts \ {p}) \cup {[p EXCEPT !.attempt = p.attempt + 1]}
            /\ UNCHANGED kept
    /\ PostKeeps

(* A 4xx, for good; or the task is cancelled as the bridge stops.              *)
PostRefused(p) ==
    /\ alive /\ p \in posts /\ postFaults < MaxPostFaults /\ postFaults' = postFaults + 1
    /\ posts' = posts \ {p} /\ Saved(p) /\ PostKeeps /\ UNCHANGED transcripts

(* The process is killed: nobody goes on with its posts, nor with the file.    *)
Killed ==
    /\ alive /\ alive' = FALSE
    /\ UNCHANGED <<turns, sessionId, base, lastTurnCount, posts, persists, postFaults, transcripts, kept>>

Next ==
    \/ Talk \/ \E gap \in BOOLEAN : SyncConversation(gap)
    \/ Killed
    \/ \E p \in posts : PostAccepted(p) \/ PostFails(p) \/ PostRefused(p)

Spec == Init /\ [][Next]_vars

-----------------------------------------------------------------------------
TypeOK ==
    /\ turns \in 0 .. MaxTurns /\ base \in 0 .. turns /\ lastTurnCount \in 0 .. turns
    /\ sessionId \in 0 .. MaxPersists /\ fallback \subseteq 1 .. turns
    /\ unsaved \subseteq 1 .. turns /\ alive \in BOOLEAN
    /\ \A p \in posts : p.session \in Sessions /\ p.from < p.to /\ p.attempt \in 1 .. MaxAttempts

(* The places, <<session, line>>, at which Genesis holds turn t.               *)
Holding(t) ==
    {at \in Sessions \X (1 .. MaxTurns) :
        at[2] <= Len(transcripts[at[1]]) /\ transcripts[at[1]][at[2]] = t}

(* Safety: no turn is in Genesis twice, and none that a disconnect handed over *)
(* is lost, however the posts overlap, fail after they were stored or are      *)
(* retried, and wherever the transcript sessions are cut; but for the two ways *)
(* the code leaves: its file could not be written either, or the process was   *)
(* killed while its post was under way (posts keeps that one).                 *)
EachTurnOnce ==
    \A t \in 1 .. turns :
        /\ Cardinality(Holding(t)) <= 1
        /\ t <= lastTurnCount => \/ Holding(t) # {} \/ t \in fallback \cup unsaved
                                 \/ \E p \in posts : t \in Carried(p)
=============================================================================
