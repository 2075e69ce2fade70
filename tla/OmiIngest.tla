------------------------------ MODULE OmiIngest ------------------------------
(* The OMI bridge (bridges/omi_bridge): OMI's webhook delivers batches of      *)
(* transcript segments, again and again when it does not hear back, a segment   *)
(* with or without words, or twice in one batch; under one lock a worker       *)
(* thread drops what was delivered before, places the batch in wall-clock time *)
(* and inserts rows into the ambient database, one commit each, for what has   *)
(* words.  The dedup state lives in a database of its own.                     *)
EXTENDS Integers, FiniteSets

CONSTANTS
    Segments,      \* numbered in the order they are spoken
    Tolerance,     \* anchor_tolerance_s
    MaxClock,      \* bound: wall-clock time
    MaxDeliveries, \* bound: requests
    MaxOdd,        \* bound: segments of a batch that come without words or twice
    MaxOmiFaults   \* bound: failed inserts, crashes, losses of the state file

VARIABLES
    clock,
    talk,        \* start of the conversation going on
    said,        \* segment -> [at, end, conv] once spoken: wall clock, position, conversation
    sendings,    \* requests received
    ingest,      \* the request in the thread: [step, batch, todo, epoch0, recv], todo being
                 \* segment -> rows still to insert for it
    keys, seen,  \* idempotency_keys, seen_segments
    anchor,      \* epoch0, or None
    omiRows,     \* [seg, ts, recv] of every inserted row, one record per insert
    inserts,     \* segment -> rows inserted for it
    again,       \* batches whose request was answered once more after it had failed
    failed,      \* batches with a failed request
    wordless,    \* history: segments that were taken in without words
    doubled,     \* history: segments that were taken in twice in one batch
    omiFaults

vars == <<clock, talk, said, sendings, ingest, keys, seen, anchor, omiRows, inserts, again, failed,
          wordless, doubled, omiFaults>>
world == <<clock, talk, said>>
state == <<keys, seen, anchor>>
rowset == <<omiRows, inserts>>
ghosts == <<again, failed>>
odd == <<wordless, doubled>>

None == -99
Free == [step |-> "free", batch |-> {}, todo |-> [s \in Segments |-> 0], epoch0 |-> 0, recv |-> 0]
Spoken == {s \in Segments : said[s].at >= 0}
Abs(n) == IF n < 0 THEN -n ELSE n
Latest(B) == CHOOSE e \in {said[s].end : s \in B} : \A s \in B : said[s].end <= e

Init ==
    /\ clock = 0 /\ talk = 0 /\ said = [s \in Segments |-> [at |-> -1, end |-> 0, conv |-> 0]]
    /\ sendings = 0 /\ ingest = Free /\ keys = {} /\ seen = {} /\ anchor = None
    /\ omiRows = {} /\ inserts = [s \in Segments |-> 0] /\ again = {} /\ failed = {}
    /\ wordless = {} /\ doubled = {} /\ omiFaults = 0

(* The world: time, speech in conversations that each count from zero. *)
Speak(s) ==
    /\ clock < MaxClock /\ clock' = clock + 1
    /\ s \notin Spoken /\ \A t \in Segments : t < s => t \in Spoken
    /\ talk' \in {talk, clock}
    /\ said' = [said EXCEPT ![s] = [at |-> clock', end |-> clock' - talk', conv |-> talk']]
    /\ UNCHANGED <<sendings, ingest, state, rowset, ghosts, odd, omiFaults>>
Wait == clock < MaxClock /\ clock' = clock + 1
        /\ UNCHANGED <<talk, said, sendings, ingest, state, rowset, ghosts, odd, omiFaults>>
\* Mutated form: an anchor is kept for good.
AnchorForGood(current, maxEnd, recv) == IF current = None THEN recv - maxEnd ELSE current

(* decide_anchor: keep the anchor while it predicts the time of receipt.       *)
DecideAnchor(current, maxEnd, recv) ==
    IF current = None \/ Abs(current + maxEnd - recv) > Tolerance THEN recv - maxEnd ELSE current

(* normalize_segments: a row for each occurrence of a fresh segment that has   *)
(* words.                                                                      *)
RowsFor(fresh, blank, twice) ==
    [s \in Segments |-> IF s \notin fresh \ blank THEN 0 ELSE IF s \in twice THEN 2 ELSE 1]

(* _handle_ingest up to the first insert: a known Idempotency-Key or nothing   *)
(* new answers 200 at once.  A batch is some of one conversation's segments;   *)
(* some come without words, some twice.                                        *)
Receive(B, blank, twice, keyed) ==
    /\ ingest = Free /\ sendings < MaxDeliveries /\ sendings' = sendings + 1
    /\ LET fresh == B \ seen
           known == keyed /\ B \in keys
           epoch0 == DecideAnchor(anchor, Latest(fresh), clock)
       IN  /\ keys' = IF keyed THEN keys \cup {B} ELSE keys
           /\ IF known \/ fresh = {}
              THEN UNCHANGED <<ingest, anchor, odd>> /\ again' = again \cup ({B} \cap failed)
              ELSE /\ ingest' = [step |-> "insert", batch |-> B, todo |-> RowsFor(fresh, blank, twice),
                                 epoch0 |-> epoch0, recv |-> clock]
                   /\ anchor' = epoch0 /\ UNCHANGED again
                   /\ wordless' = wordless \cup (fresh \cap blank)
                   /\ doubled' = doubled \cup (fresh \cap twice)
    /\ UNCHANGED <<world, seen, rowset, failed, omiFaults>>

(* AmbientStore.insert, the segment's time being its conversation's epoch plus *)
(* its position.                                                               *)
InsertSegment(s) ==
    /\ ingest.step = "insert" /\ ingest.todo[s] > 0
    /\ ingest' = [ingest EXCEPT !.todo[s] = @ - 1]
    /\ omiRows' = omiRows \cup {[seg |-> s, ts |-> ingest.epoch0 + said[s].end, recv |-> ingest.recv]}
    /\ inserts' = [inserts EXCEPT ![s] = @ + 1]
    /\ UNCHANGED <<world, sendings, state, ghosts, odd, omiFaults>>
\* Mutated form: the segments count as seen before their rows are in.
RecordableAtOnce == ingest.step = "insert"

(* record_segment_ids once every row is in, of all that was fresh, and the     *)
(* answer.                                                                     *)
Recordable == ingest.step = "insert" /\ \A s \in Segments : ingest.todo[s] = 0
Recorded ==
    /\ Recordable
    /\ seen' = seen \cup ingest.batch /\ ingest' = Free
    /\ again' = again \cup ({ingest.batch} \cap failed)
    /\ UNCHANGED <<world, sendings, keys, anchor, rowset, failed, odd, omiFaults>>

(* An insert raises: the request is dropped and answered 200 all the same.  Or *)
(* the bridge dies, and OMI hears nothing.                                     *)
IngestFails ==
    /\ ingest.step = "insert" /\ omiFaults < MaxOmiFaults /\ omiFaults' = omiFaults + 1
    /\ failed' = failed \cup {ingest.batch} /\ ingest' = Free
    /\ UNCHANGED <<world, sendings, state, rowset, again, odd>>

(* The advisory database is lost; keys expire after ten minutes. *)
StateLost ==
    /\ omiFaults < MaxOmiFaults /\ omiFaults' = omiFaults + 1
    /\ ingest = Free /\ keys' = {} /\ seen' = {} /\ anchor' = None
    /\ UNCHANGED <<world, sendings, ingest, rowset, ghosts, odd>>
KeysExpire ==
    /\ ingest = Free /\ keys # {} /\ keys' = {}
    /\ UNCHANGED <<world, sendings, ingest, seen, anchor, rowset, ghosts, odd, omiFaults>>

Next ==
    \/ \E s \in Segments : Speak(s) \/ InsertSegment(s)
    \/ \E B \in (SUBSET Spoken) \ {{}}, keyed \in BOOLEAN :
           /\ \A s, t \in B : said[s].conv = said[t].conv
           /\ \E blank, twice \in SUBSET B :
                  blank \cap twice = {} /\ Cardinality(blank \cup twice) <= MaxOdd
                  /\ Receive(B, blank, twice, keyed)
    \/ Wait \/ Recorded \/ IngestFails \/ StateLost \/ KeysExpire

Spec == Init /\ [][Next]_vars

-----------------------------------------------------------------------------
TypeOK ==
    /\ clock \in 0 .. MaxClock /\ talk \in 0 .. MaxClock /\ sendings \in 0 .. MaxDeliveries
    /\ seen \subseteq Segments /\ keys \subseteq SUBSET Segments /\ \A s \in Segments : ingest.todo[s] > 0 => s \in ingest.batch
    /\ anchor = None \/ anchor \in -MaxClock .. MaxClock
    /\ omiFaults \in 0 .. MaxOmiFaults

(* Re-delivered and overlapping batches insert a segment once, twice if it was *)
(* twice in one of them (fresh is taken against the state only); each failed   *)
(* request, crash or loss of the state can repeat that at most once more.  And *)
(* what counts as seen was inserted, but for a segment that came without words:*)
(* its id is recorded too, so that no row will be made of it later.            *)
Copies(s) == IF s \in doubled THEN 2 ELSE 1
InsertedOnce ==
    \A s \in Segments : /\ inserts[s] <= Copies(s) * (1 + omiFaults)
                        /\ s \in seen => inserts[s] >= 1 \/ s \in wordless

(* A row's time is off from when the words were spoken by no more than the     *)
(* delay of its own delivery and the anchor's tolerance, through re-deliveries,*)
(* rollovers to a new conversation and a lost anchor.                          *)
TimesNear ==
    \A r \in omiRows : Abs(r.ts - said[r.seg].at) <= Tolerance + (r.recv - said[r.seg].at)

(* server.py: "Mark segments seen only AFTER a successful insert, so a         *)
(* mid-batch failure re-processes": a batch delivered again is inserted.       *)
Reprocessed == \A B \in again : \A s \in B : inserts[s] >= 1 \/ s \in wordless
=============================================================================
