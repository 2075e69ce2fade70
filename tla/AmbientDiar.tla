----------------------------- MODULE AmbientDiar -----------------------------
(* The ambient bridge's transcript rows and their deferred diarization         *)
(* (bridges/ambient_bridge/store.py and the diarization part of server.py):    *)
(* utterances become rows of ambient.db, closed windows of rows go through a   *)
(* bounded queue to one worker, a subprocess pool computes, and the worker     *)
(* labels the rows.  The OMI bridge's process inserts into and purges the same *)
(* database.                                                                   *)
EXTENDS Integers, Sequences, FiniteSets

CONSTANTS
    MaxRows,     \* rows ever inserted
    QueueMax,    \* AMBIENT_DIAR_QUEUE_MAX
    Ceiling,     \* row_ceiling
    Target,      \* 80% of it
    MaxPurges    \* purges that find something to delete

VARIABLES
    rows,        \* id -> [utt, omi, label], the rows in the database
    lastId,      \* sqlite_sequence of the AUTOINCREMENT column
    spoken,      \* utterances so far: each row's utt says which one it holds
    pending,     \* rows of the open window, as [id, utt]
    queue,       \* _diar_queue: closed windows
    job,         \* the worker's window: [phase, todo, idx]
    unfinished,  \* the queue's unfinished-task count, what join() waits on
    windows,     \* _window_counter
    pool,        \* the subprocess pool: "up" or "none"
    failures, enabled, cooling,
    purging,     \* process -> rows it has counted as too many
    purges, phase

store == <<rows, lastId, spoken, purging, purges>>
diar == <<queue, job, unfinished, windows>>
health == <<pool, failures, enabled, cooling>>
vars == <<store, pending, diar, health, phase>>

Procs == {"ambient", "omi"}
Idle == [phase |-> "idle", todo |-> {}, idx |-> 0]
Spans == [id : 1 .. MaxRows, utt : 1 .. MaxRows]
Ids == DOMAIN rows
Ambient == {i \in Ids : ~rows[i].omi}

Init ==
    /\ rows = <<>> /\ lastId = 0 /\ spoken = 0 /\ pending = {}
    /\ queue = <<>> /\ job = Idle /\ unfinished = 0 /\ windows = 0
    /\ pool \in {"up", "none"} /\ enabled = (pool = "up") /\ failures = 0 /\ cooling = FALSE
    /\ purging = [p \in Procs |-> 0] /\ purges = 0 /\ phase = "running"
\* Mutated form: a plain ROWID, which SQLite hands out again.
ReusedId == IF Ids = {} THEN 1 ELSE 1 + CHOOSE i \in Ids : \A j \in Ids : j <= i

(* AmbientStore.insert: SQLite never hands out an AUTOINCREMENT id twice. *)
NextId == lastId + 1

Insert(omi) ==
    /\ spoken < MaxRows /\ spoken' = spoken + 1 /\ lastId' = NextId
    /\ rows' = [i \in Ids \cup {NextId} |->
                  IF i = NextId THEN [utt |-> spoken + 1, omi |-> omi, label |-> 0] ELSE rows[i]]

Utterance ==
    /\ phase = "running" /\ Insert(FALSE)
    /\ pending' = pending \cup {[id |-> NextId, utt |-> spoken + 1]}
    /\ UNCHANGED <<purging, purges, diar, health, phase>>

OmiRow == Insert(TRUE) /\ UNCHANGED <<purging, purges, pending, diar, health, phase>>

NoQueue == ~enabled /\ windows = 0  \* the pool could not be made at startup
\* Mutated form: a full queue drops nothing.
SubmitUnbounded(w) ==
    IF NoQueue THEN UNCHANGED <<queue, windows, unfinished>>
    ELSE /\ windows' = windows + 1
         /\ queue' = Append(queue, [spans |-> w, idx |-> windows + 1])
         /\ unfinished' = unfinished + 1

(* submit_window: a full queue drops its oldest window, which get_nowait takes *)
(* out without a task_done.                                                    *)
Submit(w) ==
    IF NoQueue THEN UNCHANGED <<queue, windows, unfinished>>
    ELSE /\ windows' = windows + 1
         /\ queue' = Append(IF Len(queue) = QueueMax THEN Tail(queue) ELSE queue,
                            [spans |-> w, idx |-> windows + 1])
         /\ unfinished' = unfinished + 1
\* Mutated form: the window that was handed over is not cleared.
CloseKeepsWindow ==
    /\ phase \in {"running", "stopping"} /\ pending # {} /\ Submit(pending)
    /\ UNCHANGED <<pending, store, job, health, phase>>

(* _close_window and the hand-over: at a silence boundary, or when a           *)
(* disconnect or the shutdown flushes the pipeline.                            *)
CloseWindow ==
    /\ phase \in {"running", "stopping"} /\ pending # {}
    /\ Submit(pending) /\ pending' = {}
    /\ UNCHANGED <<store, job, health, phase>>

(* _diar_worker: take a window; without a pool its rows stay unlabelled. *)
TaskDone == unfinished' = unfinished - 1
Take ==
    /\ phase # "closed" /\ job = Idle /\ queue # <<>> /\ queue' = Tail(queue)
    /\ IF pool = "up"
       THEN job' = [phase |-> "child", todo |-> Head(queue).spans, idx |-> Head(queue).idx]
            /\ UNCHANGED unfinished
       ELSE TaskDone /\ UNCHANGED job
    /\ UNCHANGED <<store, pending, windows, health, phase>>

ChildAnswers ==
    /\ phase # "closed" /\ job.phase = "child" /\ job' = [job EXCEPT !.phase = "label"]
    /\ UNCHANGED <<store, pending, queue, unfinished, windows, health, phase>>

(* BrokenProcessPool: recreate, which may fail, or give up after three. *)
ChildCrashes ==
    /\ phase # "closed" /\ job.phase = "child" /\ failures' = failures + 1
    /\ IF failures + 1 > 3 THEN pool' = "none" /\ enabled' = FALSE
       ELSE pool' \in {"up", "none"} /\ UNCHANGED enabled
    /\ job' = Idle /\ TaskDone
    /\ UNCHANGED <<store, pending, queue, windows, cooling, phase>>

(* Any other error, in the child or while labelling. *)
WindowFails ==
    /\ phase # "closed" /\ job # Idle /\ job' = Idle /\ TaskDone
    /\ UNCHANGED <<store, pending, queue, windows, health, phase>>

(* _finish_window in a worker thread: one committed UPDATE per row, so a purge *)
(* may run between two; a row that is gone is updated by nobody.               *)
LabelRow ==
    /\ phase # "closed" /\ job.phase = "label"
    /\ \E s \in job.todo :
        /\ job' = [job EXCEPT !.todo = @ \ {s}]
        /\ rows' = IF s.id \in Ids THEN [rows EXCEPT ![s.id].label = s.utt] ELSE rows
    /\ UNCHANGED <<lastId, spoken, purging, purges, pending, queue, unfinished, windows, health, phase>>

(* A clean window resets the crash count, then the pool may be recycled for    *)
(* its memory, at most once per cooldown.                                      *)
WindowDone ==
    /\ phase # "closed" /\ job.phase = "label" /\ job.todo = {} /\ failures' = 0
    /\ \/ UNCHANGED <<pool, cooling>>
       \/ ~cooling /\ cooling' = TRUE /\ pool' \in {"up", "none"}
    /\ job' = Idle /\ TaskDone
    /\ UNCHANGED <<store, pending, queue, windows, enabled, phase>>

CooldownOver == cooling /\ cooling' = FALSE /\ UNCHANGED <<store, pending, diar, pool, failures, enabled, phase>>

(* purge: the oldest rows by timestamp.  Ambient rows are stamped as they are  *)
(* inserted; an OMI row's time is its conversation's, so any of those may be   *)
(* among them.                                                                 *)
Oldest(D) == D \subseteq Ids /\ \A i \in D, j \in Ambient : j < i /\ i \in Ambient => j \in D
Delete(D) == rows' = [i \in Ids \ D |-> rows[i]]

PurgeTtl(p) ==
    /\ purging[p] = 0 /\ purges < MaxPurges /\ purges' = purges + 1
    /\ \E D \in SUBSET Ids :
        /\ Oldest(D) /\ Delete(D)
        /\ LET left == Cardinality(Ids \ D)
           IN  purging' = [purging EXCEPT ![p] = IF left > Ceiling THEN left - Target ELSE 0]
    /\ UNCHANGED <<lastId, spoken, pending, diar, health, phase>>

(* The count was committed on its own: the other process may purge meanwhile. *)
PurgeCeiling(p) ==
    /\ purging[p] > 0
    /\ \E D \in SUBSET Ids :
        /\ Oldest(D) /\ Delete(D)
        /\ Cardinality(D) = (IF purging[p] > Cardinality(Ids) THEN Cardinality(Ids) ELSE purging[p])
    /\ purging' = [purging EXCEPT ![p] = 0]
    /\ UNCHANGED <<lastId, spoken, purges, pending, diar, health, phase>>

(* run: stop taking connections; the handlers flush, the queue drains; after   *)
(* 10 s and 30 s at most the store is closed whatever is left.                 *)
Stop == phase = "running" /\ phase' = "stopping" /\ UNCHANGED <<store, pending, diar, health>>
CloseStore ==
    /\ phase = "stopping" /\ phase' = "closed"
    /\ UNCHANGED <<store, pending, diar, health>>

Next ==
    \/ Utterance \/ OmiRow \/ CloseWindow \/ Take \/ ChildAnswers \/ ChildCrashes \/ WindowFails
    \/ LabelRow \/ WindowDone \/ CooldownOver \/ Stop \/ CloseStore
    \/ \E p \in Procs : PurgeTtl(p) \/ PurgeCeiling(p)

Spec == Init /\ [][Next]_vars

-----------------------------------------------------------------------------
TypeOK ==
    /\ Ids \subseteq 1 .. MaxRows
    /\ \A i \in Ids : rows[i] \in [utt : 1 .. MaxRows, omi : BOOLEAN, label : 0 .. MaxRows]
    /\ lastId \in 0 .. MaxRows /\ spoken \in 0 .. MaxRows /\ pending \subseteq Spans
    /\ Len(queue) <= QueueMax /\ \A k \in DOMAIN queue : queue[k].spans \subseteq Spans
    /\ job.phase \in {"idle", "child", "label"} /\ job.todo \subseteq Spans
    /\ unfinished \in 0 .. MaxRows /\ windows \in 0 .. MaxRows
    /\ pool \in {"up", "none"} /\ failures \in 0 .. 4 /\ enabled \in BOOLEAN /\ cooling \in BOOLEAN
    /\ purging \in [Procs -> 0 .. MaxRows] /\ purges \in 0 .. MaxPurges
    /\ phase \in {"running", "stopping", "closed"}

(* A label lands on the row of the utterance it was computed for or nowhere,   *)
(* however many rows were purged while its window waited or was computed.      *)
LabelsOwnRow == \A i \in Ids : rows[i].label # 0 => rows[i].label = rows[i].utt

(* An utterance is diarized in one window only: what waits, what is being      *)
(* labelled, what is labelled already and what is still to be windowed are     *)
(* disjoint.                                                                   *)
Waiting == {pending, job.todo} \cup {queue[k].spans : k \in DOMAIN queue}
OneWindowEach ==
    /\ \A i \in Ids : rows[i].label # 0 => \A w \in Waiting : \A s \in w : s.utt # rows[i].utt
    /\ \A k \in DOMAIN queue : queue[k].spans \cap (pending \cup job.todo) = {}
    /\ pending \cap job.todo = {}
    /\ \A k, m \in DOMAIN queue : k # m => queue[k].spans \cap queue[m].spans = {}

(* server.py, shutdown: "Drain queued diar windows so their labels land", and  *)
(* the wait is bounded because "an in-flight SUBPROCESS window that outlasts   *)
(* it is abandoned": with nothing queued and nothing in flight it returns.     *)
JoinReturns == queue = <<>> /\ job = Idle => unfinished = 0
=============================================================================
