------------------------------ MODULE Recorder ------------------------------
(***************************************************************************)
(* The phone's own copy of a capture: LocalRecorder with its monitor.  The *)
(* capture loop of a run offers frames into a bounded queue and never      *)
(* waits; a writer thread for each run encodes them into segments.  A      *)
(* frame is one unit of time, and its number is its position in the run.   *)
(*                                                                         *)
(* Threads: the main thread (Start, StopClicked), the capture loop of each *)
(* run and the writer of each run.  What a writer does between two looks   *)
(* at its queue is seen by nobody but the monitor; its encoder, its file   *)
(* and the free storage are choices of the environment.                    *)
(***************************************************************************)
EXTENDS Naturals, Sequences

CONSTANTS
  None,           \* no writer, no segment
  MaxRuns,        \* bound on capture runs
  MaxFrames,      \* bound on the frames read in all
  QueueFrames,    \* QUEUE_FRAMES
  FillLimit,      \* MAX_SILENCE_FILL_SAMPLES
  SegmentFrames,  \* SEGMENT_SAMPLES
  MaxFailures,    \* ENCODER_MAX_FAILURES
  MaxFaults       \* bound on the failures of storage, encoder and writer that begin

ASSUME RecorderAssumption ==
  /\ MaxRuns \in Nat /\ MaxFrames \in Nat /\ FillLimit \in Nat /\ MaxFaults \in Nat
  /\ QueueFrames \in Nat \ {0} /\ SegmentFrames \in Nat \ {0} /\ MaxFailures \in Nat \ {0}
  /\ None \notin Nat

Runs == 1 .. MaxRuns
Silence == 0

VARIABLES
  writer,   \* LocalRecorder.writer: the run whose writer takes frames
  started,  \* runs started so far; the last one's writer is lastWriter
  loop,     \* loop[r]: the capture loop of run r
  w,        \* w[r]: the writer of run r
  monitor,  \* LocalBackupMonitor: the generation (a run) and whether a failure is shown
  frames,   \* frames read so far
  faults    \* failures begun so far

vars == <<writer, started, loop, w, monitor, frames, faults>>

Offs == {"on", "STORAGE", "IO", "ENCODER", "ENCODER_FATAL"}
Units == 0 .. MaxFrames
Frames == [n : 1 .. MaxFrames, droppedBefore : Units]
StopFrame == [n |-> 0, droppedBefore |-> 0]
Segments == [start : Nat, units : Seq(Units), open : BOOLEAN]
Loops == [pc : {"none", "reading", "offering", "queued", "ending", "ended"}, cancelled : BOOLEAN,
          read : Units]
Writers ==
  [pc : {"none", "joining", "polling", "idle", "frame", "tail", "ended", "crashed"},
   queue : Seq(Frames \cup {StopFrame}), finishing : BOOLEAN, pendingDropped : Units,
   n : Units, gap : Units, runSamples : Nat, segment : Segments \cup {None}, off : Offs,
   encoderFailures : Nat, told : {"nothing", "failure", "resumed"}]

TypeOK ==
  /\ writer \in Runs \cup {None}
  /\ started \in 0 .. MaxRuns
  /\ loop \in [Runs -> Loops]
  /\ w \in [Runs -> Writers]
  /\ \A r \in Runs : /\ Len(w[r].queue) <= QueueFrames
                     /\ w[r].encoderFailures <= MaxFailures + 1
  /\ monitor \in [generation : 0 .. MaxRuns, failure : BOOLEAN]
  /\ frames \in 0 .. MaxFrames /\ faults \in 0 .. MaxFaults

Init ==
  /\ writer = None /\ started = 0 /\ frames = 0 /\ faults = 0
  /\ loop = [r \in Runs |-> [pc |-> "none", cancelled |-> FALSE, read |-> 0]]
  /\ w = [r \in Runs |->
           [pc |-> "none", queue |-> <<>>, finishing |-> FALSE, pendingDropped |-> 0, n |-> 0,
            gap |-> 0, runSamples |-> 0, segment |-> None, off |-> "on", encoderFailures |-> 0,
            told |-> "nothing"]]
  /\ monitor = [generation |-> 0, failure |-> FALSE]
-----------------------------------------------------------------------------
(* Main thread and capture loops *)

\* ArrayBlockingQueue.offer: FALSE, and no element, on a full queue.
Offered(q, f) == IF Len(q) < QueueFrames THEN Append(q, f) ELSE q

Finished(x) == [x EXCEPT !.finishing = TRUE, !.queue = Offered(@, StopFrame)]

\* Coroutine isActive of the last run's loop.
Capturing == started > 0 /\ ~loop[started].cancelled /\ loop[started].pc \in {"reading", "offering", "queued"}

\* startCapture's part for the local copy: a new generation, and start().
Start ==
  LET r == started + 1 IN
  /\ started < MaxRuns /\ ~Capturing
  /\ started' = r
  /\ writer' = r
  /\ w' = [x \in Runs |-> CASE x = r -> [w[x] EXCEPT !.pc = "joining"]
                            [] x = writer -> Finished(w[x])
                            [] OTHER -> w[x]]
  /\ loop' = [loop EXCEPT ![r].pc = "reading"]
  /\ monitor' = [generation |-> r, failure |-> FALSE]
  /\ UNCHANGED <<frames, faults>>

StopClicked ==
  /\ Capturing
  /\ loop' = [loop EXCEPT ![started].cancelled = TRUE]
  /\ UNCHANGED <<writer, started, w, monitor, frames, faults>>

Onwards(l) == IF l.cancelled THEN "ending" ELSE "reading"

\* A frame is read, even by a loop that was cancelled during the read, and offer() looks for
\* its writer.
Read(r) ==
  /\ loop[r].pc = "reading" /\ frames < MaxFrames
  /\ frames' = frames + 1
  /\ loop' = [loop EXCEPT ![r].read = @ + 1,
                          ![r].pc = IF writer = r /\ ~w[r].finishing THEN "offering" ELSE Onwards(loop[r])]
  /\ UNCHANGED <<writer, started, w, monitor, faults>>

Offer(r) ==
  /\ loop[r].pc = "offering"
  /\ LET q == Offered(w[r].queue, [n |-> loop[r].read, droppedBefore |-> w[r].pendingDropped]) IN
     IF q # w[r].queue
       THEN /\ w' = [w EXCEPT ![r].queue = q]
            /\ loop' = [loop EXCEPT ![r].pc = "queued"]
       ELSE /\ w' = [w EXCEPT ![r].pendingDropped = @ + 1]
            /\ loop' = [loop EXCEPT ![r].pc = Onwards(loop[r])]
  /\ UNCHANGED <<writer, started, monitor, frames, faults>>

ResetCount(x) == [x EXCEPT !.pendingDropped = 0]

CountQueued(r) ==
  /\ loop[r].pc = "queued"
  /\ w' = [w EXCEPT ![r] = ResetCount(@)]
  /\ loop' = [loop EXCEPT ![r].pc = Onwards(loop[r])]
  /\ UNCHANGED <<writer, started, monitor, frames, faults>>

\* The microphone fails, the 14 hours are over, or a cancelled read returns nothing.
LoopEnds(r) ==
  /\ loop[r].pc = "reading"
  /\ loop' = [loop EXCEPT ![r].pc = "ending"]
  /\ UNCHANGED <<writer, started, w, monitor, frames, faults>>

\* invokeOnCompletion: stop(runId)
Stop(r) ==
  /\ loop[r].pc = "ending"
  /\ loop' = [loop EXCEPT ![r].pc = "ended"]
  /\ IF writer = r THEN /\ w' = [w EXCEPT ![r] = Finished(@)]
                        /\ writer' = None
     ELSE UNCHANGED <<w, writer>>
  /\ UNCHANGED <<started, monitor, frames, faults>>
-----------------------------------------------------------------------------
(* What a writer does to its own state.  Each operator maps a writer to the *)
(* writer after it; told is the call it made of monitor.setFailure.         *)

IsOpen(x) == x.segment # None /\ x.segment.open

\* closeSegment.  What the file holds stays to be seen until the next one is opened.
Closed(x) == IF IsOpen(x) THEN [x EXCEPT !.segment.open = FALSE] ELSE x

Turned(x, off) == [Closed(x) EXCEPT !.off = off, !.told = "failure"]
Resumed(x) == [x EXCEPT !.off = "on", !.told = "resumed"]

\* Free storage: under FLOOR_BYTES, under RESUME_BYTES, above, or not looked at (30 s not over).
Levels == {"low", "between", "fine", "unchecked"}

\* checkStorage
Checked(x, level) ==
  CASE level = "unchecked" \/ x.off \in {"ENCODER", "ENCODER_FATAL"} -> x
    [] level = "low" /\ x.off \notin {"ENCODER", "ENCODER_FATAL"} -> Turned(x, "STORAGE")
    [] level = "fine" /\ x.off \in {"STORAGE", "IO"} -> Resumed(x)
    [] level = "between" /\ x.off = "IO" -> Resumed(x)
    [] OTHER -> x

\* writable(): after an encoder failure only once its retry is due.
Writable(x, due) == x.off = "on" \/ (x.off = "ENCODER" /\ due)

EncoderFailed(x) ==
  LET failures == x.encoderFailures + 1 IN
  [Turned(x, IF failures >= MaxFailures THEN "ENCODER_FATAL" ELSE "ENCODER")
     EXCEPT !.encoderFailures = failures]

\* The unit is in the open segment, or in a new one at this position.
Fed(x, unit) ==
  LET s == IF IsOpen(x) THEN x.segment
           ELSE [start |-> x.runSamples, units |-> <<>>, open |-> TRUE]
      y == [x EXCEPT !.segment = [s EXCEPT !.units = Append(@, unit)]]
  IN IF x.off = "ENCODER" THEN [Resumed(y) EXCEPT !.encoderFailures = 0] ELSE y

Full(x) == Len(x.segment.units) = SegmentFrames

\* write(): it works, the file or the encoder fails, or the encoder loses the end of a full file.
Outcomes == {"ok", "io", "encoder", "tailLost"}

Written(x, unit, outcome) ==
  LET y == Fed(x, unit)
      failures == y.encoderFailures + 1
  IN CASE outcome = "io" -> Turned(x, "IO")
       [] outcome = "encoder" -> EncoderFailed(x)
       [] outcome = "tailLost" /\ failures < MaxFailures -> [Closed(y) EXCEPT !.encoderFailures = failures]
       [] outcome = "tailLost" /\ failures >= MaxFailures ->
            EncoderFailed([y EXCEPT !.encoderFailures = failures])
       [] outcome = "ok" /\ Full(y) -> [Closed(y) EXCEPT !.encoderFailures = 0]
       [] OTHER -> y

Can(x, unit, outcome) == outcome = "tailLost" => Full(Fed(x, unit))

Advanced(x, units) == [x EXCEPT !.runSamples = @ + units]
-----------------------------------------------------------------------------
(* The writer thread *)

\* Mutated form: a writer that still drains reports to the new run's status.
HeardFromAll(r, told) ==
  IF told # "nothing" THEN [monitor EXCEPT !.failure = (told = "failure")] ELSE monitor

\* LocalBackupMonitor.setFailure
Heard(r, told) ==
  IF told # "nothing" /\ r = monitor.generation
    THEN [monitor EXCEPT !.failure = (told = "failure")] ELSE monitor

Becomes(r, y) ==
  /\ w' = [w EXCEPT ![r] = [y EXCEPT !.told = "nothing"]]
  /\ monitor' = Heard(r, y.told)
  /\ UNCHANGED <<writer, started, loop, frames>>

\* A fault is where a failure begins: what fails may go on failing.
Costs(x, bad) ==
  IF bad /\ x.off = "on" THEN faults < MaxFaults /\ faults' = faults + 1 ELSE UNCHANGED faults

\* Joins the previous writer, but no longer than PREVIOUS_WRITER_WAIT_MS.
Join(r) ==
  /\ w[r].pc = "joining"
  /\ \E level \in Levels \ {"unchecked"} :
       /\ Costs(w[r], level = "low")
       /\ Becomes(r, [Checked(w[r], level) EXCEPT !.pc = "polling"])

\* The loop is left: what is still to do are the frames dropped after the last queued one.
Tailed(x) == [x EXCEPT !.gap = x.pendingDropped, !.pendingDropped = 0, !.pc = "tail"]

Take(r) ==
  LET f == Head(w[r].queue) IN
  /\ w[r].pc = "polling" /\ w[r].queue # <<>>
  /\ \/ /\ f = StopFrame
        /\ Becomes(r, Tailed([w[r] EXCEPT !.queue = Tail(@)]))
        /\ UNCHANGED faults
     \/ /\ f # StopFrame
        /\ \E level \in Levels :
             /\ Costs(w[r], level = "low")
             /\ Becomes(r, [Checked(w[r], level) EXCEPT !.queue = Tail(@), !.pc = "frame", !.n = f.n,
                                                       !.gap = f.droppedBefore])

\* poll() finds nothing for half a second; only then is finishing looked at.
PollTimesOut(r) ==
  /\ w[r].pc = "polling" /\ w[r].queue = <<>>
  /\ Becomes(r, [w[r] EXCEPT !.pc = "idle"])
  /\ UNCHANGED faults

\* Mutated form: only the stop frame ends the loop.
WaitsForStopFrame(r) == FALSE

Drained(r) == w[r].finishing

Idle(r) ==
  /\ w[r].pc = "idle"
  /\ \/ /\ Drained(r)
        /\ Becomes(r, Tailed(w[r]))
        /\ UNCHANGED faults
     \/ /\ ~Drained(r)
        /\ \E level \in Levels :
             /\ Costs(w[r], level = "low")
             /\ Becomes(r, [Checked(w[r], level) EXCEPT !.pc = "polling"])

\* fillDropped, for a gap too long to fill or with the writer off: the next unit opens a new file.
Skipped(x) == [Advanced(Closed(x), x.gap) EXCEPT !.gap = 0]

SkipGap(r) ==
  /\ w[r].pc \in {"frame", "tail"} /\ w[r].gap > 0
  /\ w[r].gap > FillLimit \/ ~Writable(w[r], FALSE)
  /\ Becomes(r, Skipped(w[r]))
  /\ UNCHANGED faults

\* fillDropped: silence in its place, one unit at a time.
FillGap(r) ==
  /\ w[r].pc \in {"frame", "tail"} /\ w[r].gap \in 1 .. FillLimit /\ Writable(w[r], TRUE)
  /\ \E o \in Outcomes :
       /\ Can(w[r], Silence, o)
       /\ Costs(w[r], o # "ok")
       /\ Becomes(r, [Advanced(Written(w[r], Silence, o), 1) EXCEPT !.gap = @ - 1])

\* Mutated form: time stands still while the backup is off.
PassedOver(x) == x

Passed(x) == Advanced(x, 1)

WriteFrame(r) ==
  /\ w[r].pc = "frame" /\ w[r].gap = 0
  /\ \/ /\ Writable(w[r], TRUE)
        /\ \E o \in Outcomes :
             /\ Can(w[r], w[r].n, o)
             /\ Costs(w[r], o # "ok")
             /\ Becomes(r, [Advanced(Written(w[r], w[r].n, o), 1) EXCEPT !.pc = "polling", !.n = 0])
     \/ /\ ~Writable(w[r], FALSE)
        /\ Becomes(r, [Passed(w[r]) EXCEPT !.pc = "polling", !.n = 0])
        /\ UNCHANGED faults

\* The thread's own state dies with it.
Dead(x) == [x EXCEPT !.segment = None, !.encoderFailures = 0, !.n = 0, !.gap = 0, !.queue = <<>>]

End(r) ==
  /\ w[r].pc = "tail" /\ w[r].gap = 0
  /\ Becomes(r, [Dead(w[r]) EXCEPT !.pc = "ended"])
  /\ UNCHANGED faults

\* Anything else thrown: the backup is off, never the process.
Crash(r) ==
  /\ w[r].pc \in {"polling", "idle", "frame", "tail"}
  /\ faults < MaxFaults
  /\ faults' = faults + 1
  /\ Becomes(r, [Dead(w[r]) EXCEPT !.pc = "crashed", !.told = "failure", !.runSamples = 0])

WriterStep(r) ==
  \/ Join(r) \/ Take(r) \/ PollTimesOut(r) \/ Idle(r) \/ SkipGap(r) \/ FillGap(r) \/ WriteFrame(r)
  \/ End(r)

LoopStep(r) == Read(r) \/ Offer(r) \/ CountQueued(r) \/ LoopEnds(r) \/ Stop(r)

Next ==
  \/ Start \/ StopClicked
  \/ \E r \in Runs : LoopStep(r) \/ WriterStep(r) \/ Crash(r)

\* A writer thread is scheduled.
Spec == Init /\ [][Next]_vars /\ \A r \in Runs : WF_<<w[r]>>(WriterStep(r))
-----------------------------------------------------------------------------
(***************************************************************************)
(* Every unit of a file stands at the time it was captured: whatever was   *)
(* dropped, skipped or could not be written, "sample positions track real  *)
(* capture time" (LocalRecorder.kt:34-36).                                 *)
(***************************************************************************)
PositionsTrue ==
  \A r \in Runs :
    LET s == w[r].segment IN
    s # None => \A i \in DOMAIN s.units : s.units[i] \in {Silence, s.start + i}

\* The position of the last frame the writer took, and of the last one it was handed.
Reached(r) == w[r].runSamples + w[r].gap + (IF w[r].pc = "frame" THEN 1 ELSE 0)
Handed(r) ==
  LET q == w[r].queue IN IF q = <<>> THEN Reached(r) ELSE q[Len(q)].n

(***************************************************************************)
(* While a run records, each frame read is accounted for exactly once: in  *)
(* the files' positions, in the writer's hands, in the queue or in the     *)
(* count of dropped ones, although the two threads share that count        *)
(* without a lock (LocalRecorder.kt:254-261, 306-310).  From one queued    *)
(* frame to the next there is no other gap than the one it carries.        *)
(***************************************************************************)
Accounted ==
  \A r \in Runs :
    (w[r].pc \notin {"none", "crashed"} /\ ~w[r].finishing) =>
      LET q == w[r].queue IN
      /\ \A i \in DOMAIN q :
           q[i].n = (IF i = 1 THEN Reached(r) ELSE q[i - 1].n) + 1 + q[i].droppedBefore
      /\ loop[r].read = Handed(r) + (IF loop[r].pc = "queued" THEN 0 ELSE w[r].pendingDropped)
                        + (IF loop[r].pc = "offering" THEN 1 ELSE 0)

(***************************************************************************)
(* The backup as a whole: a well-formed state in which no frame is lost    *)
(* unnoticed and no unit stands at a wrong time.                           *)
(***************************************************************************)
RecordingTrue == TypeOK /\ PositionsTrue /\ Accounted

(***************************************************************************)
(* The status tells of this run's backup and of no other: a failure shows  *)
(* exactly while the current run's writer is off or dead, although the     *)
(* last run's writer may still be draining (LocalBackupMonitor.kt:17-19).  *)
(***************************************************************************)
StatusIsThisRuns ==
  LET r == monitor.generation IN
  r # 0 => (monitor.failure <=> (w[r].off # "on" \/ w[r].pc = "crashed"))

(***************************************************************************)
(* A writer that was told to finish does, though the stop frame finds no   *)
(* room in a full queue (LocalRecorder.kt:266).  Being told and having     *)
(* ended are both for good, so it is enough that the two agree again and   *)
(* again.                                                                  *)
(***************************************************************************)
WriterEnds == []<>(\A r \in Runs : w[r].finishing => w[r].pc \in {"ended", "crashed"})

(***************************************************************************)
(* stop() is "called by the capture loop once it can offer nothing more,   *)
(* so the last frame read before Stop is kept" (LocalRecorder.kt:200-201): *)
(* the writer of a single run leaves no frame behind.                      *)
(***************************************************************************)
LastFrameKept ==
  \A r \in Runs : (started = r /\ w[r].pc = "ended") => w[r].runSamples = loop[r].read
=============================================================================
