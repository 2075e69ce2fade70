---------------------------- MODULE Recorder_proofs ----------------------------
(***************************************************************************)
(* Proof that the phone's own copy of a capture accounts for every frame,  *)
(* puts each at its time and reports the current run only, for any number  *)
(* of runs, frames and failures and any length of the queue, of a segment  *)
(* and of a gap that is filled (LocalRecorder.kt, LocalBackupMonitor.kt).  *)
(***************************************************************************)
EXTENDS Recorder, TLAPS

Taking == {"joining", "polling", "idle", "frame"}

\* A writer whose segment is where it belongs; p is the position after the open one.
Placed(x, p) ==
  /\ x \in Writers
  /\ x.encoderFailures <= MaxFailures + 1
  /\ x.off # "on" => ~IsOpen(x)
  /\ IsOpen(x) => x.segment.start + Len(x.segment.units) = p
  /\ x.segment # None =>
       \A i \in DOMAIN x.segment.units : x.segment.units[i] \in {Silence, x.segment.start + i}

\* And whose encoder, unless it was given up, has attempts left.
Kept(x, p) == Placed(x, p) /\ (x.off # "ENCODER_FATAL" => x.encoderFailures < MaxFailures)

Sound(x) == Kept(x, x.runSamples)

\* A writer between two of its steps.
Resting(x) ==
  /\ Sound(x)
  /\ x.told = "nothing"
  /\ Len(x.queue) <= QueueFrames
  /\ x.pc \notin {"frame", "tail"} => x.gap = 0
  /\ x.pc = "frame" => x.n = x.runSamples + x.gap + 1
  /\ x.pc \in {"tail", "ended"} => x.finishing
  /\ \A i \in DOMAIN x.queue : x.queue[i] = StopFrame => x.finishing

\* No stop frame up to place i of a queue.
NoStop(q, i) == \A j \in 1 .. i : q[j] # StopFrame

\* A queued frame follows the one before it but for the gap that it carries.  What comes
\* after a stop frame is taken by nobody.
InLine(r) ==
  LET q == w[r].queue IN
  \A i \in DOMAIN q :
    NoStop(q, i) => q[i].n = (IF i = 1 THEN Reached(r) ELSE q[i - 1].n) + 1 + q[i].droppedBefore

\* The frames read are those handed over and those dropped since, for as long as the loop
\* may still hand one over.
Counted(r) ==
  (~w[r].finishing \/ loop[r].pc \in {"offering", "queued"}) /\ NoStop(w[r].queue, Len(w[r].queue))
    => loop[r].read = Handed(r) + (IF loop[r].pc = "queued" THEN 0 ELSE w[r].pendingDropped)
                      + (IF loop[r].pc = "offering" THEN 1 ELSE 0)

\* The counts stay within the frames read.
Bounded(r) ==
  /\ w[r].pendingDropped + (IF loop[r].pc = "offering" THEN 1 ELSE 0) <= loop[r].read
  /\ loop[r].read <= frames

NewWriter ==
  [pc |-> "none", queue |-> <<>>, finishing |-> FALSE, pendingDropped |-> 0, n |-> 0,
   gap |-> 0, runSamples |-> 0, segment |-> None, off |-> "on", encoderFailures |-> 0,
   told |-> "nothing"]

\* A run and its writer begin together; only the last run's may not have been told to finish.
Begun(r) ==
  /\ r <= started <=> w[r].pc # "none"
  /\ r <= started <=> loop[r].pc # "none"
  /\ r > started => w[r] = NewWriter /\ loop[r].read = 0
  /\ r <= started /\ ~w[r].finishing => writer = r

StatusInv ==
  /\ monitor.generation = started
  /\ writer # None => writer = started
  /\ started # 0 => (monitor.failure <=> (w[started].off # "on" \/ w[started].pc = "crashed"))

RunInv(r) ==
  /\ Resting(w[r])
  /\ Begun(r)
  /\ Bounded(r)
  /\ w[r].pc \in Taking => InLine(r) /\ Counted(r)

RecorderInv == TypeOK /\ StatusInv /\ \A r \in Runs : RunInv(r)
-----------------------------------------------------------------------------
(* What the operators of the writer do to it.                               *)

\* The call of setFailure is the truth of the switch after it; no call, no change.
Honest(x, y) ==
  /\ y.told = "nothing" => (y.off = "on" <=> x.off = "on")
  /\ y.told = "failure" => y.off # "on"
  /\ y.told = "resumed" => y.off = "on"

\* What only the thread's loop changes.
SameWork(x, y) ==
  /\ y.pc = x.pc /\ y.queue = x.queue /\ y.finishing = x.finishing
  /\ y.pendingDropped = x.pendingDropped /\ y.n = x.n /\ y.gap = x.gap

\* Closing the segment keeps its units.
LEMMA ClosedPlaced ==
  ASSUME NEW x, NEW p, Placed(x, p)
  PROVE  LET y == Closed(x) IN
         /\ Placed(y, y.runSamples) /\ ~IsOpen(y) /\ SameWork(x, y)
         /\ y.runSamples = x.runSamples /\ y.off = x.off /\ y.told = x.told
         /\ y.encoderFailures = x.encoderFailures
<1>1. CASE IsOpen(x)
  <2>1. x.segment \in Segments
    BY <1>1 DEF Placed, Writers, IsOpen
  <2> DEFINE s == [x.segment EXCEPT !.open = FALSE]
  <2>2. s \in Segments /\ s.units = x.segment.units /\ s.start = x.segment.start /\ ~s.open
    BY <2>1 DEF Segments
  <2>3. Closed(x) = [x EXCEPT !.segment = s]
    BY <1>1 DEF Closed
  <2> HIDE DEF s
  <2>4. [x EXCEPT !.segment = s] \in Writers
    BY <2>2 DEF Placed, Writers
  <2> QED
    BY <1>1, <2>2, <2>3, <2>4 DEF Placed, Writers, IsOpen, SameWork
<1>2. CASE ~IsOpen(x)
  BY <1>2 DEF Closed, Placed, SameWork
<1> QED
  BY <1>1, <1>2

LEMMA ClosedSound ==
  ASSUME NEW x, NEW p, Kept(x, p)
  PROVE  LET y == Closed(x) IN
         /\ Sound(y) /\ ~IsOpen(y) /\ SameWork(x, y)
         /\ y.runSamples = x.runSamples /\ y.off = x.off /\ y.told = x.told
         /\ y.encoderFailures = x.encoderFailures
BY ClosedPlaced DEF Sound, Kept

\* A switch that turns off closes the segment and says so.
LEMMA TurnedSound ==
  ASSUME NEW x, NEW p, Placed(x, p), NEW off \in Offs \ {"on"}, NEW ef \in Nat,
         ef <= MaxFailures + 1, off # "ENCODER_FATAL" => ef < MaxFailures
  PROVE  LET y == [Turned(x, off) EXCEPT !.encoderFailures = ef] IN
         /\ Sound(y) /\ ~IsOpen(y) /\ SameWork(x, y) /\ y.runSamples = x.runSamples
         /\ y.off = off /\ y.told = "failure"
<1> DEFINE c == Closed(x)
<1>1. /\ Placed(c, c.runSamples) /\ ~IsOpen(c) /\ SameWork(x, c) /\ c.runSamples = x.runSamples
  BY ClosedPlaced
<1> DEFINE y == [[c EXCEPT !.off = off, !.told = "failure"] EXCEPT !.encoderFailures = ef]
<1>2. [Turned(x, off) EXCEPT !.encoderFailures = ef] = y
  BY DEF Turned
<1> HIDE DEF c
<1>3. y \in Writers
  BY <1>1 DEF Sound, Kept, Placed, Writers
<1>4. /\ y.off = off /\ y.told = "failure" /\ y.encoderFailures = ef /\ y.segment = c.segment
      /\ y.runSamples = c.runSamples /\ SameWork(c, y)
  BY <1>1 DEF Sound, Kept, Placed, Writers, SameWork
<1> HIDE DEF y
<1> QED
  BY <1>1, <1>2, <1>3, <1>4 DEF Sound, Kept, Placed, IsOpen, SameWork

LEMMA SwitchedOff ==
  ASSUME NEW x, Sound(x), NEW off \in {"STORAGE", "IO"}, x.off # "ENCODER_FATAL"
  PROVE  LET y == Turned(x, off) IN
         /\ Sound(y) /\ ~IsOpen(y) /\ SameWork(x, y) /\ y.runSamples = x.runSamples
         /\ y.off = off /\ y.told = "failure"
<1> DEFINE c == Closed(x)
<1>1. /\ Sound(c) /\ ~IsOpen(c) /\ SameWork(x, c) /\ c.runSamples = x.runSamples
      /\ c.encoderFailures = x.encoderFailures
  BY ClosedSound DEF Sound
<1> DEFINE y == [c EXCEPT !.off = off, !.told = "failure"]
<1>2. Turned(x, off) = y
  BY DEF Turned
<1> HIDE DEF c
<1>3. y \in Writers
  BY <1>1 DEF Sound, Kept, Placed, Writers, Offs
<1>4. /\ y.off = off /\ y.told = "failure" /\ y.encoderFailures = x.encoderFailures
      /\ y.segment = c.segment /\ y.runSamples = c.runSamples /\ SameWork(c, y)
  BY <1>1 DEF Sound, Kept, Placed, Writers, SameWork
<1> HIDE DEF y
<1> QED
  BY <1>1, <1>2, <1>3, <1>4 DEF Sound, Kept, Placed, IsOpen, SameWork

\* The switch that turns on again: nothing is open, and the encoder has attempts left.
LEMMA ResumedSound ==
  ASSUME NEW x, Sound(x), x.off # "ENCODER_FATAL"
  PROVE  LET y == Resumed(x) IN
         /\ Sound(y) /\ SameWork(x, y) /\ y.runSamples = x.runSamples /\ y.segment = x.segment
         /\ y.off = "on" /\ y.told = "resumed" /\ y.encoderFailures = x.encoderFailures
<1> DEFINE y == [x EXCEPT !.off = "on", !.told = "resumed"]
<1>1. y \in Writers
  BY DEF Sound, Kept, Placed, Writers, Offs
<1>2. /\ y.off = "on" /\ y.told = "resumed" /\ y.encoderFailures = x.encoderFailures
      /\ y.segment = x.segment /\ y.runSamples = x.runSamples /\ SameWork(x, y)
  BY DEF Sound, Kept, Placed, Writers, SameWork
<1> HIDE DEF y
<1>3. Resumed(x) = y
  BY DEF Resumed, y
<1> QED
  BY <1>1, <1>2, <1>3 DEF Sound, Kept, Placed, IsOpen

\* checkStorage changes the segment, the switch and nothing else.
LEMMA CheckedSound ==
  ASSUME NEW x, Sound(x), x.told = "nothing", NEW level \in Levels
  PROVE  LET y == Checked(x, level) IN
         /\ Sound(y) /\ SameWork(x, y) /\ y.runSamples = x.runSamples /\ Honest(x, y)
<1>1. CASE level = "unchecked" \/ x.off \in {"ENCODER", "ENCODER_FATAL"}
  BY <1>1 DEF Checked, Honest, SameWork
<1>2. CASE level = "low" /\ x.off \notin {"ENCODER", "ENCODER_FATAL"}
  <2>1. Checked(x, level) = Turned(x, "STORAGE")
    BY <1>2 DEF Checked
  <2> QED
    BY <1>2, <2>1, SwitchedOff DEF Honest
<1>3. CASE level = "fine" /\ x.off \in {"STORAGE", "IO"}
  <2>1. Checked(x, level) = Resumed(x)
    BY <1>3 DEF Checked
  <2> QED
    BY <1>3, <2>1, ResumedSound DEF Honest
<1>4. CASE level = "between" /\ x.off = "IO"
  <2>1. Checked(x, level) = Resumed(x)
    BY <1>4 DEF Checked
  <2> QED
    BY <1>4, <2>1, ResumedSound DEF Honest
<1>5. CASE /\ ~(level = "unchecked" \/ x.off \in {"ENCODER", "ENCODER_FATAL"})
           /\ ~(level = "low" /\ x.off \notin {"ENCODER", "ENCODER_FATAL"})
           /\ ~(level = "fine" /\ x.off \in {"STORAGE", "IO"})
           /\ ~(level = "between" /\ x.off = "IO")
  <2>1. Checked(x, level) = x
    BY <1>5 DEF Checked
  <2> QED
    BY <2>1 DEF Honest, SameWork
<1> QED
  BY <1>1, <1>2, <1>3, <1>4, <1>5

\* A unit goes to the open segment, or to a new one, at the position the writer has reached.
LEMMA FedSound ==
  ASSUME NEW x, Sound(x), x.told = "nothing", x.off \in {"on", "ENCODER"},
         NEW unit \in Units, unit \in {Silence, x.runSamples + 1}
  PROVE  LET y == Fed(x, unit) IN
         /\ y \in Writers /\ SameWork(x, y) /\ y.runSamples = x.runSamples /\ y.off = "on"
         /\ y.told = IF x.off = "on" THEN "nothing" ELSE "resumed"
         /\ y.encoderFailures < MaxFailures
         /\ y.segment \in Segments /\ y.segment.open
         /\ y.segment.start + Len(y.segment.units) = y.runSamples + 1
         /\ \A i \in DOMAIN y.segment.units :
              y.segment.units[i] \in {Silence, y.segment.start + i}
<1> DEFINE s == IF IsOpen(x) THEN x.segment
                ELSE [start |-> x.runSamples, units |-> <<>>, open |-> TRUE]
           v == [s EXCEPT !.units = Append(@, unit)]
           y == [x EXCEPT !.segment = v]
<1>1. /\ s \in Segments /\ s.open /\ s.start + Len(s.units) = x.runSamples
      /\ \A i \in DOMAIN s.units : s.units[i] \in {Silence, s.start + i}
  <2>1. CASE IsOpen(x)
    BY <2>1 DEF Sound, Kept, Placed, IsOpen, Writers
  <2>2. CASE ~IsOpen(x)
    BY <2>2 DEF Sound, Kept, Placed, Segments, Writers
  <2> QED
    BY <2>1, <2>2
<1>2. /\ v \in Segments /\ v.open /\ v.start = s.start /\ v.units = Append(s.units, unit)
      /\ s.units \in Seq(Units)
  <2> HIDE DEF s
  <2> QED
    BY SMTT(30), <1>1 DEF Segments
<1>3. /\ v.start + Len(v.units) = x.runSamples + 1
      /\ \A i \in DOMAIN v.units : v.units[i] \in {Silence, v.start + i}
  <2> HIDE DEF s, v
  <2>1. s.start \in Nat /\ x.runSamples \in Nat
    BY <1>1 DEF Segments, Sound, Kept, Placed, Writers
  <2>2. Len(v.units) = Len(s.units) + 1 /\ DOMAIN v.units = 1 .. Len(s.units) + 1
    BY <1>2
  <2>3. \A i \in 1 .. Len(s.units) : v.units[i] = s.units[i]
    BY <1>2
  <2>4. v.units[Len(s.units) + 1] = unit
    BY <1>2
  <2>5. s.start + Len(s.units) + 1 = x.runSamples + 1
    BY <1>1, <2>1
  <2> QED
    BY SMTT(30), <1>1, <1>2, <2>1, <2>2, <2>3, <2>4, <2>5
<1> HIDE DEF s, v
<1>4. /\ y \in Writers /\ SameWork(x, y) /\ y.runSamples = x.runSamples /\ y.off = x.off
      /\ y.told = x.told /\ y.encoderFailures = x.encoderFailures /\ y.segment = v
  BY <1>2 DEF Sound, Kept, Placed, Writers, SameWork
<1>5. Fed(x, unit) = IF x.off = "ENCODER" THEN [Resumed(y) EXCEPT !.encoderFailures = 0] ELSE y
  BY DEF Fed, s, v
<1> HIDE DEF y
<1>6. CASE x.off = "ENCODER"
  <2> DEFINE z == [[y EXCEPT !.off = "on", !.told = "resumed"] EXCEPT !.encoderFailures = 0]
  <2>1. Fed(x, unit) = z
    BY <1>5, <1>6 DEF Resumed
  <2>2. /\ z \in Writers /\ SameWork(y, z) /\ z.runSamples = y.runSamples /\ z.off = "on"
        /\ z.told = "resumed" /\ z.encoderFailures = 0 /\ z.segment = y.segment
    BY <1>4 DEF Writers, SameWork, Offs
  <2> HIDE DEF z
  <2>3. z.segment = v /\ SameWork(x, z) /\ z.runSamples = x.runSamples
    BY <1>4, <2>2 DEF SameWork
  <2>4. 0 < MaxFailures
    BY RecorderAssumption
  <2>5. z.told = IF x.off = "on" THEN "nothing" ELSE "resumed"
    BY <1>6, <2>2
  <2> QED
    BY <1>2, <1>3, <2>1, <2>2, <2>3, <2>4, <2>5
<1>7. CASE x.off = "on"
  BY <1>2, <1>3, <1>4, <1>5, <1>7 DEF Sound, Kept, Placed
<1> QED
  BY <1>6, <1>7

\* What a write leaves: the writer has moved on by one unit.
LEMMA AdvancedSound ==
  ASSUME NEW y, y \in Writers, NEW k \in Nat
  PROVE  LET z == Advanced(y, k) IN
         /\ z \in Writers /\ SameWork(y, z) /\ z.runSamples = y.runSamples + k
         /\ z.segment = y.segment /\ z.off = y.off /\ z.told = y.told
         /\ z.encoderFailures = y.encoderFailures
BY DEF Advanced, Writers, SameWork

\* With nothing open the position may move on freely.
LEMMA AdvancedClosed ==
  ASSUME NEW y, Sound(y), ~IsOpen(y), NEW k \in Nat
  PROVE  LET z == Advanced(y, k) IN
         /\ Sound(z) /\ SameWork(y, z) /\ z.runSamples = y.runSamples + k
         /\ z.off = y.off /\ z.told = y.told
<1> DEFINE z == Advanced(y, k)
<1>1. /\ z \in Writers /\ SameWork(y, z) /\ z.runSamples = y.runSamples + k
      /\ z.segment = y.segment /\ z.off = y.off /\ z.told = y.told
      /\ z.encoderFailures = y.encoderFailures
  BY AdvancedSound DEF Sound, Kept, Placed
<1> HIDE DEF z
<1> QED
  BY <1>1 DEF Sound, Kept, Placed, IsOpen, z

\* fillDropped without filling: the gap passes, the next unit opens a new segment.
LEMMA SkippedSound ==
  ASSUME NEW x, Sound(x), x.told = "nothing"
  PROVE  LET y == Skipped(x) IN
         /\ Sound(y) /\ y.told = "nothing" /\ y.off = x.off
         /\ y.runSamples = x.runSamples + x.gap /\ y.gap = 0
         /\ y.pc = x.pc /\ y.queue = x.queue /\ y.finishing = x.finishing
         /\ y.pendingDropped = x.pendingDropped /\ y.n = x.n
<1> DEFINE z == Advanced(Closed(x), x.gap)
<1>1. x.gap \in Nat
  BY DEF Sound, Kept, Placed, Writers, Units
<1>2. /\ Sound(Closed(x)) /\ ~IsOpen(Closed(x)) /\ SameWork(x, Closed(x))
      /\ Closed(x).runSamples = x.runSamples /\ Closed(x).off = x.off /\ Closed(x).told = x.told
  BY ClosedSound DEF Sound
<1>3. /\ Sound(z) /\ SameWork(Closed(x), z) /\ z.runSamples = x.runSamples + x.gap
      /\ z.off = x.off /\ z.told = "nothing"
  BY <1>1, <1>2, AdvancedClosed
<1> HIDE DEF z
<1> DEFINE y == [z EXCEPT !.gap = 0]
<1>6. 0 \in Units
  BY RecorderAssumption DEF Units
<1>4. /\ y \in Writers /\ y.gap = 0 /\ y.segment = z.segment /\ y.off = z.off /\ y.told = z.told
      /\ y.encoderFailures = z.encoderFailures /\ y.runSamples = z.runSamples /\ y.pc = z.pc
      /\ y.queue = z.queue /\ y.finishing = z.finishing /\ y.pendingDropped = z.pendingDropped
      /\ y.n = z.n
  BY <1>3, <1>6 DEF Sound, Kept, Placed, Writers
<1>5. Skipped(x) = y
  BY DEF Skipped, z
<1> HIDE DEF y
<1> QED
  BY <1>2, <1>3, <1>4, <1>5 DEF Sound, Kept, Placed, IsOpen, SameWork

LEMMA EncoderFailedSound ==
  ASSUME NEW x, NEW p, Placed(x, p), x.encoderFailures <= MaxFailures
  PROVE  LET y == EncoderFailed(x) IN
         /\ Sound(y) /\ ~IsOpen(y) /\ SameWork(x, y) /\ y.runSamples = x.runSamples
         /\ y.off # "on" /\ y.told = "failure"
<1> DEFINE failures == x.encoderFailures + 1
           off == IF failures >= MaxFailures THEN "ENCODER_FATAL" ELSE "ENCODER"
<1>1. /\ failures \in Nat /\ failures <= MaxFailures + 1
      /\ off \in Offs \ {"on"} /\ (off # "ENCODER_FATAL" => failures < MaxFailures)
  BY RecorderAssumption DEF Placed, Writers, Offs
<1>2. EncoderFailed(x) = [Turned(x, off) EXCEPT !.encoderFailures = failures]
  BY DEF EncoderFailed
<1> HIDE DEF failures, off
<1> QED
  BY <1>1, <1>2, TurnedSound

(***************************************************************************)
(* write(), whatever becomes of it: the file's units stay at their times,  *)
(* the switch is told of truthfully and one unit of time has passed.       *)
(***************************************************************************)
LEMMA WrittenSound ==
  ASSUME NEW x, Sound(x), x.told = "nothing", x.off \in {"on", "ENCODER"},
         NEW unit \in Units, unit \in {Silence, x.runSamples + 1},
         NEW outcome \in Outcomes
  PROVE  LET z == Advanced(Written(x, unit, outcome), 1) IN
         /\ Sound(z) /\ SameWork(x, z) /\ z.runSamples = x.runSamples + 1 /\ Honest(x, z)
<1> DEFINE y == Fed(x, unit)
           failures == y.encoderFailures + 1
           v == Written(x, unit, outcome)
           z == Advanced(v, 1)
<1> SUFFICES Sound(z) /\ SameWork(x, z) /\ z.runSamples = x.runSamples + 1 /\ Honest(x, z)
  OBVIOUS
<1>1. /\ y \in Writers /\ SameWork(x, y) /\ y.runSamples = x.runSamples /\ y.off = "on"
      /\ y.told = IF x.off = "on" THEN "nothing" ELSE "resumed"
      /\ y.encoderFailures < MaxFailures
      /\ y.segment \in Segments /\ y.segment.open
      /\ y.segment.start + Len(y.segment.units) = y.runSamples + 1
      /\ \A i \in DOMAIN y.segment.units :
           y.segment.units[i] \in {Silence, y.segment.start + i}
  BY FedSound
<1>2. ASSUME Sound(v), ~IsOpen(v), SameWork(x, v), v.runSamples = x.runSamples, Honest(x, v)
      PROVE  Sound(z) /\ SameWork(x, z) /\ z.runSamples = x.runSamples + 1 /\ Honest(x, z)
  <2> HIDE DEF v
  <2> QED
    BY <1>2, AdvancedClosed DEF SameWork, Honest
<1> HIDE DEF y
<1>3. /\ y.encoderFailures \in Nat /\ x.encoderFailures \in Nat /\ x.runSamples \in Nat
      /\ MaxFailures \in Nat /\ 0 < MaxFailures
  BY <1>1, RecorderAssumption DEF Sound, Kept, Placed, Writers
<1>4. Kept(y, x.runSamples + 1)
  BY <1>1, <1>3 DEF Kept, Placed, IsOpen
<1>5. CASE outcome = "io"
  <2>1. v = Turned(x, "IO")
    BY <1>5 DEF Written
  <2> QED
    BY <1>2, <2>1, SwitchedOff DEF Honest
<1>6. CASE outcome = "encoder"
  <2>1. v = EncoderFailed(x)
    BY <1>6 DEF Written
  <2>2. x.encoderFailures <= MaxFailures
    BY <1>3 DEF Sound, Kept
  <2> HIDE DEF v
  <2> QED
    BY <1>2, <2>1, <2>2, EncoderFailedSound DEF Honest, Sound, Kept
<1> DEFINE c == Closed(y)
<1>7. /\ Sound(c) /\ ~IsOpen(c) /\ SameWork(x, c) /\ c.runSamples = x.runSamples
      /\ c.off = y.off /\ c.told = y.told
  BY <1>1, <1>4, ClosedSound DEF SameWork
<1> HIDE DEF c
<1>8. ASSUME NEW ef \in Nat, ef < MaxFailures
      PROVE  LET u == [c EXCEPT !.encoderFailures = ef] IN
             Sound(u) /\ ~IsOpen(u) /\ SameWork(x, u) /\ u.runSamples = x.runSamples /\ Honest(x, u)
  <2> DEFINE u == [c EXCEPT !.encoderFailures = ef]
  <2>1. /\ u \in Writers /\ u.segment = c.segment /\ u.runSamples = c.runSamples /\ u.off = c.off
        /\ u.told = c.told /\ u.encoderFailures = ef /\ SameWork(c, u)
    BY <1>7 DEF Sound, Kept, Placed, Writers, SameWork
  <2> HIDE DEF u
  <2>2. ef <= MaxFailures + 1
    BY <1>3, <1>8
  <2>3. Sound(u) /\ ~IsOpen(u)
    BY <1>7, <1>8, <2>1, <2>2 DEF Sound, Kept, Placed, IsOpen
  <2>4. SameWork(x, u) /\ u.runSamples = x.runSamples /\ Honest(x, u)
    BY <1>1, <1>7, <2>1 DEF SameWork, Honest
  <2> QED
    BY <2>3, <2>4 DEF u
<1>9. CASE outcome = "tailLost" /\ failures < MaxFailures
  <2>1. v = [c EXCEPT !.encoderFailures = failures]
    BY <1>3, <1>9 DEF Written, c, y
  <2>2. failures \in Nat
    BY <1>3
  <2> HIDE DEF v, failures
  <2> QED
    BY <1>2, <1>8, <1>9, <2>1, <2>2
<1>10. CASE outcome = "tailLost" /\ failures >= MaxFailures
  <2> DEFINE u == [y EXCEPT !.encoderFailures = failures]
  <2>1. v = EncoderFailed(u)
    BY <1>3, <1>10 DEF Written, y
  <2>2. failures \in Nat /\ failures <= MaxFailures
    BY <1>1, <1>3
  <2> HIDE DEF v, failures
  <2>3. /\ u \in Writers /\ u.segment = y.segment /\ u.runSamples = y.runSamples /\ u.off = y.off
        /\ u.told = y.told /\ u.encoderFailures = failures /\ SameWork(y, u)
    BY <1>1, <2>2 DEF Writers, SameWork
  <2> HIDE DEF u
  <2>4. failures <= MaxFailures + 1
    BY <1>3, <2>2
  <2>5. Placed(u, x.runSamples + 1)
    BY <1>4, <2>3, <2>4 DEF Kept, Placed, IsOpen
  <2>6. /\ Sound(v) /\ ~IsOpen(v) /\ SameWork(u, v) /\ v.runSamples = u.runSamples
        /\ v.off # "on" /\ v.told = "failure"
    BY <2>1, <2>2, <2>3, <2>5, EncoderFailedSound
  <2> QED
    BY <1>1, <1>2, <2>3, <2>6 DEF SameWork, Honest
<1>11. CASE outcome = "ok" /\ Full(y)
  <2>1. v = [c EXCEPT !.encoderFailures = 0]
    BY <1>11 DEF Written, c, y
  <2> HIDE DEF v
  <2> QED
    BY <1>2, <1>3, <1>8, <2>1
<1>12. CASE outcome = "ok" /\ ~Full(y)
  <2>1. v = y
    BY <1>12 DEF Written, y
  <2>2. /\ z \in Writers /\ SameWork(y, z) /\ z.runSamples = y.runSamples + 1
        /\ z.segment = y.segment /\ z.off = y.off /\ z.told = y.told
        /\ z.encoderFailures = y.encoderFailures
    BY <1>1, <2>1, AdvancedSound
  <2> HIDE DEF z
  <2>3. Sound(z)
    BY <1>1, <1>4, <2>2 DEF Sound, Kept, Placed, IsOpen
  <2> QED
    BY <1>1, <2>2, <2>3 DEF SameWork, Honest
<1>13. failures < MaxFailures \/ failures >= MaxFailures
  BY <1>3
<1> QED
  BY <1>5, <1>6, <1>9, <1>10, <1>11, <1>12, <1>13 DEF Outcomes

-----------------------------------------------------------------------------
(* What every step keeps.                                                   *)

LEMMA RestingNext ==
  ASSUME NEW r, Resting(w'[r])
  PROVE  Resting(w[r])'
BY DEF Resting, Sound, Kept, Placed, IsOpen

\* A run that a step leaves alone.
LEMMA OtherRun ==
  ASSUME NEW x \in Runs, RunInv(x), w'[x] = w[x], loop'[x] = loop[x], started' = started,
         x <= started /\ ~w[x].finishing => writer' = x,
         frames \in Nat, frames' \in Nat, frames <= frames', loop[x].read \in Nat
  PROVE  RunInv(x)'
<1>1. Resting(w[x])'
  BY RestingNext DEF RunInv
<1>2. Begun(x)'
  BY DEF RunInv, Begun, NewWriter
<1>3. Bounded(x)'
  BY DEF RunInv, Bounded
<1>4. w[x].pc \in Taking => InLine(x) /\ Counted(x)
  BY DEF RunInv
<1>5. (w[x].pc \in Taking)' => InLine(x)' /\ Counted(x)'
  BY <1>4 DEF InLine, Counted, Reached, Handed, Taking
<1> QED
  BY <1>1, <1>2, <1>3, <1>5 DEF RunInv

\* A writer with its report delivered.
LEMMA Delivered ==
  ASSUME NEW y, y \in Writers
  PROVE  LET z == [y EXCEPT !.told = "nothing"] IN
         /\ z \in Writers /\ SameWork(y, z) /\ z.runSamples = y.runSamples
         /\ z.segment = y.segment /\ z.off = y.off /\ z.told = "nothing"
         /\ z.encoderFailures = y.encoderFailures
BY DEF Writers, SameWork

\* What a writer may be after a step of its thread.
Ready(x, y) ==
  /\ Sound(y)
  /\ IF y.pc = "crashed" THEN y.told = "failure" ELSE Honest(x, y)
  /\ y.finishing = x.finishing
  /\ y.pendingDropped <= x.pendingDropped
  /\ Len(y.queue) <= QueueFrames
  /\ y.pc # "none"
  /\ y.pc \notin {"frame", "tail"} => y.gap = 0
  /\ y.pc = "frame" => y.n = y.runSamples + y.gap + 1
  /\ y.pc \in {"tail", "ended"} => y.finishing
  /\ \A i \in DOMAIN y.queue : y.queue[i] = StopFrame => y.finishing

(***************************************************************************)
(* A step of a writer thread keeps the invariant when it leaves a sound    *)
(* writer whose queue goes on where the writer stands.                     *)
(***************************************************************************)
LEMMA WriterMoves ==
  ASSUME RecorderInv, NEW r \in Runs, w[r].pc \notin {"none", "crashed"},
         NEW y, Becomes(r, y), Ready(w[r], y),
         UNCHANGED faults \/ (faults < MaxFaults /\ faults' = faults + 1),
         y.pc \in Taking => InLine(r)' /\ Counted(r)'
  PROVE  RecorderInv'
<1> DEFINE z == [y EXCEPT !.told = "nothing"]
<1>1. /\ w' = [w EXCEPT ![r] = z] /\ monitor' = Heard(r, y.told)
      /\ UNCHANGED <<writer, started, loop, frames>>
  BY DEF Becomes
<1>2. y \in Writers
  BY DEF Ready, Sound, Kept, Placed
<1>3. /\ z \in Writers /\ SameWork(y, z) /\ z.runSamples = y.runSamples
      /\ z.segment = y.segment /\ z.off = y.off /\ z.told = "nothing"
      /\ z.encoderFailures = y.encoderFailures
  BY <1>2, Delivered
<1> HIDE DEF z
<1>4. w'[r] = z /\ w \in [Runs -> Writers] /\ w' \in [Runs -> Writers]
  BY <1>1, <1>3 DEF RecorderInv, TypeOK
<1>5. \A x \in Runs \ {r} : w'[x] = w[x]
  BY <1>1, <1>4
<1>6. Resting(z)
  BY <1>3 DEF Ready, Resting, Sound, Kept, Placed, IsOpen, SameWork
<1>7. TypeOK'
  <2>1. monitor' \in [generation : 0 .. MaxRuns, failure : BOOLEAN]
    BY <1>1 DEF Heard, RecorderInv, TypeOK
  <2>2. \A x \in Runs : Len(w'[x].queue) <= QueueFrames /\ w'[x].encoderFailures <= MaxFailures + 1
    BY <1>4, <1>5, <1>6 DEF Resting, Sound, Kept, Placed, RecorderInv, TypeOK
  <2>3. faults' \in 0 .. MaxFaults
    BY RecorderAssumption DEF RecorderInv, TypeOK
  <2> QED
    BY <1>1, <1>4, <2>1, <2>2, <2>3 DEF RecorderInv, TypeOK
<1>8. StatusInv'
  <2>1. started \in Nat /\ (r <= started)
    BY DEF RecorderInv, TypeOK, RunInv, Begun
  <2>2. z.off = y.off /\ z.pc = y.pc
    BY <1>3 DEF SameWork
  <2>3. y.told \in {"nothing", "failure", "resumed"}
    BY <1>2 DEF Writers
  <2>4. CASE r = monitor.generation
    <3>1. r = started /\ started # 0
      BY <2>4 DEF RecorderInv, StatusInv, Runs
    <3>2. monitor.failure <=> w[r].off # "on"
      BY <3>1 DEF RecorderInv, StatusInv
    <3>3. monitor'.failure <=> (y.off # "on" \/ y.pc = "crashed")
      BY <1>1, <2>3, <2>4, <3>2 DEF Heard, Ready, Honest, RecorderInv, TypeOK
    <3>4. monitor'.generation = monitor.generation
      BY <1>1 DEF Heard, RecorderInv, TypeOK
    <3> QED
      BY <1>1, <1>4, <2>2, <3>1, <3>3, <3>4 DEF RecorderInv, StatusInv
  <2>5. CASE r # monitor.generation
    <3>1. monitor' = monitor
      BY <1>1, <2>5 DEF Heard
    <3>2. started # 0 => started \in Runs \ {r}
      BY <2>5 DEF RecorderInv, StatusInv, TypeOK, Runs
    <3> QED
      BY <1>1, <1>5, <3>1, <3>2 DEF RecorderInv, StatusInv
  <2> QED
    BY <2>4, <2>5
<1>9. ASSUME NEW x \in Runs \ {r} PROVE RunInv(x)'
  <2>1. RunInv(x) /\ (x <= started /\ ~w[x].finishing => writer = x)
    BY DEF RecorderInv, RunInv, Begun
  <2>2. frames \in Nat /\ loop[x].read \in Nat
    BY DEF RecorderInv, TypeOK, Loops, Units
  <2> QED
    BY <1>1, <1>5, <2>1, <2>2, OtherRun
<1>10. RunInv(r)'
  <2>1. RunInv(r) /\ loop[r].read \in Nat /\ frames \in Nat /\ w[r] \in Writers
    BY DEF RecorderInv, TypeOK, Loops, Units
  <2>2. Resting(w[r])'
    BY <1>4, <1>6, RestingNext
  <2>3. z.pc = y.pc /\ z.finishing = y.finishing /\ z.pendingDropped = y.pendingDropped
    BY <1>3 DEF SameWork
  <2>4. Begun(r)'
    <3>1. r <= started /\ ~(r > started)
      BY <2>1 DEF RunInv, Begun, RecorderInv, TypeOK, Runs
    <3> QED
      BY <1>1, <1>4, <2>1, <2>3, <3>1 DEF RunInv, Begun, Ready
  <2>5. w[r].pendingDropped \in Nat /\ y.pendingDropped \in Nat
    BY <1>2, <2>1 DEF Writers, Units
  <2>6. Bounded(r)'
    BY <1>1, <1>4, <2>1, <2>3, <2>5 DEF RunInv, Bounded, Ready
  <2>7. (w[r].pc \in Taking)' => InLine(r)' /\ Counted(r)'
    BY <1>4, <2>3 DEF Taking
  <2> QED
    BY <2>2, <2>4, <2>6, <2>7 DEF RunInv
<1> QED
  BY <1>7, <1>8, <1>9, <1>10 DEF RecorderInv

\* The writer after a step of its thread that delivers y.
LEMMA After ==
  ASSUME RecorderInv, NEW r \in Runs, NEW y, y \in Writers, Becomes(r, y)
  PROVE  /\ w'[r] = [y EXCEPT !.told = "nothing"] /\ UNCHANGED loop
         /\ w'[r].pc = y.pc /\ w'[r].queue = y.queue /\ w'[r].finishing = y.finishing
         /\ w'[r].pendingDropped = y.pendingDropped /\ w'[r].gap = y.gap
         /\ w'[r].runSamples = y.runSamples
BY Delivered DEF Becomes, RecorderInv, TypeOK, SameWork

\* The queue and the position are those of before, so both accounts are.
LEMMA SameLine ==
  ASSUME RecorderInv, NEW r \in Runs, NEW y, y \in Writers, Becomes(r, y),
         w[r].pc \in Taking, y.pc \in Taking,
         y.queue = w[r].queue, y.finishing = w[r].finishing, y.pendingDropped = w[r].pendingDropped,
         y.runSamples + y.gap + (IF y.pc = "frame" THEN 1 ELSE 0) = Reached(r)
  PROVE  InLine(r)' /\ Counted(r)'
<1>1. /\ UNCHANGED loop
      /\ w'[r].pc = y.pc /\ w'[r].queue = w[r].queue /\ w'[r].finishing = w[r].finishing
      /\ w'[r].pendingDropped = w[r].pendingDropped /\ w'[r].gap = y.gap
      /\ w'[r].runSamples = y.runSamples
  BY After
<1>2. Reached(r)' = Reached(r)
  BY <1>1 DEF Reached
<1>3. InLine(r) /\ Counted(r)
  BY DEF RecorderInv, RunInv
<1>4. Handed(r)' = Handed(r)
  BY <1>1, <1>2 DEF Handed
<1> QED
  BY <1>1, <1>2, <1>3, <1>4 DEF InLine, Counted

LEMMA Facts ==
  ASSUME RecorderInv, NEW r \in Runs
  PROVE  /\ Sound(w[r]) /\ w[r] \in Writers /\ w[r].told = "nothing" /\ Resting(w[r])
         /\ w[r].gap \in Nat /\ w[r].runSamples \in Nat /\ w[r].n \in Nat
         /\ w[r].pendingDropped \in Nat /\ w[r].queue \in Seq(Frames \cup {StopFrame})
BY DEF RecorderInv, RunInv, Resting, Sound, Kept, Placed, Writers, Units

LEMMA CostsFaults ==
  ASSUME NEW x, NEW bad, Costs(x, bad)
  PROVE  UNCHANGED faults \/ (faults < MaxFaults /\ faults' = faults + 1)
BY DEF Costs

\* Setting the thread's place in its loop.
LEMMA PlaceSet ==
  ASSUME NEW x, Sound(x), NEW pc \in {"polling", "idle", "frame", "tail", "ended"}
  PROVE  LET y == [x EXCEPT !.pc = pc] IN
         /\ Sound(y) /\ y.pc = pc /\ y.queue = x.queue /\ y.finishing = x.finishing
         /\ y.pendingDropped = x.pendingDropped /\ y.n = x.n /\ y.gap = x.gap
         /\ y.runSamples = x.runSamples /\ y.off = x.off /\ y.told = x.told
<1> DEFINE y == [x EXCEPT !.pc = pc]
<1>1. /\ y \in Writers /\ y.pc = pc /\ y.queue = x.queue /\ y.finishing = x.finishing
      /\ y.pendingDropped = x.pendingDropped /\ y.n = x.n /\ y.gap = x.gap
      /\ y.runSamples = x.runSamples /\ y.off = x.off /\ y.told = x.told
      /\ y.segment = x.segment /\ y.encoderFailures = x.encoderFailures
  BY DEF Sound, Kept, Placed, Writers
<1> HIDE DEF y
<1> QED
  BY <1>1 DEF Sound, Kept, Placed, IsOpen, y

LEMMA JoinKeeps == ASSUME RecorderInv, NEW r \in Runs, Join(r) PROVE RecorderInv'
<1>1. PICK level \in Levels :
        /\ Costs(w[r], level = "low")
        /\ Becomes(r, [Checked(w[r], level) EXCEPT !.pc = "polling"])
  BY DEF Join
<1> DEFINE c == Checked(w[r], level)
           y == [c EXCEPT !.pc = "polling"]
<1>2. /\ Sound(c) /\ SameWork(w[r], c) /\ c.runSamples = w[r].runSamples /\ Honest(w[r], c)
  BY Facts, CheckedSound
<1> HIDE DEF c
<1>3. /\ Sound(y) /\ y.pc = "polling" /\ y.queue = c.queue /\ y.finishing = c.finishing
      /\ y.pendingDropped = c.pendingDropped /\ y.n = c.n /\ y.gap = c.gap
      /\ y.runSamples = c.runSamples /\ y.off = c.off /\ y.told = c.told
  BY <1>2, PlaceSet
<1>4. Becomes(r, y)
  BY <1>1 DEF c
<1> HIDE DEF y
<1>5. w[r].pc = "joining" /\ w[r].gap = 0
  BY Facts DEF Join, Resting
<1>6. Ready(w[r], y)
  BY <1>2, <1>3, <1>5, Facts DEF Ready, SameWork, Honest, Resting
<1>7. InLine(r)' /\ Counted(r)'
  BY <1>2, <1>3, <1>4, <1>5, SameLine DEF Sound, Kept, Placed, SameWork, Reached, Taking
<1> QED
  BY <1>1, <1>4, <1>5, <1>6, <1>7, CostsFaults, WriterMoves

LEMMA PollTimesOutKeeps == ASSUME RecorderInv, NEW r \in Runs, PollTimesOut(r) PROVE RecorderInv'
<1> DEFINE y == [w[r] EXCEPT !.pc = "idle"]
<1>1. Becomes(r, y) /\ UNCHANGED faults /\ w[r].pc = "polling" /\ w[r].gap = 0
  BY Facts DEF PollTimesOut, Resting
<1>2. /\ Sound(y) /\ y.pc = "idle" /\ y.queue = w[r].queue /\ y.finishing = w[r].finishing
      /\ y.pendingDropped = w[r].pendingDropped /\ y.n = w[r].n /\ y.gap = w[r].gap
      /\ y.runSamples = w[r].runSamples /\ y.off = w[r].off /\ y.told = w[r].told
  BY Facts, PlaceSet
<1> HIDE DEF y
<1>3. Ready(w[r], y)
  BY <1>1, <1>2, Facts DEF Ready, Honest, Resting
<1>4. InLine(r)' /\ Counted(r)'
  BY <1>1, <1>2, SameLine DEF Sound, Kept, Placed, Reached, Taking
<1> QED
  BY <1>1, <1>3, <1>4, WriterMoves

\* The loop of a writer is left: it is finishing, and what it took is written.
LEMMA TailedReady ==
  ASSUME RecorderInv, NEW r \in Runs, w[r].finishing,
         NEW q \in Seq(Frames \cup {StopFrame}), Len(q) <= QueueFrames
  PROVE  LET y == Tailed([w[r] EXCEPT !.queue = q]) IN
         Ready(w[r], y) /\ y.pc = "tail"
<1> DEFINE y == [[w[r] EXCEPT !.queue = q] EXCEPT !.gap = w[r].pendingDropped, !.pendingDropped = 0,
                                                  !.pc = "tail"]
<1>1. Tailed([w[r] EXCEPT !.queue = q]) = y
  BY Facts DEF Tailed, Writers
<1>2. 0 \in Units /\ 0 <= w[r].pendingDropped
  BY Facts, RecorderAssumption DEF Units
<1>3. /\ y \in Writers /\ y.pc = "tail" /\ y.queue = q /\ y.finishing = w[r].finishing
      /\ y.pendingDropped = 0 /\ y.runSamples = w[r].runSamples /\ y.off = w[r].off
      /\ y.told = w[r].told /\ y.segment = w[r].segment
      /\ y.encoderFailures = w[r].encoderFailures
  BY ZenonT(30), <1>2, Facts DEF Writers
<1> HIDE DEF y
<1> QED
  BY <1>1, <1>2, <1>3, Facts DEF Ready, Sound, Kept, Placed, IsOpen, Honest

LEMMA IdleKeeps == ASSUME RecorderInv, NEW r \in Runs, Idle(r) PROVE RecorderInv'
<1>1. CASE Drained(r) /\ Becomes(r, Tailed(w[r])) /\ UNCHANGED faults
  <2> DEFINE y == Tailed(w[r])
  <2>1. w[r] = [w[r] EXCEPT !.queue = w[r].queue]
    BY Facts DEF Writers
  <2>2. Len(w[r].queue) <= QueueFrames /\ w[r].finishing
    BY <1>1, Facts DEF Resting, Drained
  <2>3. Ready(w[r], y) /\ y.pc = "tail"
    BY <2>1, <2>2, Facts, TailedReady
  <2> HIDE DEF y
  <2>4. Becomes(r, y)
    BY <1>1 DEF y
  <2> QED
    BY <1>1, <2>3, <2>4, WriterMoves DEF Idle, Taking
<1>2. CASE \E level \in Levels :
             /\ Costs(w[r], level = "low")
             /\ Becomes(r, [Checked(w[r], level) EXCEPT !.pc = "polling"])
  <2>1. PICK level \in Levels :
          /\ Costs(w[r], level = "low")
          /\ Becomes(r, [Checked(w[r], level) EXCEPT !.pc = "polling"])
    BY <1>2
  <2> DEFINE c == Checked(w[r], level)
             y == [c EXCEPT !.pc = "polling"]
  <2>2. /\ Sound(c) /\ SameWork(w[r], c) /\ c.runSamples = w[r].runSamples /\ Honest(w[r], c)
    BY Facts, CheckedSound
  <2> HIDE DEF c
  <2>3. /\ Sound(y) /\ y.pc = "polling" /\ y.queue = c.queue /\ y.finishing = c.finishing
        /\ y.pendingDropped = c.pendingDropped /\ y.n = c.n /\ y.gap = c.gap
        /\ y.runSamples = c.runSamples /\ y.off = c.off /\ y.told = c.told
    BY <2>2, PlaceSet
  <2>4. Becomes(r, y)
    BY <2>1 DEF c
  <2> HIDE DEF y
  <2>5. w[r].pc = "idle" /\ w[r].gap = 0
    BY Facts DEF Idle, Resting
  <2>6. Ready(w[r], y)
    BY <2>2, <2>3, <2>5, Facts DEF Ready, SameWork, Honest, Resting
  <2>7. InLine(r)' /\ Counted(r)'
    BY <2>2, <2>3, <2>4, <2>5, SameLine DEF Sound, Kept, Placed, SameWork, Reached, Taking
  <2> QED
    BY <2>1, <2>4, <2>5, <2>6, <2>7, CostsFaults, WriterMoves
<1> QED
  BY <1>1, <1>2 DEF Idle

LEMMA TailIs ==
  ASSUME NEW S, NEW q \in Seq(S), q # <<>>
  PROVE  /\ Len(q) \in Nat \ {0} /\ Head(q) = q[1] /\ q[1] \in S
         /\ Tail(q) \in Seq(S) /\ Len(Tail(q)) = Len(q) - 1 /\ DOMAIN Tail(q) = 1 .. Len(q) - 1
         /\ \A i \in 1 .. Len(q) - 1 : Tail(q)[i] = q[i + 1]
         /\ DOMAIN q = 1 .. Len(q)
OBVIOUS

\* The frame at the head of the queue stands one unit and its gap after what was reached.
LEMMA HeadTaken ==
  ASSUME RecorderInv, NEW r \in Runs, w[r].pc = "polling", w[r].queue # <<>>,
         NEW y, y \in Writers, Becomes(r, y), Head(w[r].queue) # StopFrame,
         y.pc = "frame", y.queue = Tail(w[r].queue), y.gap = Head(w[r].queue).droppedBefore,
         y.runSamples = w[r].runSamples, y.finishing = w[r].finishing,
         y.pendingDropped = w[r].pendingDropped
  PROVE  /\ Head(w[r].queue).n = y.runSamples + y.gap + 1
         /\ InLine(r)' /\ Counted(r)'
<1> DEFINE q == w[r].queue
           f == Head(q)
           t == Tail(q)
<1>1. /\ q \in Seq(Frames \cup {StopFrame}) /\ Len(q) \in Nat \ {0} /\ f = q[1]
      /\ t \in Seq(Frames \cup {StopFrame}) /\ Len(t) = Len(q) - 1
      /\ \A i \in 1 .. Len(t) : t[i] = q[i + 1]
      /\ DOMAIN t = 1 .. Len(t) /\ DOMAIN q = 1 .. Len(q) /\ f \in Frames
  <2>1. q \in Seq(Frames \cup {StopFrame})
    BY Facts
  <2>2. /\ Len(q) \in Nat \ {0} /\ f = q[1] /\ q[1] \in Frames \cup {StopFrame}
        /\ t \in Seq(Frames \cup {StopFrame}) /\ Len(t) = Len(q) - 1
        /\ DOMAIN t = 1 .. Len(q) - 1
        /\ \A i \in 1 .. Len(q) - 1 : t[i] = q[i + 1]
        /\ DOMAIN q = 1 .. Len(q)
    BY <2>1, TailIs
  <2> HIDE DEF t, f
  <2> QED
    BY <2>1, <2>2 DEF f
<1>2. InLine(r) /\ Counted(r) /\ w[r].gap = 0 /\ w[r].runSamples \in Nat
  BY Facts DEF RecorderInv, RunInv, Resting, Taking
<1>3. /\ UNCHANGED loop /\ w'[r].pc = "frame" /\ w'[r].queue = t
      /\ w'[r].finishing = w[r].finishing /\ w'[r].pendingDropped = w[r].pendingDropped
      /\ w'[r].gap = f.droppedBefore /\ w'[r].runSamples = w[r].runSamples
  BY After
<1> HIDE DEF t, f
<1>4. f \in Frames /\ f.n \in Nat /\ f.droppedBefore \in Nat
  BY <1>1 DEF Frames, Units
<1>5. Reached(r) = w[r].runSamples
  BY <1>2 DEF Reached
<1>6. NoStop(q, 1)
  BY <1>1 DEF NoStop
<1>7. f.n = w[r].runSamples + 1 + f.droppedBefore
  BY <1>1, <1>2, <1>5, <1>6 DEF InLine
<1>8. Reached(r)' = f.n
  BY <1>2, <1>3, <1>4, <1>7 DEF Reached
<1>9. ASSUME NEW i \in 0 .. Len(t), NoStop(t, i) PROVE NoStop(q, i + 1)
  <2> SUFFICES ASSUME NEW j \in 1 .. i + 1 PROVE q[j] # StopFrame
    BY DEF NoStop
  <2>1. CASE j = 1
    BY <1>1, <2>1
  <2>2. CASE j # 1
    <3>1. j - 1 \in 1 .. i /\ j - 1 \in 1 .. Len(t) /\ (j - 1) + 1 = j
      BY <1>1, <2>2
    <3>2. t[j - 1] # StopFrame /\ t[j - 1] = q[j]
      BY <1>1, <1>9, <3>1 DEF NoStop
    <3> QED
      BY <3>2
  <2> QED
    BY <2>1, <2>2
<1>10. InLine(r)'
  <2> SUFFICES ASSUME NEW i \in 1 .. Len(t), NoStop(t, i)
               PROVE  t[i].n = (IF i = 1 THEN f.n ELSE t[i - 1].n) + 1 + t[i].droppedBefore
    BY <1>1, <1>3, <1>8 DEF InLine, NoStop
  <2>1. NoStop(q, i + 1) /\ i + 1 \in DOMAIN q /\ i + 1 # 1 /\ (i + 1) - 1 = i
    BY <1>1, <1>9
  <2>2. q[i + 1].n = q[i].n + 1 + q[i + 1].droppedBefore
    BY <1>2, <2>1 DEF InLine
  <2>3. CASE i = 1
    BY <1>1, <2>2, <2>3
  <2>4. CASE i # 1
    <3>1. t[i - 1] = q[i] /\ t[i] = q[i + 1]
      BY <1>1, <2>4
    <3> QED
      BY <2>2, <2>4, <3>1
  <2> QED
    BY <2>3, <2>4
<1>11. Handed(r)' = Handed(r)
  <2>1. CASE t = <<>>
    <3>1. Len(q) = 1
      BY <1>1, <2>1
    <3> QED
      BY <1>1, <1>3, <1>8, <2>1, <3>1 DEF Handed
  <2>2. CASE t # <<>>
    <3>1. Len(t) \in 1 .. Len(t) /\ Len(t) + 1 = Len(q)
      BY <1>1, <2>2
    <3>2. t[Len(t)] = q[Len(q)]
      BY <1>1, <3>1
    <3> QED
      BY <1>1, <1>3, <2>2, <3>2 DEF Handed
  <2> QED
    BY <2>1, <2>2
<1>12. Counted(r)'
  <2>1. NoStop(t, Len(t)) => NoStop(q, Len(q))
    BY <1>1, <1>9
  <2> QED
    BY <1>2, <1>3, <1>11, <2>1 DEF Counted, NoStop
<1> QED
  BY <1>2, <1>4, <1>7, <1>10, <1>12 DEF f

LEMMA TakeKeeps == ASSUME RecorderInv, NEW r \in Runs, Take(r) PROVE RecorderInv'
<1> DEFINE q == w[r].queue
           f == Head(q)
<1>1. /\ w[r].pc = "polling" /\ q # <<>> /\ q \in Seq(Frames \cup {StopFrame})
      /\ Tail(q) \in Seq(Frames \cup {StopFrame}) /\ Len(Tail(q)) = Len(q) - 1 /\ Len(q) \in Nat \ {0}
      /\ f = q[1] /\ f \in Frames \cup {StopFrame} /\ Len(q) <= QueueFrames
      /\ \A i \in DOMAIN Tail(q) : Tail(q)[i] = q[i + 1] /\ i + 1 \in DOMAIN q
  <2>1. w[r].pc = "polling" /\ q # <<>> /\ q \in Seq(Frames \cup {StopFrame})
        /\ Len(q) <= QueueFrames
    BY Facts DEF Take, Resting
  <2> HIDE DEF q
  <2>2. /\ Len(q) \in Nat \ {0} /\ Head(q) = q[1] /\ q[1] \in Frames \cup {StopFrame}
        /\ Tail(q) \in Seq(Frames \cup {StopFrame}) /\ Len(Tail(q)) = Len(q) - 1
        /\ DOMAIN Tail(q) = 1 .. Len(q) - 1
        /\ \A i \in 1 .. Len(q) - 1 : Tail(q)[i] = q[i + 1]
        /\ DOMAIN q = 1 .. Len(q)
    BY <2>1, TailIs
  <2> QED
    BY <2>1, <2>2
<1>2. Len(Tail(q)) <= QueueFrames
  BY <1>1, RecorderAssumption
<1>3. CASE f = StopFrame /\ Becomes(r, Tailed([w[r] EXCEPT !.queue = Tail(q)])) /\ UNCHANGED faults
  <2> DEFINE y == Tailed([w[r] EXCEPT !.queue = Tail(q)])
  <2>1. w[r].finishing
    BY <1>1, <1>3, Facts DEF Resting
  <2>2. Ready(w[r], y) /\ y.pc = "tail"
    BY <1>1, <1>2, <2>1, TailedReady
  <2> HIDE DEF y
  <2>3. Becomes(r, y)
    BY <1>3 DEF y
  <2> QED
    BY <1>1, <1>3, <2>2, <2>3, WriterMoves DEF Taking
<1>4. CASE f # StopFrame /\ \E level \in Levels :
             /\ Costs(w[r], level = "low")
             /\ Becomes(r, [Checked(w[r], level) EXCEPT !.queue = Tail(@), !.pc = "frame", !.n = f.n,
                                                       !.gap = f.droppedBefore])
  <2>1. PICK level \in Levels :
          /\ Costs(w[r], level = "low")
          /\ Becomes(r, [Checked(w[r], level) EXCEPT !.queue = Tail(@), !.pc = "frame", !.n = f.n,
                                                    !.gap = f.droppedBefore])
    BY <1>4
  <2> DEFINE c == Checked(w[r], level)
             y == [c EXCEPT !.queue = Tail(@), !.pc = "frame", !.n = f.n, !.gap = f.droppedBefore]
  <2>2. /\ Sound(c) /\ SameWork(w[r], c) /\ c.runSamples = w[r].runSamples /\ Honest(w[r], c)
    BY Facts, CheckedSound
  <2>3. Becomes(r, y)
    BY <2>1
  <2> HIDE DEF c
  <2>4. f.n \in Units /\ f.droppedBefore \in Units /\ f \in Frames
    BY <1>1, <1>4 DEF Frames, Units
  <2> HIDE DEF f
  <2>5. /\ y \in Writers /\ y.pc = "frame" /\ y.queue = Tail(q) /\ y.finishing = w[r].finishing
        /\ y.pendingDropped = w[r].pendingDropped /\ y.n = f.n /\ y.gap = f.droppedBefore
        /\ y.runSamples = w[r].runSamples /\ y.off = c.off /\ y.told = c.told
        /\ y.segment = c.segment /\ y.encoderFailures = c.encoderFailures
    BY <1>1, <2>2, <2>4 DEF Sound, Kept, Placed, Writers, SameWork
  <2> HIDE DEF y
  <2>6. /\ f.n = y.runSamples + y.gap + 1
        /\ InLine(r)' /\ Counted(r)'
    BY <1>1, <1>4, <2>3, <2>5, HeadTaken DEF f
  <2>7. \A i \in DOMAIN y.queue : y.queue[i] = StopFrame => y.finishing
    BY <1>1, <2>5, Facts DEF Resting
  <2>8. Ready(w[r], y)
    BY <1>1, <1>2, <2>2, <2>5, <2>6, <2>7, Facts
       DEF Ready, Sound, Kept, Placed, IsOpen, Honest, SameWork
  <2> QED
    BY <1>1, <2>1, <2>3, <2>6, <2>8, CostsFaults, WriterMoves
<1> QED
  BY <1>3, <1>4 DEF Take

LEMMA SkipGapKeeps == ASSUME RecorderInv, NEW r \in Runs, SkipGap(r) PROVE RecorderInv'
<1> DEFINE y == Skipped(w[r])
<1>1. /\ w[r].pc \in {"frame", "tail"} /\ Becomes(r, y) /\ UNCHANGED faults
  BY DEF SkipGap
<1>2. /\ Sound(y) /\ y.told = "nothing" /\ y.off = w[r].off
      /\ y.runSamples = w[r].runSamples + w[r].gap /\ y.gap = 0
      /\ y.pc = w[r].pc /\ y.queue = w[r].queue /\ y.finishing = w[r].finishing
      /\ y.pendingDropped = w[r].pendingDropped /\ y.n = w[r].n
  BY Facts, SkippedSound
<1> HIDE DEF y
<1>3. Ready(w[r], y)
  BY <1>1, <1>2, Facts DEF Ready, Honest, Resting
<1>4. y.pc \in Taking => InLine(r)' /\ Counted(r)'
  BY <1>1, <1>2, Facts, SameLine DEF Sound, Kept, Placed, Reached, Taking
<1> QED
  BY <1>1, <1>3, <1>4, WriterMoves

LEMMA FillGapKeeps == ASSUME RecorderInv, NEW r \in Runs, FillGap(r) PROVE RecorderInv'
<1>1. PICK o \in Outcomes :
        /\ Costs(w[r], o # "ok")
        /\ Becomes(r, [Advanced(Written(w[r], Silence, o), 1) EXCEPT !.gap = @ - 1])
  BY DEF FillGap
<1>2. /\ w[r].pc \in {"frame", "tail"} /\ w[r].gap \in Units /\ w[r].gap > 0
      /\ w[r].off \in {"on", "ENCODER"} /\ 0 \in Units
  BY SMTT(30), Facts, RecorderAssumption DEF FillGap, Writable, Writers, Units
<1> DEFINE v == Advanced(Written(w[r], Silence, o), 1)
           y == [v EXCEPT !.gap = @ - 1]
<1>3. /\ Sound(v) /\ SameWork(w[r], v) /\ v.runSamples = w[r].runSamples + 1 /\ Honest(w[r], v)
  BY <1>2, Facts, WrittenSound DEF Silence
<1>4. Becomes(r, y)
  BY <1>1
<1> HIDE DEF v
<1>5. v.gap - 1 \in Units
  BY <1>2, <1>3, RecorderAssumption DEF SameWork, Units
<1>6. /\ y \in Writers /\ y.pc = v.pc /\ y.queue = v.queue /\ y.finishing = v.finishing
      /\ y.pendingDropped = v.pendingDropped /\ y.n = v.n /\ y.gap = v.gap - 1
      /\ y.runSamples = v.runSamples /\ y.off = v.off /\ y.told = v.told
      /\ y.segment = v.segment /\ y.encoderFailures = v.encoderFailures
  BY <1>3, <1>5 DEF Sound, Kept, Placed, Writers
<1> HIDE DEF y
<1>7. y.runSamples + y.gap = w[r].runSamples + w[r].gap
  BY <1>2, <1>3, <1>6, Facts DEF SameWork
<1>8. Ready(w[r], y)
  BY <1>2, <1>3, <1>6, <1>7, Facts DEF Ready, Sound, Kept, Placed, IsOpen, Honest, SameWork, Resting
<1>9. y.pc \in Taking => InLine(r)' /\ Counted(r)'
  BY <1>2, <1>3, <1>4, <1>6, <1>7, SameLine DEF SameWork, Reached, Taking
<1> QED
  BY <1>1, <1>2, <1>4, <1>8, <1>9, CostsFaults, WriterMoves

\* A frame taken is written or passed over, and is behind the writer then.
LEMMA FrameDone ==
  ASSUME RecorderInv, NEW r \in Runs, w[r].pc = "frame", w[r].gap = 0,
         NEW v, Sound(v), SameWork(w[r], v), v.runSamples = w[r].runSamples + 1, Honest(w[r], v),
         Becomes(r, [v EXCEPT !.pc = "polling", !.n = 0]),
         UNCHANGED faults \/ (faults < MaxFaults /\ faults' = faults + 1)
  PROVE  RecorderInv'
<1> DEFINE y == [v EXCEPT !.pc = "polling", !.n = 0]
<1>1. 0 \in Units
  BY RecorderAssumption DEF Units
<1>5. Becomes(r, y)
  OBVIOUS
<1>2. /\ y \in Writers /\ y.pc = "polling" /\ y.queue = v.queue /\ y.finishing = v.finishing
      /\ y.pendingDropped = v.pendingDropped /\ y.gap = v.gap
      /\ y.runSamples = v.runSamples /\ y.off = v.off /\ y.told = v.told
      /\ y.segment = v.segment /\ y.encoderFailures = v.encoderFailures
  BY <1>1 DEF Sound, Kept, Placed, Writers
<1> HIDE DEF y
<1>3. Ready(w[r], y)
  BY <1>2, Facts DEF Ready, Sound, Kept, Placed, IsOpen, Honest, SameWork, Resting
<1>4. InLine(r)' /\ Counted(r)'
  BY <1>2, <1>5, Facts, SameLine DEF SameWork, Reached, Taking
<1> QED
  BY <1>2, <1>3, <1>4, <1>5, WriterMoves

LEMMA WriteFrameKeeps == ASSUME RecorderInv, NEW r \in Runs, WriteFrame(r) PROVE RecorderInv'
<1>1. /\ w[r].pc = "frame" /\ w[r].gap = 0 /\ w[r].n \in Units /\ w[r].n = w[r].runSamples + 1
  <2>1. w[r].pc = "frame" /\ w[r].gap = 0
    BY DEF WriteFrame
  <2> QED
    BY <2>1, Facts DEF Resting, Writers
<1>2. CASE /\ Writable(w[r], TRUE)
           /\ \E o \in Outcomes :
                /\ Can(w[r], w[r].n, o)
                /\ Costs(w[r], o # "ok")
                /\ Becomes(r, [Advanced(Written(w[r], w[r].n, o), 1) EXCEPT !.pc = "polling", !.n = 0])
  <2>1. PICK o \in Outcomes :
          /\ Costs(w[r], o # "ok")
          /\ Becomes(r, [Advanced(Written(w[r], w[r].n, o), 1) EXCEPT !.pc = "polling", !.n = 0])
    BY <1>2
  <2> DEFINE v == Advanced(Written(w[r], w[r].n, o), 1)
  <2>2. w[r].off \in {"on", "ENCODER"}
    BY <1>2 DEF Writable
  <2>3. /\ Sound(v) /\ SameWork(w[r], v) /\ v.runSamples = w[r].runSamples + 1 /\ Honest(w[r], v)
    BY <1>1, <2>2, Facts, WrittenSound
  <2> QED
    BY <1>1, <2>1, <2>3, CostsFaults, FrameDone
<1>3. CASE /\ ~Writable(w[r], FALSE)
           /\ Becomes(r, [Passed(w[r]) EXCEPT !.pc = "polling", !.n = 0])
           /\ UNCHANGED faults
  <2> DEFINE v == Advanced(w[r], 1)
  <2>1. Sound(w[r]) /\ ~IsOpen(w[r])
    BY <1>3, Facts DEF Writable, Sound, Kept, Placed
  <2>2. /\ Sound(v) /\ SameWork(w[r], v) /\ v.runSamples = w[r].runSamples + 1
        /\ v.off = w[r].off /\ v.told = w[r].told
    BY <2>1, AdvancedClosed
  <2>3. Honest(w[r], v)
    BY <2>2, Facts DEF Honest
  <2> QED
    BY <1>1, <1>3, <2>2, <2>3, FrameDone DEF Passed
<1> QED
  BY <1>2, <1>3 DEF WriteFrame

LEMMA DeadSound ==
  ASSUME NEW x, Sound(x)
  PROVE  LET d == Dead(x) IN
         /\ d \in Writers /\ d.queue = <<>> /\ d.finishing = x.finishing
         /\ d.pendingDropped = x.pendingDropped /\ d.gap = 0 /\ d.off = x.off /\ d.told = x.told
         /\ d.segment = None /\ d.encoderFailures = 0 /\ d.pc = x.pc
<1>1. 0 \in Units /\ x \in Writers
  BY RecorderAssumption DEF Units, Sound, Kept, Placed
<1>2. <<>> \in Seq(Frames \cup {StopFrame}) /\ 0 \in Nat /\ None \in Segments \cup {None}
  OBVIOUS
<1> QED
  BY <1>1, <1>2 DEF Dead, Writers

LEMMA EndKeeps == ASSUME RecorderInv, NEW r \in Runs, End(r) PROVE RecorderInv'
<1> DEFINE y == [Dead(w[r]) EXCEPT !.pc = "ended"]
<1>1. w[r].pc = "tail" /\ Becomes(r, y) /\ UNCHANGED faults
  BY DEF End
<1>2. 0 \in Units /\ 0 < MaxFailures /\ 0 <= QueueFrames /\ 0 <= MaxFailures + 1
  BY RecorderAssumption DEF Units
<1>3. /\ y \in Writers /\ y.pc = "ended" /\ y.queue = <<>> /\ y.finishing = w[r].finishing
      /\ y.pendingDropped = w[r].pendingDropped /\ y.gap = 0 /\ y.off = w[r].off
      /\ y.told = w[r].told /\ y.segment = None /\ y.encoderFailures = 0
  BY Facts, DeadSound DEF Writers
<1> HIDE DEF y
<1>4. Ready(w[r], y)
  BY <1>1, <1>2, <1>3, Facts DEF Ready, Sound, Kept, Placed, IsOpen, Honest, Resting
<1> QED
  BY <1>1, <1>3, <1>4, WriterMoves DEF Taking

LEMMA CrashKeeps == ASSUME RecorderInv, NEW r \in Runs, Crash(r) PROVE RecorderInv'
<1> DEFINE y == [Dead(w[r]) EXCEPT !.pc = "crashed", !.told = "failure", !.runSamples = 0]
<1>1. /\ w[r].pc \in {"polling", "idle", "frame", "tail"} /\ Becomes(r, y)
      /\ faults < MaxFaults /\ faults' = faults + 1
  BY DEF Crash
<1>2. 0 \in Units /\ 0 < MaxFailures /\ 0 <= QueueFrames /\ 0 <= MaxFailures + 1
  BY RecorderAssumption DEF Units
<1>3. /\ y \in Writers /\ y.pc = "crashed" /\ y.queue = <<>> /\ y.finishing = w[r].finishing
      /\ y.pendingDropped = w[r].pendingDropped /\ y.gap = 0 /\ y.off = w[r].off
      /\ y.told = "failure" /\ y.segment = None /\ y.encoderFailures = 0
  <2> DEFINE d == Dead(w[r])
  <2>1. /\ d \in Writers /\ d.queue = <<>> /\ d.finishing = w[r].finishing
        /\ d.pendingDropped = w[r].pendingDropped /\ d.gap = 0 /\ d.off = w[r].off
        /\ d.segment = None /\ d.encoderFailures = 0
    BY Facts, DeadSound
  <2> HIDE DEF d
  <2>2. [d EXCEPT !.pc = "crashed", !.told = "failure", !.runSamples = 0] \in Writers
    BY <2>1 DEF Writers
  <2> QED
    BY <2>1, <2>2 DEF Writers, d
<1> HIDE DEF y
<1>4. Ready(w[r], y)
  BY <1>1, <1>2, <1>3, Facts DEF Ready, Sound, Kept, Placed, IsOpen, Resting
<1> QED
  BY <1>1, <1>3, <1>4, WriterMoves DEF Taking

-----------------------------------------------------------------------------
(* Steps of the main thread and of the capture loops.                       *)

LEMMA LoopFacts ==
  ASSUME RecorderInv, NEW r \in Runs
  PROVE  /\ loop[r] \in Loops /\ loop[r].read \in Nat /\ frames \in Nat /\ frames <= MaxFrames
         /\ MaxFrames \in Nat /\ started \in Nat /\ r \in Nat /\ loop \in [Runs -> Loops]
         /\ w \in [Runs -> Writers]
BY RecorderAssumption DEF RecorderInv, TypeOK, Loops, Units, Runs

(***************************************************************************)
(* A step that changes run r's loop and, of its writer, the queue and the  *)
(* counts only.                                                            *)
(***************************************************************************)
LEMMA LoopMoves ==
  ASSUME RecorderInv, NEW r \in Runs, loop[r].pc # "none",
         NEW y, w' = [w EXCEPT ![r] = y], y.pc = w[r].pc, y.off = w[r].off, Resting(y),
         NEW l \in Loops, loop' = [loop EXCEPT ![r] = l], l.pc # "none",
         UNCHANGED <<started, monitor, faults>>,
         writer' = writer \/ (writer = r /\ writer' = None),
         ~y.finishing => writer' = r,
         UNCHANGED frames \/ (frames' = frames + 1 /\ frames < MaxFrames),
         y.pendingDropped + (IF l.pc = "offering" THEN 1 ELSE 0) <= l.read, l.read <= frames',
         y.pc \in Taking => InLine(r)' /\ Counted(r)'
  PROVE  RecorderInv'
<1>1. y \in Writers
  BY DEF Resting, Sound, Kept, Placed
<1>2. w'[r] = y /\ w' \in [Runs -> Writers] /\ loop'[r] = l /\ loop' \in [Runs -> Loops]
  BY <1>1, LoopFacts
<1>3. \A x \in Runs \ {r} : w'[x] = w[x] /\ loop'[x] = loop[x]
  BY LoopFacts
<1>4. frames' \in Nat /\ frames <= frames' /\ frames' <= MaxFrames
  BY LoopFacts
<1>5. r <= started /\ started # 0 /\ ~(r > started) /\ w[r].pc # "none"
  BY LoopFacts DEF RecorderInv, RunInv, Begun, Runs
<1>6. TypeOK'
  <2>1. \A x \in Runs : Len(w'[x].queue) <= QueueFrames /\ w'[x].encoderFailures <= MaxFailures + 1
    BY <1>2, <1>3 DEF Resting, Sound, Kept, Placed, RecorderInv, TypeOK
  <2>2. writer' \in Runs \cup {None} /\ frames' \in 0 .. MaxFrames
    BY <1>4, LoopFacts DEF RecorderInv, TypeOK
  <2> QED
    BY <1>2, <2>1, <2>2 DEF RecorderInv, TypeOK
<1>7. StatusInv'
  <2>1. w'[started].off = w[started].off /\ w'[started].pc = w[started].pc
    BY <1>2, <1>3, <1>5 DEF RecorderInv, TypeOK, Runs
  <2> QED
    BY <2>1 DEF RecorderInv, StatusInv
<1>8. ASSUME NEW x \in Runs \ {r} PROVE RunInv(x)'
  <2>1. RunInv(x)
    BY DEF RecorderInv
  <2>2. x <= started /\ ~w[x].finishing => writer' = x
    BY <2>1 DEF RunInv, Begun
  <2> QED
    BY <1>3, <1>4, <2>1, <2>2, LoopFacts, OtherRun
<1>9. RunInv(r)'
  <2>1. Resting(w[r])'
    BY <1>2, RestingNext
  <2>2. Begun(r)'
    BY <1>2, <1>5 DEF Begun
  <2>3. Bounded(r)'
    BY <1>2 DEF Bounded
  <2>4. (w[r].pc \in Taking)' => InLine(r)' /\ Counted(r)'
    BY <1>2 DEF Taking
  <2> QED
    BY <2>1, <2>2, <2>3, <2>4 DEF RunInv
<1> QED
  BY <1>6, <1>7, <1>8, <1>9 DEF RecorderInv

LEMMA StopClickedKeeps == ASSUME RecorderInv, StopClicked PROVE RecorderInv'
<1> DEFINE r == started
           l == [loop[r] EXCEPT !.cancelled = TRUE]
<1>1. r \in Runs /\ loop[r].pc # "none" /\ UNCHANGED <<writer, w, monitor, frames, faults, started>>
  BY DEF StopClicked, Capturing, RecorderInv, TypeOK, Runs
<1>2. loop' = [loop EXCEPT ![r] = l] /\ w' = [w EXCEPT ![r] = w[r]]
  BY <1>1, LoopFacts DEF StopClicked
<1>3. l \in Loops /\ l.pc = loop[r].pc /\ l.read = loop[r].read
  BY <1>1, LoopFacts DEF Loops
<1>4. RunInv(r)
  BY <1>1 DEF RecorderInv
<1>5. loop'[r] = l
  BY <1>1, <1>2, LoopFacts
<1>6. w[r].pc \in Taking => InLine(r)' /\ Counted(r)'
  BY <1>1, <1>3, <1>4, <1>5 DEF RunInv, InLine, Counted, Reached, Handed
<1>7. /\ ~w[r].finishing => writer' = r
      /\ w[r].pendingDropped + (IF l.pc = "offering" THEN 1 ELSE 0) <= l.read /\ l.read <= frames'
      /\ Resting(w[r])
  BY <1>1, <1>3, <1>4, LoopFacts DEF RunInv, Begun, Bounded
<1> HIDE DEF l
<1> QED
  BY <1>1, <1>2, <1>3, <1>6, <1>7, LoopMoves

LEMMA LoopEndsKeeps == ASSUME RecorderInv, NEW r \in Runs, LoopEnds(r) PROVE RecorderInv'
<1> DEFINE l == [loop[r] EXCEPT !.pc = "ending"]
<1>1. loop[r].pc = "reading" /\ UNCHANGED <<writer, w, monitor, frames, faults, started>>
  BY DEF LoopEnds
<1>2. loop' = [loop EXCEPT ![r] = l] /\ w' = [w EXCEPT ![r] = w[r]]
  BY <1>1, LoopFacts DEF LoopEnds
<1>3. l \in Loops /\ l.pc = "ending" /\ l.read = loop[r].read
  BY <1>1, LoopFacts DEF Loops
<1>4. RunInv(r)
  BY DEF RecorderInv
<1>5. loop'[r] = l
  BY <1>2, LoopFacts
<1>6. w[r].pc \in Taking => InLine(r)' /\ Counted(r)'
  BY <1>1, <1>3, <1>4, <1>5 DEF RunInv, InLine, Counted, Reached, Handed
<1>7. /\ ~w[r].finishing => writer' = r
      /\ w[r].pendingDropped + (IF l.pc = "offering" THEN 1 ELSE 0) <= l.read /\ l.read <= frames'
      /\ Resting(w[r])
  BY <1>1, <1>3, <1>4, LoopFacts DEF RunInv, Begun, Bounded
<1> HIDE DEF l
<1> QED
  BY <1>1, <1>2, <1>3, <1>6, <1>7, LoopMoves

LEMMA HandedNat == ASSUME RecorderInv, NEW r \in Runs PROVE Handed(r) \in Nat
<1>1. CASE w[r].queue = <<>>
  BY <1>1, Facts DEF Handed, Reached
<1>2. CASE w[r].queue # <<>>
  <2>1. w[r].queue[Len(w[r].queue)] \in Frames \cup {StopFrame}
    BY <1>2, Facts
  <2> QED
    BY <1>2, <2>1 DEF Handed, Frames, StopFrame
<1> QED
  BY <1>1, <1>2

LEMMA ReadKeeps == ASSUME RecorderInv, NEW r \in Runs, Read(r) PROVE RecorderInv'
<1> DEFINE offers == writer = r /\ ~w[r].finishing
           l == [loop[r] EXCEPT !.read = @ + 1,
                                !.pc = IF offers THEN "offering" ELSE Onwards(loop[r])]
<1>1. loop[r].pc = "reading" /\ UNCHANGED <<writer, w, monitor, faults, started>>
      /\ frames' = frames + 1 /\ frames < MaxFrames
  BY DEF Read
<1>2. loop' = [loop EXCEPT ![r] = l] /\ w' = [w EXCEPT ![r] = w[r]]
  BY <1>1, LoopFacts DEF Read
<1>3. RunInv(r)
  BY DEF RecorderInv
<1>4. /\ l \in Loops /\ l.read = loop[r].read + 1
      /\ l.pc \in {"reading", "offering", "ending"} /\ (l.pc = "offering" <=> offers)
  <2>1. loop[r].read + 1 \in Units
    BY <1>1, <1>3, LoopFacts DEF RunInv, Bounded, Units
  <2> HIDE DEF offers
  <2> QED
    BY <2>1, LoopFacts DEF Loops, Onwards
<1> HIDE DEF l
<1>5. loop'[r] = l
  BY <1>2, LoopFacts
<1>6. ~offers => w[r].finishing
  BY <1>1, <1>3 DEF RunInv, Begun
<1>7. w[r].pc \in Taking => InLine(r)' /\ Counted(r)'
  <2> SUFFICES ASSUME w[r].pc \in Taking PROVE InLine(r)' /\ Counted(r)'
    OBVIOUS
  <2>1. InLine(r) /\ Counted(r)
    BY <1>3 DEF RunInv
  <2>2. Handed(r)' = Handed(r) /\ InLine(r)'
    BY <1>1, <2>1 DEF InLine, Handed, Reached
  <2>3. CASE offers
    <3>1. NoStop(w[r].queue, Len(w[r].queue)) => loop[r].read = Handed(r) + w[r].pendingDropped + 0
      BY <1>1, <2>1, <2>3 DEF Counted
    <3>2. l.pc = "offering" /\ l.read = loop[r].read + 1 /\ w[r].pendingDropped \in Nat
          /\ loop[r].read \in Nat
      BY <1>4, <2>3, Facts, LoopFacts
    <3>3. NoStop(w[r].queue, Len(w[r].queue)) => l.read = Handed(r) + w[r].pendingDropped + 1
      <4> SUFFICES ASSUME NoStop(w[r].queue, Len(w[r].queue))
                   PROVE  l.read = Handed(r) + w[r].pendingDropped + 1
        OBVIOUS
      <4>1. Handed(r) \in Nat
        BY HandedNat
      <4> QED
        BY <3>1, <3>2, <4>1
    <3> QED
      BY <1>1, <1>5, <2>2, <3>2, <3>3 DEF Counted
  <2>4. CASE ~offers
    <3>1. Counted(r)'
      BY <1>1, <1>4, <1>5, <1>6, <2>4 DEF Counted
    <3> QED
      BY <2>2, <3>1
  <2> QED
    BY <2>3, <2>4
<1>8. /\ ~w[r].finishing => writer' = r
      /\ w[r].pendingDropped + (IF l.pc = "offering" THEN 1 ELSE 0) <= l.read /\ l.read <= frames'
      /\ Resting(w[r])
  <2>1. w[r].pendingDropped <= loop[r].read /\ loop[r].read <= frames
    BY <1>1, <1>3, Facts, LoopFacts DEF RunInv, Bounded
  <2> QED
    BY <1>1, <1>3, <1>4, <1>6, <2>1, Facts, LoopFacts DEF RunInv
<1> QED
  BY <1>1, <1>2, <1>4, <1>7, <1>8, LoopMoves

LEMMA AppendIs ==
  ASSUME NEW S, NEW q \in Seq(S), NEW f \in S
  PROVE  /\ Append(q, f) \in Seq(S) /\ Len(Append(q, f)) = Len(q) + 1 /\ Append(q, f) # q
         /\ Append(q, f) # <<>> /\ Append(q, f)[Len(q) + 1] = f
         /\ DOMAIN Append(q, f) = 1 .. Len(q) + 1 /\ Len(q) \in Nat /\ DOMAIN q = 1 .. Len(q)
         /\ \A i \in 1 .. Len(q) : Append(q, f)[i] = q[i]
OBVIOUS

\* A loop that offers has read a frame that is counted nowhere yet.
LEMMA OfferedFrame ==
  ASSUME RecorderInv, NEW r \in Runs, loop[r].pc = "offering"
  PROVE  [n |-> loop[r].read, droppedBefore |-> w[r].pendingDropped] \in Frames
<1>1. RunInv(r)
  BY DEF RecorderInv
<1>2. w[r].pendingDropped + 1 <= loop[r].read /\ loop[r].read <= frames
  BY <1>1 DEF RunInv, Bounded
<1> QED
  BY <1>2, Facts, LoopFacts DEF Frames, Units

LEMMA OfferKeeps == ASSUME RecorderInv, NEW r \in Runs, Offer(r) PROVE RecorderInv'
<1> DEFINE q == w[r].queue
           f == [n |-> loop[r].read, droppedBefore |-> w[r].pendingDropped]
           S == Frames \cup {StopFrame}
<1>1. /\ loop[r].pc = "offering" /\ UNCHANGED <<writer, started, monitor, frames, faults>>
      /\ q \in Seq(S) /\ Len(q) <= QueueFrames
  BY Facts DEF Offer, Resting
<1>2. f \in Frames /\ f \in S /\ f # StopFrame /\ f.n = loop[r].read
      /\ f.droppedBefore = w[r].pendingDropped
  BY <1>1, OfferedFrame DEF Frames, StopFrame
<1>3. RunInv(r) /\ Resting(w[r])
  BY DEF RecorderInv, RunInv
<1>4. w[r].pendingDropped + 1 <= loop[r].read /\ loop[r].read <= frames
  BY <1>1, <1>3 DEF RunInv, Bounded
<1>5. ~w[r].finishing => writer' = r
  BY <1>1, <1>3, LoopFacts DEF RunInv, Begun
<1>6. /\ Append(q, f) \in Seq(S) /\ Len(Append(q, f)) = Len(q) + 1 /\ Append(q, f) # q
      /\ Append(q, f) # <<>> /\ Append(q, f)[Len(q) + 1] = f
      /\ DOMAIN Append(q, f) = 1 .. Len(q) + 1 /\ Len(q) \in Nat /\ DOMAIN q = 1 .. Len(q)
      /\ \A i \in 1 .. Len(q) : Append(q, f)[i] = q[i]
  <2> HIDE DEF q, f, S
  <2> QED
    BY <1>1, <1>2, AppendIs
<1> DEFINE qq == Append(q, f)
<1>7. CASE Len(q) < QueueFrames
  <2> DEFINE y == [w[r] EXCEPT !.queue = qq]
             l == [loop[r] EXCEPT !.pc = "queued"]
  <2>1. w' = [w EXCEPT ![r] = y] /\ loop' = [loop EXCEPT ![r] = l]
    BY <1>1, <1>6, <1>7, Facts, LoopFacts DEF Offer, Offered
  <2> HIDE DEF qq, f
  <2>2. /\ y \in Writers /\ y.queue = qq /\ y.pc = w[r].pc /\ y.finishing = w[r].finishing
        /\ y.pendingDropped = w[r].pendingDropped /\ y.n = w[r].n /\ y.gap = w[r].gap
        /\ y.runSamples = w[r].runSamples /\ y.off = w[r].off /\ y.told = w[r].told
        /\ y.segment = w[r].segment /\ y.encoderFailures = w[r].encoderFailures
    BY <1>6, Facts DEF Writers, qq
  <2> HIDE DEF y
  <2>3. l \in Loops /\ l.pc = "queued" /\ l.read = loop[r].read
    BY LoopFacts DEF Loops
  <2> HIDE DEF l
  <2>4. Resting(y)
    <3>1. \A i \in DOMAIN qq : qq[i] = StopFrame => w[r].finishing
      BY <1>2, <1>3, <1>6 DEF Resting, qq
    <3>2. Len(qq) <= QueueFrames
      BY <1>6, <1>7, RecorderAssumption DEF qq
    <3> QED
      BY <1>3, <2>2, <3>1, <3>2 DEF Resting, Sound, Kept, Placed, IsOpen
  <2>5. y.pc \in Taking => InLine(r)' /\ Counted(r)'
    <3> SUFFICES ASSUME w[r].pc \in Taking PROVE InLine(r)' /\ Counted(r)'
      BY <2>2
    <3>1. InLine(r) /\ Counted(r)
      BY <1>3 DEF RunInv
    <3>2. w'[r] = y /\ loop'[r] = l
      BY <2>1, LoopFacts
    <3>3. Reached(r)' = Reached(r)
      BY <2>2, <3>2 DEF Reached
    <3>4. NoStop(q, Len(q)) => loop[r].read = Handed(r) + w[r].pendingDropped + 1
      BY <1>1, <3>1 DEF Counted
    <3>5. Handed(r)' = loop[r].read
      BY <1>2, <1>6, <2>2, <3>2 DEF Handed, qq
    <3>6. \A i \in 1 .. Len(q) : qq[i] = q[i] /\ (NoStop(qq, i) => NoStop(q, i))
      BY <1>6 DEF NoStop, qq
    <3>7. ASSUME NEW i \in 1 .. Len(q) + 1, NoStop(qq, i)
          PROVE  qq[i].n = (IF i = 1 THEN Reached(r) ELSE qq[i - 1].n) + 1 + qq[i].droppedBefore
      <4>1. CASE i <= Len(q)
        <5>1. NoStop(q, i) /\ qq[i] = q[i] /\ i \in 1 .. Len(q)
          BY <1>6, <3>6, <3>7, <4>1
        <5>2. q[i].n = (IF i = 1 THEN Reached(r) ELSE q[i - 1].n) + 1 + q[i].droppedBefore
          BY <1>6, <3>1, <5>1 DEF InLine
        <5>3. i # 1 => qq[i - 1] = q[i - 1]
          BY <1>6, <3>6, <4>1
        <5> QED
          BY <5>1, <5>2, <5>3
      <4>2. CASE i = Len(q) + 1
        <5>1. NoStop(q, Len(q))
          BY <1>6, <3>7, <4>2 DEF NoStop, qq
        <5>2. loop[r].read = Handed(r) + 1 + w[r].pendingDropped
          <6>1. /\ Handed(r) \in Nat /\ w[r].pendingDropped \in Nat
                /\ loop[r].read = Handed(r) + w[r].pendingDropped + 1
            BY <3>4, <5>1, Facts, HandedNat
          <6> QED
            BY <6>1
        <5>3. qq[i] = f
          BY <1>6, <4>2 DEF qq
        <5>4. Handed(r) = IF i = 1 THEN Reached(r) ELSE qq[i - 1].n
          <6>1. CASE q = <<>>
            <7>1. i = 1
              BY <1>1, <4>2, <6>1
            <7> QED
              BY <6>1, <7>1 DEF Handed
          <6>2. CASE q # <<>>
            <7>1. i # 1 /\ i - 1 = Len(q) /\ Len(q) \in 1 .. Len(q)
              BY <1>1, <1>6, <4>2, <6>2
            <7>2. qq[i - 1] = q[Len(q)]
              BY <3>6, <7>1
            <7> QED
              BY <6>2, <7>1, <7>2 DEF Handed
          <6> QED
            BY <6>1, <6>2
        <5> QED
          BY <1>2, <5>2, <5>3, <5>4
      <4> QED
        BY <1>6, <4>1, <4>2
    <3>8. InLine(r)'
      BY ZenonT(30), <1>6, <2>2, <3>2, <3>3, <3>7 DEF InLine, NoStop, qq
    <3>9. Counted(r)'
      BY <2>3, <3>2, <3>5, LoopFacts DEF Counted
    <3> QED
      BY <3>8, <3>9
  <2>6. y.pendingDropped + (IF l.pc = "offering" THEN 1 ELSE 0) <= l.read /\ l.read <= frames'
    BY <1>1, <1>4, <2>2, <2>3, Facts, LoopFacts
  <2> QED
    BY <1>1, <1>5, <2>1, <2>2, <2>3, <2>4, <2>5, <2>6, LoopMoves
<1>8. CASE ~(Len(q) < QueueFrames)
  <2> DEFINE y == [w[r] EXCEPT !.pendingDropped = @ + 1]
             l == [loop[r] EXCEPT !.pc = Onwards(loop[r])]
  <2>1. w' = [w EXCEPT ![r] = y] /\ loop' = [loop EXCEPT ![r] = l]
    BY <1>8, LoopFacts DEF Offer, Offered
  <2>2. w[r].pendingDropped + 1 \in Units
    BY <1>4, Facts, LoopFacts DEF Units
  <2>3. /\ y \in Writers /\ y.queue = q /\ y.pc = w[r].pc /\ y.finishing = w[r].finishing
        /\ y.pendingDropped = w[r].pendingDropped + 1 /\ y.n = w[r].n /\ y.gap = w[r].gap
        /\ y.runSamples = w[r].runSamples /\ y.off = w[r].off /\ y.told = w[r].told
        /\ y.segment = w[r].segment /\ y.encoderFailures = w[r].encoderFailures
    BY <2>2, Facts DEF Writers
  <2> HIDE DEF y
  <2>4. l \in Loops /\ l.pc \in {"reading", "ending"} /\ l.read = loop[r].read
    BY LoopFacts DEF Loops, Onwards
  <2> HIDE DEF l
  <2>5. Resting(y)
    BY <1>3, <2>3 DEF Resting, Sound, Kept, Placed, IsOpen
  <2>6. w'[r] = y /\ loop'[r] = l
    BY <2>1, LoopFacts
  <2>7. y.pc \in Taking => InLine(r)' /\ Counted(r)'
    <3> SUFFICES ASSUME w[r].pc \in Taking PROVE InLine(r)' /\ Counted(r)'
      BY <2>3
    <3>1. InLine(r) /\ Counted(r)
      BY <1>3 DEF RunInv
    <3>2. Handed(r)' = Handed(r) /\ InLine(r)'
      BY <2>3, <2>6, <3>1 DEF InLine, Handed, Reached
    <3>3. NoStop(q, Len(q)) => loop[r].read = Handed(r) + w[r].pendingDropped + 1
      BY <1>1, <3>1 DEF Counted
    <3>4. Handed(r) \in Nat
      BY HandedNat
    <3>5. NoStop(q, Len(q)) => loop[r].read = Handed(r) + (w[r].pendingDropped + 1) + 0
      BY <3>3, <3>4, Facts, LoopFacts
    <3> QED
      BY <2>3, <2>4, <2>6, <3>2, <3>5 DEF Counted
  <2>8. y.pendingDropped + (IF l.pc = "offering" THEN 1 ELSE 0) <= l.read /\ l.read <= frames'
    BY <1>1, <1>4, <2>3, <2>4, Facts, LoopFacts
  <2> QED
    BY <1>1, <1>5, <2>1, <2>3, <2>4, <2>5, <2>7, <2>8, LoopMoves
<1> QED
  BY <1>7, <1>8

LEMMA CountQueuedKeeps == ASSUME RecorderInv, NEW r \in Runs, CountQueued(r) PROVE RecorderInv'
<1> DEFINE y == [w[r] EXCEPT !.pendingDropped = 0]
           l == [loop[r] EXCEPT !.pc = Onwards(loop[r])]
<1>1. /\ loop[r].pc = "queued" /\ UNCHANGED <<writer, started, monitor, frames, faults>>
      /\ w' = [w EXCEPT ![r] = y] /\ loop' = [loop EXCEPT ![r] = l]
  BY LoopFacts DEF CountQueued, ResetCount
<1>2. 0 \in Units
  BY RecorderAssumption DEF Units
<1>3. /\ y \in Writers /\ y.queue = w[r].queue /\ y.pc = w[r].pc /\ y.finishing = w[r].finishing
      /\ y.pendingDropped = 0 /\ y.n = w[r].n /\ y.gap = w[r].gap
      /\ y.runSamples = w[r].runSamples /\ y.off = w[r].off /\ y.told = w[r].told
      /\ y.segment = w[r].segment /\ y.encoderFailures = w[r].encoderFailures
  BY <1>2, Facts DEF Writers
<1> HIDE DEF y
<1>4. l \in Loops /\ l.pc \in {"reading", "ending"} /\ l.read = loop[r].read
  BY LoopFacts DEF Loops, Onwards
<1> HIDE DEF l
<1>5. RunInv(r) /\ Resting(w[r])
  BY DEF RecorderInv, RunInv
<1>6. Resting(y)
  BY <1>3, <1>5 DEF Resting, Sound, Kept, Placed, IsOpen
<1>7. w'[r] = y /\ loop'[r] = l
  BY <1>1, LoopFacts
<1>8. y.pc \in Taking => InLine(r)' /\ Counted(r)'
  <2> SUFFICES ASSUME w[r].pc \in Taking PROVE InLine(r)' /\ Counted(r)'
    BY <1>3
  <2>1. InLine(r) /\ Counted(r)
    BY <1>5 DEF RunInv
  <2>2. Handed(r)' = Handed(r) /\ InLine(r)'
    BY <1>3, <1>7, <2>1 DEF InLine, Handed, Reached
  <2>3. NoStop(w[r].queue, Len(w[r].queue)) => loop[r].read = Handed(r) + 0 + 0
    BY <1>1, <2>1 DEF Counted
  <2> QED
    BY <1>3, <1>4, <1>7, <2>2, <2>3 DEF Counted
<1>9. /\ ~y.finishing => writer' = r
      /\ y.pendingDropped + (IF l.pc = "offering" THEN 1 ELSE 0) <= l.read /\ l.read <= frames'
  BY <1>1, <1>3, <1>4, <1>5, LoopFacts DEF RunInv, Begun, Bounded
<1> QED
  BY <1>1, <1>3, <1>4, <1>6, <1>8, <1>9, LoopMoves

\* finish(): the flag, and a stop frame if there is room for it.
LEMMA FinishedWriter ==
  ASSUME RecorderInv, NEW r \in Runs
  PROVE  LET y == Finished(w[r]) IN
         /\ Resting(y) /\ y.finishing /\ y.pc = w[r].pc /\ y.off = w[r].off
         /\ y.pendingDropped = w[r].pendingDropped /\ y.gap = w[r].gap
         /\ y.runSamples = w[r].runSamples
         /\ \/ y.queue = w[r].queue
            \/ y.queue = Append(w[r].queue, StopFrame)
<1> DEFINE q == w[r].queue
           qq == Offered(q, StopFrame)
           S == Frames \cup {StopFrame}
<1>1. q \in Seq(S) /\ StopFrame \in S /\ Len(q) <= QueueFrames /\ Len(q) \in Nat
  BY Facts DEF Resting
<1>2. qq \in Seq(S) /\ Len(qq) <= QueueFrames /\ (qq = q \/ qq = Append(q, StopFrame))
  <2>1. CASE Len(q) < QueueFrames
    <3>1. qq = Append(q, StopFrame)
      BY <2>1 DEF Offered
    <3>2. Append(q, StopFrame) \in Seq(S) /\ Len(Append(q, StopFrame)) = Len(q) + 1
      <4> HIDE DEF q, S
      <4> QED
        BY <1>1, AppendIs
    <3>3. Len(q) + 1 <= QueueFrames
      BY <1>1, <2>1, RecorderAssumption
    <3> QED
      BY <3>1, <3>2, <3>3
  <2>2. CASE ~(Len(q) < QueueFrames)
    BY <1>1, <2>2 DEF Offered
  <2> QED
    BY <2>1, <2>2
<1> DEFINE y == [w[r] EXCEPT !.finishing = TRUE, !.queue = qq]
<1>3. Finished(w[r]) = y
  BY Facts DEF Finished, Writers
<1> HIDE DEF qq
<1>4. /\ y \in Writers /\ y.queue = qq /\ y.pc = w[r].pc /\ y.finishing
      /\ y.pendingDropped = w[r].pendingDropped /\ y.n = w[r].n /\ y.gap = w[r].gap
      /\ y.runSamples = w[r].runSamples /\ y.off = w[r].off /\ y.told = w[r].told
      /\ y.segment = w[r].segment /\ y.encoderFailures = w[r].encoderFailures
  BY <1>2, Facts DEF Writers
<1> HIDE DEF y
<1>5. Resting(y)
  BY <1>2, <1>4, Facts DEF Resting, Sound, Kept, Placed, IsOpen
<1> QED
  BY <1>2, <1>3, <1>4, <1>5

\* A writer told to finish keeps its line, and its count for a loop that is still offering.
LEMMA FinishedLine ==
  ASSUME RecorderInv, NEW r \in Runs, w[r].pc \in Taking, w'[r] = Finished(w[r]),
         loop'[r].read = loop[r].read, loop'[r].pc \in {"offering", "queued"} => loop'[r].pc = loop[r].pc
  PROVE  InLine(r)' /\ Counted(r)'
<1> DEFINE q == w[r].queue
           y == Finished(w[r])
           S == Frames \cup {StopFrame}
<1>1. /\ Resting(y) /\ y.finishing /\ y.pc = w[r].pc /\ y.pendingDropped = w[r].pendingDropped
      /\ y.gap = w[r].gap /\ y.runSamples = w[r].runSamples
      /\ y.queue = q \/ y.queue = Append(q, StopFrame)
  BY FinishedWriter
<1>2. w'[r] = y
  OBVIOUS
<1> HIDE DEF y
<1>3. InLine(r) /\ Counted(r) /\ q \in Seq(S) /\ StopFrame \in S
  BY Facts DEF RecorderInv, RunInv
<1>4. Reached(r)' = Reached(r)
  BY <1>1, <1>2 DEF Reached
<1>5. CASE y.queue = q
  <2>1. Handed(r)' = Handed(r) /\ InLine(r)'
    BY <1>1, <1>2, <1>3, <1>4, <1>5 DEF InLine, Handed
  <2> QED
    BY <1>1, <1>2, <1>3, <1>5, <2>1 DEF Counted
<1>6. CASE y.queue = Append(q, StopFrame)
  <2> DEFINE qq == Append(q, StopFrame)
  <2>1. /\ Len(qq) = Len(q) + 1 /\ qq[Len(q) + 1] = StopFrame /\ DOMAIN qq = 1 .. Len(q) + 1
        /\ Len(q) \in Nat /\ DOMAIN q = 1 .. Len(q) /\ \A i \in 1 .. Len(q) : qq[i] = q[i]
    <3> HIDE DEF q, S
    <3> QED
      BY <1>3, AppendIs
  <2> HIDE DEF qq
  <2>2. w'[r].queue = qq
    BY <1>2, <1>6 DEF qq
  <2>3. ~NoStop(qq, Len(q) + 1)
    BY <2>1 DEF NoStop
  <2>4. Counted(r)'
    BY <2>1, <2>2, <2>3 DEF Counted, NoStop
  <2>5. ASSUME NEW i \in 1 .. Len(q) + 1, NoStop(qq, i)
        PROVE  qq[i].n = (IF i = 1 THEN Reached(r) ELSE qq[i - 1].n) + 1 + qq[i].droppedBefore
    <3>1. i \in 1 .. Len(q)
      BY <2>1, <2>3, <2>5
    <3>2. NoStop(q, i)
      BY SMTT(30), <2>1, <2>5, <3>1 DEF NoStop
    <3>3. q[i].n = (IF i = 1 THEN Reached(r) ELSE q[i - 1].n) + 1 + q[i].droppedBefore
      BY <1>3, <2>1, <3>1, <3>2 DEF InLine
    <3>4. i # 1 => qq[i - 1] = q[i - 1]
      BY <2>1, <3>1
    <3> QED
      BY <2>1, <3>1, <3>3, <3>4
  <2>6. InLine(r)'
    BY <1>4, <2>1, <2>2, <2>5 DEF InLine, NoStop
  <2> QED
    BY <2>4, <2>6
<1> QED
  BY <1>1, <1>5, <1>6

LEMMA StopKeeps == ASSUME RecorderInv, NEW r \in Runs, Stop(r) PROVE RecorderInv'
<1> DEFINE l == [loop[r] EXCEPT !.pc = "ended"]
<1>1. /\ loop[r].pc = "ending" /\ UNCHANGED <<started, monitor, frames, faults>>
      /\ loop' = [loop EXCEPT ![r] = l]
  BY LoopFacts DEF Stop
<1>2. l \in Loops /\ l.pc = "ended" /\ l.read = loop[r].read
  BY LoopFacts DEF Loops
<1> HIDE DEF l
<1>3. RunInv(r) /\ loop'[r] = l
  BY <1>1, LoopFacts DEF RecorderInv
<1>4. w[r].pendingDropped <= loop[r].read /\ loop[r].read <= frames
  BY <1>1, <1>3, Facts, LoopFacts DEF RunInv, Bounded
<1>5. CASE writer = r
  <2> DEFINE y == Finished(w[r])
  <2>1. w' = [w EXCEPT ![r] = y] /\ writer' = None
    BY <1>5, LoopFacts DEF Stop
  <2>2. /\ Resting(y) /\ y.finishing /\ y.pc = w[r].pc /\ y.off = w[r].off
        /\ y.pendingDropped = w[r].pendingDropped
    BY FinishedWriter
  <2>3. y.pc \in Taking => InLine(r)' /\ Counted(r)'
    BY <1>1, <1>2, <1>3, <2>1, <2>2, LoopFacts, FinishedLine
  <2> HIDE DEF y
  <2>4. y.pendingDropped + (IF l.pc = "offering" THEN 1 ELSE 0) <= l.read /\ l.read <= frames'
    BY <1>1, <1>2, <1>4, <2>2, Facts, LoopFacts
  <2> QED
    BY <1>1, <1>2, <1>5, <2>1, <2>2, <2>3, <2>4, LoopMoves
<1>6. CASE writer # r
  <2>1. UNCHANGED <<w, writer>> /\ w' = [w EXCEPT ![r] = w[r]]
    BY <1>6, LoopFacts DEF Stop
  <2>2. Resting(w[r]) /\ (~w[r].finishing => writer' = r)
    BY <1>1, <1>3, <2>1, LoopFacts DEF RunInv, Begun
  <2>3. w[r].pc \in Taking => InLine(r)' /\ Counted(r)'
    <3> SUFFICES ASSUME w[r].pc \in Taking PROVE InLine(r)' /\ Counted(r)'
      OBVIOUS
    <3>1. InLine(r) /\ Counted(r)
      BY <1>3 DEF RunInv
    <3>2. Handed(r)' = Handed(r) /\ InLine(r)'
      BY <2>1, <3>1 DEF InLine, Handed, Reached
    <3> QED
      BY <1>1, <1>2, <1>3, <2>1, <3>1, <3>2 DEF Counted
  <2>4. w[r].pendingDropped + (IF l.pc = "offering" THEN 1 ELSE 0) <= l.read /\ l.read <= frames'
    BY <1>1, <1>2, <1>4, Facts, LoopFacts
  <2> QED
    BY <1>1, <1>2, <2>1, <2>2, <2>3, <2>4, LoopMoves
<1> QED
  BY <1>5, <1>6

\* A run that begins finds a writer that nobody has used.
LEMMA StartKeeps == ASSUME RecorderInv, Start PROVE RecorderInv'
<1>0. PICK r \in Runs : r = started + 1
  BY RecorderAssumption DEF Start, RecorderInv, TypeOK, Runs
<1> DEFINE y == [w[r] EXCEPT !.pc = "joining"]
           l == [loop[r] EXCEPT !.pc = "reading"]
<1>1. /\ started \in Nat /\ started < MaxRuns /\ started' = r /\ writer' = r /\ r \in Runs
      /\ r # started /\ r \in Nat /\ monitor' = [generation |-> r, failure |-> FALSE]
      /\ UNCHANGED <<frames, faults>>
  BY <1>0, RecorderAssumption DEF Start, RecorderInv, TypeOK, Runs
<1>2. writer # r
  BY <1>0, <1>1, RecorderAssumption DEF RecorderInv, StatusInv
<1>3. RunInv(r) /\ w[r] = NewWriter /\ loop[r].read = 0
  BY <1>0, <1>1 DEF RecorderInv, RunInv, Begun
<1>4. w'[r] = y /\ loop'[r] = l
  BY <1>0, <1>1, <1>2, LoopFacts DEF Start
<1>5. \A x \in Runs \ {r} : w'[x] = (IF x = writer THEN Finished(w[x]) ELSE w[x]) /\ loop'[x] = loop[x]
  BY <1>0, <1>1, <1>2, LoopFacts DEF Start
<1>6. /\ y \in Writers /\ y.pc = "joining" /\ y.queue = <<>> /\ y.finishing = FALSE
      /\ y.pendingDropped = 0 /\ y.gap = 0 /\ y.runSamples = 0 /\ y.off = "on"
      /\ y.told = "nothing" /\ y.segment = w[r].segment /\ y.encoderFailures = w[r].encoderFailures
  <2>1. w[r] \in Writers
    BY <1>1, Facts
  <2>2. /\ w[r].queue = <<>> /\ w[r].finishing = FALSE /\ w[r].pendingDropped = 0
        /\ w[r].gap = 0 /\ w[r].runSamples = 0 /\ w[r].off = "on" /\ w[r].told = "nothing"
    BY <1>3 DEF NewWriter
  <2> QED
    BY <2>1, <2>2 DEF Writers
<1>7. l \in Loops /\ l.pc = "reading" /\ l.read = 0
  BY <1>1, <1>3, LoopFacts DEF Loops
<1> HIDE DEF y, l
<1>8. Resting(y)
  BY <1>3, <1>6, Facts, RecorderAssumption DEF RunInv, Resting, Sound, Kept, Placed, IsOpen, NewWriter
<1>9. ASSUME NEW x \in Runs \ {r}
      PROVE  /\ Resting(w'[x]) /\ w'[x].pc = w[x].pc /\ w'[x].off = w[x].off
             /\ w'[x].pendingDropped = w[x].pendingDropped
             /\ (x # writer => w'[x] = w[x]) /\ (x = writer => w'[x].finishing)
  BY <1>5, Facts, FinishedWriter
<1>10. TypeOK'
  <2>1. \A x \in Runs : Resting(w'[x]) /\ w'[x] \in Writers
    BY <1>4, <1>8, <1>9 DEF Resting, Sound, Kept, Placed
  <2>2. DOMAIN w' = Runs /\ w' = [x \in Runs |-> w'[x]]
    BY DEF Start
  <2>3. w' \in [Runs -> Writers]
    BY <2>1, <2>2
  <2>4. loop' \in [Runs -> Loops]
    BY <1>0, <1>1, <1>7, LoopFacts DEF Start, l
  <2>5. \A x \in Runs : Len(w'[x].queue) <= QueueFrames /\ w'[x].encoderFailures <= MaxFailures + 1
    BY <2>1 DEF Resting, Sound, Kept, Placed
  <2>6. writer' \in Runs /\ started' \in 0 .. MaxRuns /\ monitor' \in [generation : 0 .. MaxRuns, failure : BOOLEAN]
    BY <1>1 DEF Runs
  <2> QED
    BY <1>1, <2>3, <2>4, <2>5, <2>6 DEF RecorderInv, TypeOK
<1>11. StatusInv'
  BY <1>1, <1>4, <1>6 DEF StatusInv
<1>12. ASSUME NEW x \in Runs \ {r} PROVE RunInv(x)'
  <2>1. RunInv(x) /\ x \in Nat
    BY LoopFacts DEF RecorderInv
  <2>2. Resting(w[x])'
    BY <1>9, RestingNext
  <2>3. x <= started' <=> x <= started
    BY <1>0, <1>1, <2>1
  <2>4. x > started => x # writer
    BY <1>1, <2>1, RecorderAssumption DEF RecorderInv, StatusInv
  <2>5. x > started' => x > started
    BY <1>0, <1>1, <2>1
  <2>6. x <= started /\ ~w[x].finishing => x = writer
    BY <2>1 DEF RunInv, Begun
  <2>7. Begun(x)'
    BY <1>5, <1>9, <2>1, <2>3, <2>4, <2>5, <2>6 DEF RunInv, Begun, NewWriter
  <2>8. Bounded(x)'
    BY <1>1, <1>5, <1>9, <2>1 DEF RunInv, Bounded
  <2>9. ASSUME w[x].pc \in Taking PROVE InLine(x)' /\ Counted(x)'
    <3>1. CASE x = writer
      BY <1>5, <2>9, <3>1, FinishedLine
    <3>2. CASE x # writer
      BY <1>5, <2>1, <2>9, <3>2 DEF RunInv, InLine, Counted, Handed, Reached
    <3> QED
      BY <3>1, <3>2
  <2>10. (w[x].pc \in Taking)' => InLine(x)' /\ Counted(x)'
    BY <1>9, <2>9 DEF Taking
  <2> QED
    BY <2>2, <2>7, <2>8, <2>10 DEF RunInv
<1>13. RunInv(r)'
  <2>1. Resting(w[r])'
    BY <1>4, <1>8, RestingNext
  <2>2. Begun(r)'
    BY <1>1, <1>4, <1>6, <1>7 DEF Begun
  <2>3. Bounded(r)'
    BY <1>1, <1>4, <1>6, <1>7, LoopFacts DEF Bounded
  <2>4. InLine(r)' /\ Counted(r)'
    BY <1>4, <1>6, <1>7 DEF InLine, Counted, Handed, Reached
  <2> QED
    BY <2>1, <2>2, <2>3, <2>4 DEF RunInv
<1> QED
  BY <1>10, <1>11, <1>12, <1>13 DEF RecorderInv
-----------------------------------------------------------------------------
(* The invariant.                                                           *)

LEMMA InvariantInit == Init => RecorderInv
<1> SUFFICES ASSUME Init PROVE RecorderInv
  OBVIOUS
<1>1. \A r \in Runs : w[r] = NewWriter /\ loop[r].pc = "none" /\ loop[r].read = 0
  BY DEF Init, NewWriter
<1>2. NewWriter \in Writers /\ 0 \in Units
  BY RecorderAssumption DEF NewWriter, Writers, Units, Offs
<1>3. TypeOK
  <2>1. w = [r \in Runs |-> NewWriter] /\ loop \in [Runs -> Loops]
    BY <1>2 DEF Init, NewWriter, Loops
  <2>2. w \in [Runs -> Writers]
    BY <1>2, <2>1
  <2>3. \A r \in Runs : Len(w[r].queue) <= QueueFrames /\ w[r].encoderFailures <= MaxFailures + 1
    BY <1>1, RecorderAssumption DEF NewWriter
  <2>4. /\ writer \in Runs \cup {None} /\ started \in 0 .. MaxRuns
        /\ monitor \in [generation : 0 .. MaxRuns, failure : BOOLEAN]
        /\ frames \in 0 .. MaxFrames /\ faults \in 0 .. MaxFaults
    BY RecorderAssumption DEF Init
  <2> QED
    BY <2>1, <2>2, <2>3, <2>4 DEF TypeOK
<1>4. StatusInv
  BY DEF Init, StatusInv
<1>5. ASSUME NEW r \in Runs PROVE RunInv(r)
  <2>1. Resting(NewWriter)
    BY <1>2, RecorderAssumption DEF Resting, Sound, Kept, Placed, IsOpen, NewWriter
  <2>2. Begun(r)
    <3>1. r \in Nat /\ r > 0 /\ ~(r <= 0)
      BY DEF Runs
    <3> QED
      BY <1>1, <3>1 DEF Init, Begun, NewWriter
  <2>3. Bounded(r)
    BY <1>1 DEF Init, Bounded, NewWriter
  <2> QED
    BY <1>1, <2>1, <2>2, <2>3 DEF RunInv, Taking, NewWriter
<1> QED
  BY <1>3, <1>4, <1>5 DEF RecorderInv

LEMMA InvariantStep == RecorderInv /\ [Next]_vars => RecorderInv'
<1> SUFFICES ASSUME RecorderInv, [Next]_vars PROVE RecorderInv'
  OBVIOUS
<1>1. CASE Start
  BY <1>1, StartKeeps
<1>2. CASE StopClicked
  BY <1>2, StopClickedKeeps
<1>3. ASSUME NEW r \in Runs, LoopStep(r) PROVE RecorderInv'
  BY <1>3, ReadKeeps, OfferKeeps, CountQueuedKeeps, LoopEndsKeeps, StopKeeps DEF LoopStep
<1>4. ASSUME NEW r \in Runs, WriterStep(r) PROVE RecorderInv'
  BY <1>4, JoinKeeps, TakeKeeps, PollTimesOutKeeps, IdleKeeps, SkipGapKeeps, FillGapKeeps,
     WriteFrameKeeps, EndKeeps DEF WriterStep
<1>5. ASSUME NEW r \in Runs, Crash(r) PROVE RecorderInv'
  BY <1>5, CrashKeeps
<1>6. CASE UNCHANGED vars
  <2>1. TypeOK' /\ StatusInv'
    BY <1>6 DEF vars, RecorderInv, TypeOK, StatusInv
  <2>2. ASSUME NEW x \in Runs PROVE RunInv(x)'
    <3>1. RunInv(x) /\ UNCHANGED <<writer, started, loop, w, frames>>
      BY <1>6 DEF vars, RecorderInv
    <3>2. x <= started /\ ~w[x].finishing => writer' = x
      BY <3>1 DEF RunInv, Begun
    <3> QED
      BY <3>1, <3>2, LoopFacts, OtherRun
  <2> QED
    BY <2>1, <2>2 DEF RecorderInv
<1> QED
  BY <1>1, <1>2, <1>3, <1>4, <1>5, <1>6 DEF Next

(***************************************************************************)
(* Of each run's writer and loop: what was read, dropped, queued, taken    *)
(* and written adds up, whatever the two threads and the main thread do.   *)
(***************************************************************************)
THEOREM RecorderInvariant == Spec => []RecorderInv
BY InvariantInit, InvariantStep, PTL DEF Spec

(***************************************************************************)
(* The recording is true: every unit of a segment stands at the time of    *)
(* its frame, and each frame read is in the files' positions, in hand, in  *)
(* the queue or in the count of those dropped (LocalRecorder.kt:34-36,     *)
(* 254-261, 306-310).                                                      *)
(***************************************************************************)
THEOREM RecordingKept == Spec => []RecordingTrue
<1>1. RecorderInv => RecordingTrue
  <2> SUFFICES ASSUME RecorderInv PROVE RecordingTrue
    OBVIOUS
  <2>1. PositionsTrue
    BY Facts DEF PositionsTrue, Sound, Kept, Placed
  <2>2. Accounted
    <3> SUFFICES ASSUME NEW r \in Runs, w[r].pc \notin {"none", "crashed"}, ~w[r].finishing
                 PROVE  LET q == w[r].queue IN
                        /\ \A i \in DOMAIN q :
                             q[i].n = (IF i = 1 THEN Reached(r) ELSE q[i - 1].n) + 1 + q[i].droppedBefore
                        /\ loop[r].read = Handed(r)
                             + (IF loop[r].pc = "queued" THEN 0 ELSE w[r].pendingDropped)
                             + (IF loop[r].pc = "offering" THEN 1 ELSE 0)
      BY DEF Accounted
    <3>1. w[r].pc \in Taking /\ w[r].queue \in Seq(Frames \cup {StopFrame})
      BY Facts DEF Resting, Taking, Writers
    <3>2. InLine(r) /\ Counted(r)
      BY <3>1 DEF RecorderInv, RunInv
    <3>3. \A j \in 1 .. Len(w[r].queue) : w[r].queue[j] # StopFrame
      BY <3>1, Facts DEF Resting
    <3>4. \A i \in DOMAIN w[r].queue : NoStop(w[r].queue, i)
      BY <3>1, <3>3 DEF NoStop
    <3>5. NoStop(w[r].queue, Len(w[r].queue))
      BY <3>3 DEF NoStop
    <3> QED
      BY <3>2, <3>4, <3>5 DEF InLine, Counted
  <2> QED
    BY <2>1, <2>2 DEF RecorderInv, RecordingTrue
<1> QED
  BY <1>1, RecorderInvariant, PTL

(***************************************************************************)
(* The status is that of the current run's backup: what the last run's     *)
(* writer still reports changes nothing of it (LocalBackupMonitor.kt).     *)
(***************************************************************************)
THEOREM StatusKept == Spec => []StatusIsThisRuns
<1>1. RecorderInv => StatusIsThisRuns
  BY DEF RecorderInv, StatusInv, StatusIsThisRuns
<1> QED
  BY <1>1, RecorderInvariant, PTL
=============================================================================
