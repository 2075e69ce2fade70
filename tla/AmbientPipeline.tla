--------------------------- MODULE AmbientPipeline ---------------------------
(* The diarization windows of one connection's pipeline                        *)
(* (bridges/ambient_bridge/pipeline.py AmbientPipeline): audio is resampled    *)
(* into a rolling buffer and into the voice detector, whose segments arrive    *)
(* later with absolute positions; the stored utterances gather in a window,    *)
(* which is cut out of the buffer when it is long enough.  The buffer itself   *)
(* is capped.  Positions are in units of audio.                                *)
EXTENDS Integers, Sequences

CONSTANTS
    Window,     \* _diar_window_samples
    Chunk,      \* audio of one frame, at most
    LongestUtt, \* the detector splits speech longer than this
    Silence,    \* min_silence_duration: how late a segment is known
    MaxFed      \* bound: audio fed

VARIABLES
    fed,       \* _fed_total
    heard,     \* end of the last segment of the detector
    rawBase, rawLen,  \* _base, _raw_len
    winUtts,   \* _win_utts, as [start, end]
    winFirst,  \* _win_first
    handed,    \* the window this call closed: [] or [from, to, first, last]
    flushed

vars == <<fed, heard, rawBase, rawLen, winUtts, winFirst, handed, flushed>>

Init ==
    /\ fed = 0 /\ heard = 0 /\ rawBase = 0 /\ rawLen = 0 /\ winUtts = <<>> /\ winFirst = 0
    /\ handed = <<>> /\ flushed = FALSE

AtLeast(m, n) == IF n > m THEN n ELSE m

(* The pipeline inside one call: [base, len, utts, first, closed]. *)
Clear(p) == [p EXCEPT !.utts = <<>>, !.first = 0]

(* _close_window: the slice of the buffer from the window's first utterance to *)
(* its last; only what follows is kept.  An empty slice hands nothing over.    *)
CloseWindow(p) ==
    LET last == p.utts[Len(p.utts)].end
        lo == AtLeast(0, p.first - p.base)
        hi == AtLeast(lo, last - p.base)
        Held(i) == IF i > p.len THEN p.len ELSE i
        raw == [from |-> p.base + Held(lo), to |-> p.base + Held(hi), first |-> p.first, last |-> last]
    IN  [Clear(p) EXCEPT !.len = p.len - Held(hi), !.base = last,
                         !.closed = IF Held(hi) > Held(lo) THEN <<raw>> ELSE <<>>]

(* A stored utterance joins the window, and closes it at most once a call.     *)
Store(p, u) ==
    LET q == [p EXCEPT !.utts = Append(@, u), !.first = IF p.utts = <<>> THEN u.start ELSE @]
    IN  IF p.closed = <<>> /\ Len(q.utts) >= 2 /\ u.end - q.first >= Window
        THEN CloseWindow(q) ELSE q
\* Mutated form: the window whose beginning was cut off goes on.
CapKeepsWindow(p) ==
    IF p.len <= 2 * Window THEN p
    ELSE [p EXCEPT !.len = Window, !.base = p.base + p.len - Window]

(* _cap_raw: more than two windows of audio are cut to one; a window whose     *)
(* beginning went is abandoned.                                                *)
CapRaw(p) ==
    IF p.len <= 2 * Window THEN p
    ELSE LET q == [p EXCEPT !.len = Window, !.base = p.base + p.len - Window]
         IN  IF q.utts # <<>> /\ q.first < q.base THEN Clear(q) ELSE q

(* What the detector hands out when the audio up to `to` is in: segments in    *)
(* order, each known by the end of its trailing silence.                       *)
Segment(to) ==
    {u \in [start : 0 .. to, end : fed - Silence + 1 .. to] :
        u.end - u.start \in 1 .. LongestUtt}
Utterances(to) ==
    {<<>>} \cup {<<u>> : u \in Segment(to)}
    \cup {s \in Segment(to) \X Segment(to) : s[1].end <= s[2].start}

Stored(p, segs) ==
    IF segs = <<>> THEN p
    ELSE IF Len(segs) = 1 THEN Store(p, segs[1])
    ELSE Store(Store(p, segs[1]), segs[2])

After(segs, flush, n) ==
    LET p == Stored([base |-> rawBase, len |-> rawLen + n, utts |-> winUtts,
                     first |-> winFirst, closed |-> <<>>], segs)
    IN  CapRaw(IF flush /\ p.closed = <<>> /\ p.utts # <<>> THEN CloseWindow(p) ELSE p)

(* feed, and flush at the end of the connection: _process_sync.  Of what the   *)
(* detector hands out, an utterance without text or one that the capture gate  *)
(* drops is in no window.                                                      *)
Process(n, flush) ==
    /\ ~flushed /\ fed + n <= MaxFed /\ fed' = fed + n /\ flushed' = flush
    /\ \E segs \in Utterances(fed + n) :
        /\ IF segs = <<>> THEN UNCHANGED heard
           ELSE segs[1].start >= heard /\ heard' = segs[Len(segs)].end
        /\ LET p == After(segs, flush, n)
           IN  /\ rawBase' = p.base /\ rawLen' = p.len /\ winUtts' = p.utts /\ winFirst' = p.first
               /\ handed' = p.closed

Next == Process(0, TRUE) \/ \E n \in 1 .. Chunk : Process(n, FALSE)

Spec == Init /\ [][Next]_vars

-----------------------------------------------------------------------------
TypeOK ==
    /\ fed \in 0 .. MaxFed /\ heard \in 0 .. fed /\ flushed \in BOOLEAN
    /\ rawBase \in 0 .. MaxFed /\ rawLen \in 0 .. 2 * Window + Chunk
    /\ \A i \in DOMAIN winUtts : winUtts[i].start < winUtts[i].end

(* The audio handed to the diarizer is that of the window's utterances, from   *)
(* the first sample of the first to the last of the last: the offsets its      *)
(* spans are computed with never slide, whatever was trimmed or abandoned.     *)
SlicedRight ==
    /\ \A i \in DOMAIN handed : handed[i].from = handed[i].first /\ handed[i].to = handed[i].last
    /\ rawBase + rawLen = fed
    /\ winUtts # <<>> => rawBase <= winFirst
=============================================================================
