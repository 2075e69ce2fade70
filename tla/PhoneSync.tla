------------------------------ MODULE PhoneSync ------------------------------
(***************************************************************************)
(* The phone's recordings folder and everything that changes it: capture   *)
(* (LocalRecorder), the sync pass (SegmentSync) and retention              *)
(* (LocalRecorder.purgeDir with RetentionPolicy).  The folder is the       *)
(* queue: X.aac waits, X.synced.aac is held by the edge.                   *)
(*                                                                         *)
(* The edge is outside: call is the pass's one HTTP call, whose reply the  *)
(* environment fills in (Mirror).  A recording's bytes never change after  *)
(* its file is closed, so a recording stands for its bytes.  Clocks are    *)
(* the actions Week, Expire and HoldOver; Close is the moment a file is    *)
(* past SETTLE_MS.                                                         *)
(***************************************************************************)
EXTENDS Naturals, FiniteSets

CONSTANTS
  Recs,        \* recordings (segment base names)
  Legacy,      \* those made by a build that wrote no X.dest
  Endpoints,   \* bridges with an encrypted address
  Purgers,     \* threads that purge: the recorder's writer, the main screen
  None,        \* no endpoint
  MaxExpired   \* bound on the recordings that expire

ASSUME PhoneAssumption ==
  /\ Legacy \subseteq Recs
  /\ None \notin Endpoints
  /\ {"local", "empty", "missing"} \cap Endpoints = {}
  /\ MaxExpired \in Nat

VARIABLES
  file,       \* file[r]: "new", "open", "empty" (X.aac of no bytes), "waiting", "synced", "gone", "dropped"
  dest,       \* dest[r]: what X.dest says: an endpoint, "local" (DEST_NONE), "empty", "missing"
  mark,       \* recordings with X.checked
  due,        \* synced files a week past their confirmation
  expired,    \* recordings past the 90 days
  hold,       \* hold[r]: "no", "retry" or "rejected": the delay before the next upload
  known,      \* endpoints in the credentials store
  default,    \* the endpoint of recordings without X.dest
  older,      \* recordings made before the default was chosen (CUTOFF_KEY)
  saved,      \* the one endpoint an older build saved, until it is adopted
  counted,    \* expired_unsynced: the recordings reported lost
  pass,       \* the sync pass
  call,       \* its HTTP call and the reply, once there is one
  verifying,  \* recordings whose edge copy is being re-checked
  purge,      \* purge[p]: the listing a purge works from and the losses it has to report
  home,       \* history: the endpoint r was captured for
  heard,      \* history: the edge's last word on r: "nothing", "yes", "no"
  lost        \* history: recordings that expired before reaching the edge

folder == <<file, dest, mark>>
timers == <<due, expired, hold>>
endpoints == <<known, default, older, saved>>
phoneVars == <<file, dest, mark, due, expired, hold, known, default, older, saved, counted,
               pass, call, verifying, purge, home, heard, lost>>

NoCall == [kind |-> "none"]
Calls == [kind : {"upload", "have"}, ep : Endpoints, rec : Recs,
          reply : {"none", "stored", "refused", "busy", "yes", "no", "error"}]
IdlePass == [pc |-> "idle", todo |-> {}, away |-> {}, more |-> FALSE, clean |-> TRUE]
Passes == [pc : {"idle", "upload", "sent", "recheck", "asked"}, todo : SUBSET Recs,
           away : SUBSET Endpoints, more : BOOLEAN, clean : BOOLEAN]
Entries == [rec : Recs, kind : {"empty", "waiting", "synced"}, checked : BOOLEAN]
IdlePurge == [pc |-> "idle", list |-> {}, loss |-> 0, seen |-> 0]

PhoneTypeOK ==
  /\ file \in [Recs -> {"new", "open", "empty", "waiting", "synced", "gone", "dropped"}]
  /\ dest \in [Recs -> Endpoints \cup {"local", "empty", "missing"}]
  /\ mark \subseteq Recs
  /\ due \subseteq Recs
  /\ expired \subseteq Recs
  /\ hold \in [Recs -> {"no", "retry", "rejected"}]
  /\ known \subseteq Endpoints
  /\ default \in Endpoints \cup {None}
  /\ older \subseteq Recs
  /\ saved \in Endpoints \cup {None}
  /\ counted \in Nat
  /\ pass \in Passes
  /\ call \in Calls \cup {NoCall}
  /\ verifying \subseteq Recs
  /\ purge \in [Purgers -> [pc : {"idle", "listed", "swept", "note"}, list : SUBSET Entries,
                           loss : Nat, seen : Nat]]
  /\ home \in [Recs -> Endpoints \cup {None, "local"}]
  /\ heard \in [Recs -> {"nothing", "yes", "no"}]
  /\ lost \subseteq Recs

PhoneInit ==
  /\ file = [r \in Recs |-> IF r \in Legacy THEN "waiting" ELSE "new"]
  /\ dest = [r \in Recs |-> "missing"]
  /\ mark = {} /\ due = {} /\ expired = {}
  /\ hold = [r \in Recs |-> "no"]
  /\ known = {} /\ default = None /\ older = {}
  /\ saved \in IF Legacy = {} THEN {None} ELSE Endpoints \cup {None}
  /\ counted = 0
  /\ pass = IdlePass /\ call = NoCall /\ verifying = {}
  /\ purge = [p \in Purgers |-> IdlePurge]
  /\ home = [r \in Recs |-> IF r \in Legacy THEN saved ELSE None]
  /\ heard = [r \in Recs |-> "nothing"]
  /\ lost = {}
-----------------------------------------------------------------------------
(* Endpoints: registerEndpoint, adoptLegacyEndpoint, destinationOf *)

\* The endpoint an older build saved is the default, ahead of anything newer.
AdoptedDefault == IF default = None THEN saved ELSE default
AdoptedKnown == IF saved = None THEN known ELSE known \cup {saved}

\* Choosing the default closes the list of the recordings that may take it.
OlderWhen(chosen) ==
  IF default = None /\ chosen # None THEN {r \in Recs : file[r] # "new"} ELSE older

\* A run over wss:// registers its endpoint; a changed token lifts the refusals.
Register(e) ==
  /\ known' = AdoptedKnown \cup {e}
  /\ default' = IF AdoptedDefault = None THEN e ELSE AdoptedDefault
  /\ older' = OlderWhen(default')
  /\ saved' = None
  /\ \/ UNCHANGED hold
     \/ e \in known /\ hold' = [r \in Recs |-> IF hold[r] = "rejected" THEN "no" ELSE hold[r]]
  /\ home' = [r \in Recs |-> IF r \in Legacy /\ home[r] = None THEN e ELSE home[r]]
  /\ UNCHANGED <<folder, due, expired, counted, pass, call, verifying, purge, heard, lost>>

\* Mutated form: a recording without X.dest goes to the default, however new it is.
RouteAnyDefault(r) ==
  IF dest[r] \in known THEN dest[r] ELSE IF dest[r] = "missing" THEN default ELSE None

\* Where r may go; None: it waits.
Route(r) ==
  IF dest[r] \in known THEN dest[r]
  ELSE IF dest[r] = "missing" /\ r \in older THEN default
  ELSE None

\* Asking for the route writes a legacy recording's choice down, once.
Bound(r) == [dest EXCEPT ![r] = IF @ = "missing" /\ Route(r) # None THEN Route(r) ELSE @]
-----------------------------------------------------------------------------
(* Capture: openSegment and closeSegment *)

Capture(r, where) ==
  /\ file[r] = "new"
  /\ where \in known \cup {"local"}
  /\ file' = [file EXCEPT ![r] = "open"]
  /\ dest' = [dest EXCEPT ![r] = where]
  /\ home' = [home EXCEPT ![r] = where]
  /\ UNCHANGED <<mark, timers, endpoints, counted, pass, call, verifying, purge, heard, lost>>

Close(r) ==
  /\ file[r] = "open"
  /\ file' = [file EXCEPT ![r] = "waiting"]
  /\ UNCHANGED <<dest, mark, timers, endpoints, counted, pass, call, verifying, purge, home, heard, lost>>
-----------------------------------------------------------------------------
(* The sync pass: runPass *)

Waiting == {r \in Recs : file[r] \in {"waiting", "empty"}}
Synced == {r \in Recs : file[r] = "synced"}

StartPass ==
  /\ pass.pc = "idle"
  /\ pass' = [IdlePass EXCEPT !.pc = "upload", !.todo = Waiting]
  /\ known' = AdoptedKnown
  /\ default' = AdoptedDefault
  /\ older' = OlderWhen(AdoptedDefault)
  /\ saved' = None
  /\ UNCHANGED <<folder, timers, counted, call, verifying, purge, home, heard, lost>>

Done(r) == [pass EXCEPT !.todo = @ \ {r}]

\* In what follows, works says whether the rename, delete or create of the step works.

\* A file of no bytes, or one that is no longer there, is dropped from the folder.
DropEmpty(r, works) ==
  /\ pass.pc = "upload" /\ r \in pass.todo
  /\ file[r] \in {"empty", "gone"}
  /\ IF file[r] = "gone" \/ works
       THEN /\ file' = [file EXCEPT ![r] = IF @ = "empty" THEN "dropped" ELSE @]
            /\ dest' = [dest EXCEPT ![r] = "missing"]
            /\ mark' = mark \ {r}
       ELSE UNCHANGED folder
  /\ pass' = Done(r)
  /\ UNCHANGED <<timers, endpoints, counted, call, verifying, purge, home, heard, lost>>

Uploadable(r) == Route(r) \notin pass.away \cup {None} /\ hold[r] = "no"

Skip(r) ==
  /\ pass.pc = "upload" /\ r \in pass.todo
  /\ file[r] = "waiting"
  /\ ~Uploadable(r)
  /\ dest' = Bound(r)
  /\ pass' = Done(r)
  /\ UNCHANGED <<file, mark, timers, endpoints, counted, call, verifying, purge, home, heard, lost>>

Send(r) ==
  /\ pass.pc = "upload" /\ r \in pass.todo
  /\ file[r] = "waiting"
  /\ Uploadable(r)
  /\ dest' = Bound(r)
  /\ call' = [kind |-> "upload", ep |-> Route(r), rec |-> r, reply |-> "none"]
  /\ pass' = [Done(r) EXCEPT !.pc = "sent"]
  /\ UNCHANGED <<file, mark, timers, endpoints, counted, verifying, purge, home, heard, lost>>

\* Mutated form: a 200 is enough (the ones without a receipt are in "busy").
Answered == call.reply \in {"stored", "busy"}

\* receiptConfirms: the answer proves the edge holds exactly these bytes.
Proven == call.reply = "stored"

\* Under the folder lock the file must still be there, unchanged.
StillThere(r) == file[r] = "waiting"

\* A receipt that proves these bytes, and a rename that works; else the file waits FILE_RETRY_MS.
Confirmed(works) ==
  LET r == call.rec IN
  /\ pass.pc = "sent" /\ Proven
  /\ heard' = [heard EXCEPT ![r] = "yes"]
  /\ IF StillThere(r) /\ works
       THEN /\ file' = [file EXCEPT ![r] = "synced"]
            /\ due' = due \ {r}
            /\ hold' = [hold EXCEPT ![r] = "no"]
            /\ pass' = [pass EXCEPT !.pc = "upload", !.more = TRUE]
       ELSE /\ hold' = [hold EXCEPT ![r] = "retry"]
            /\ pass' = [pass EXCEPT !.pc = "upload"]
            /\ UNCHANGED <<file, due>>
  /\ call' = NoCall
  /\ UNCHANGED <<dest, mark, expired, endpoints, counted, verifying, purge, home, lost>>

\* Mutated form: an edge that is busy with one recording is left alone altogether.
AwayIfBusy == IF call.reply = "refused" THEN pass.away ELSE pass.away \cup {call.ep}

\* An endpoint that gave no answer is skipped for the rest of the pass.
Away == IF call.reply = "error" THEN pass.away \cup {call.ep} ELSE pass.away

\* Refused, not taken now, or no answer.
NotConfirmed ==
  LET r == call.rec IN
  /\ pass.pc = "sent" /\ call.reply \in {"refused", "busy", "error"}
  /\ hold' = CASE call.reply = "refused" -> [hold EXCEPT ![r] = "rejected"]
               [] call.reply = "busy" -> [hold EXCEPT ![r] = "retry"]
               [] call.reply = "error" -> hold
  /\ pass' = [pass EXCEPT !.pc = "upload", !.away = Away]
  /\ call' = NoCall
  /\ UNCHANGED <<folder, due, expired, endpoints, counted, verifying, purge, home, heard, lost>>

\* Files may have closed meanwhile: another round until one uploads nothing.
EndRound ==
  /\ pass.pc = "upload" /\ pass.todo = {}
  /\ pass' = IF pass.more THEN [pass EXCEPT !.todo = Waiting, !.more = FALSE]
             ELSE [pass EXCEPT !.pc = "recheck", !.todo = Synced]
  /\ UNCHANGED <<folder, timers, endpoints, counted, call, verifying, purge, home, heard, lost>>

\* Nothing to ask: checked before, too early, no destination, the edge gave no answer, or it
\* was claimed before.
SkipRecheck(r) ==
  /\ pass.pc = "recheck" /\ r \in pass.todo
  /\ \/ r \in mark \/ r \notin due \/ Route(r) \in pass.away \cup {None}
     \/ file[r] # "synced" \/ r \in verifying
  /\ pass' = [Done(r) EXCEPT !.clean = @ /\ ~(r \in due \ mark /\ Route(r) \in pass.away)]
  /\ dest' = IF r \in due \ mark THEN Bound(r) ELSE dest
  /\ UNCHANGED <<file, mark, timers, endpoints, counted, call, verifying, purge, home, heard, lost>>

\* The claim keeps retention off the recording until the answer has been acted on.
Claim(r) == verifying \cup {r}

Recheck(r) ==
  /\ pass.pc = "recheck" /\ r \in pass.todo
  /\ r \in due \ mark /\ Route(r) \notin pass.away \cup {None}
  /\ file[r] = "synced" /\ r \notin verifying
  /\ dest' = Bound(r)
  /\ verifying' = Claim(r)
  /\ call' = [kind |-> "have", ep |-> Route(r), rec |-> r, reply |-> "none"]
  /\ pass' = [Done(r) EXCEPT !.pc = "asked"]
  /\ UNCHANGED <<file, mark, timers, endpoints, counted, purge, home, heard, lost>>

\* Mutated form: not when there was no answer.
ReleasedIfAnswered == IF call.reply = "yes" \/ call.reply = "no" THEN verifying \ {call.rec} ELSE verifying

\* The claim is given up whatever the answer was.
Released == verifying \ {call.rec}

\* A mark that cannot be written: asked again on a later pass.
StillHeld(works) ==
  LET r == call.rec IN
  /\ pass.pc = "asked" /\ call.reply = "yes"
  /\ mark' = IF file[r] = "synced" /\ works THEN mark \cup {r} ELSE mark
  /\ heard' = [heard EXCEPT ![r] = "yes"]
  /\ pass' = [pass EXCEPT !.pc = "recheck"]
  /\ call' = NoCall
  /\ verifying' = Released
  /\ UNCHANGED <<file, dest, timers, endpoints, counted, purge, home, lost>>

\* Mutated form: a "no" is taken for no answer.
KeepSynced(r) == file

\* Back into the queue, which needs a rename whose result the code does not look at.
Requeue(r) == [file EXCEPT ![r] = IF @ = "synced" THEN "waiting" ELSE @]

NotHeld(works) ==
  LET r == call.rec IN
  /\ pass.pc = "asked" /\ call.reply = "no"
  /\ file' = IF works THEN Requeue(r) ELSE file
  /\ heard' = [heard EXCEPT ![r] = "no"]
  /\ pass' = [pass EXCEPT !.pc = "recheck", !.clean = FALSE]
  /\ call' = NoCall
  /\ verifying' = Released
  /\ UNCHANGED <<dest, mark, timers, endpoints, counted, purge, home, lost>>

NoWord ==
  /\ pass.pc = "asked" /\ call.reply \in {"error", "busy"}
  /\ pass' = [pass EXCEPT !.pc = "recheck", !.clean = FALSE]
  /\ call' = NoCall
  /\ verifying' = Released
  /\ UNCHANGED <<folder, timers, endpoints, counted, purge, home, heard, lost>>

EndPass ==
  /\ pass.pc = "recheck" /\ pass.todo = {}
  /\ pass' = IdlePass
  /\ UNCHANGED <<folder, timers, endpoints, counted, call, verifying, purge, home, heard, lost>>
-----------------------------------------------------------------------------
(* Retention: purgeDir and RetentionPolicy *)

\* The folder is listed, with what each file is, before the folder lock is taken.
ListFolder(p) ==
  /\ purge[p].pc = "idle"
  /\ purge' = [purge EXCEPT ![p] =
       [IdlePurge EXCEPT !.pc = "listed",
        !.list = {[rec |-> r, kind |-> file[r], checked |-> r \in mark] :
                    r \in {x \in Recs : file[x] \in {"empty", "waiting", "synced"}}}]]
  /\ UNCHANGED <<folder, timers, endpoints, counted, pass, call, verifying, home, heard, lost>>

\* Renamed or gone since the listing, or being re-checked: left for next time.
Removable(e) == file[e.rec] = e.kind /\ e.rec \notin verifying

Early(e) == e.kind = "synced" /\ e.rec \notin expired

\* Everything expired goes; under pressure, early candidates too, until there is room: those
\* the edge confirmed a second time first.  A delete may fail: that file stays.
SweepFolder(p) ==
  LET list == purge[p].list
      old == {e \in list : e.rec \in expired}
      early == {e \in list : Early(e)}
  IN
  /\ purge[p].pc = "listed"
  /\ \E tried \in SUBSET early, stuck \in SUBSET list :
       /\ (\E e \in tried : ~e.checked) => {e \in early : e.checked} \subseteq tried
       /\ LET removed == {e \in (old \cup tried) \ stuck : Removable(e)}
              names == {e.rec : e \in removed}
              unsynced == {e.rec : e \in {x \in removed : x.kind # "synced"}}
          IN /\ file' = [r \in Recs |-> IF r \in names THEN "gone" ELSE file[r]]
             /\ dest' = [r \in Recs |-> IF r \in names THEN "missing" ELSE dest[r]]
             /\ mark' = mark \ names
             /\ lost' = lost \cup unsynced
             /\ purge' = [purge EXCEPT ![p] = [IdlePurge EXCEPT !.pc = "swept",
                                                                 !.loss = Cardinality(unsynced)]]
  /\ UNCHANGED <<timers, endpoints, counted, pass, call, verifying, home, heard>>

Total(seen, loss) == seen + loss

\* noteExpiredUnsynced: the counter is read and written back without a lock.
ReadCount(p) ==
  /\ purge[p].pc = "swept"
  /\ purge' = [purge EXCEPT ![p] = IF @.loss = 0 THEN IdlePurge
                                   ELSE [@ EXCEPT !.pc = "note", !.seen = counted]]
  /\ UNCHANGED <<folder, timers, endpoints, counted, pass, call, verifying, home, heard, lost>>

WriteCount(p) ==
  /\ purge[p].pc = "note"
  /\ counted' = Total(purge[p].seen, purge[p].loss)
  /\ purge' = [purge EXCEPT ![p] = IdlePurge]
  /\ UNCHANGED <<folder, timers, endpoints, pass, call, verifying, home, heard, lost>>
-----------------------------------------------------------------------------
(* Time, process death, a lost X.dest *)

Week(r) ==
  /\ file[r] = "synced" /\ r \notin due
  /\ due' = due \cup {r}
  /\ UNCHANGED <<folder, expired, hold, endpoints, counted, pass, call, verifying, purge, home, heard, lost>>

\* Mutated form: a refused file is never tried again.
HoldOverRetries(r) ==
  /\ hold[r] = "retry"
  /\ hold' = [hold EXCEPT ![r] = "no"]
  /\ UNCHANGED <<folder, due, expired, endpoints, counted, pass, call, verifying, purge, home, heard, lost>>

HoldOver(r) ==
  /\ hold[r] # "no"
  /\ hold' = [hold EXCEPT ![r] = "no"]
  /\ UNCHANGED <<folder, due, expired, endpoints, counted, pass, call, verifying, purge, home, heard, lost>>

Expire(r) ==
  /\ file[r] \notin {"new", "open"}
  /\ r \notin expired
  /\ Cardinality(expired) < MaxExpired
  /\ expired' = expired \cup {r}
  /\ UNCHANGED <<folder, due, hold, endpoints, counted, pass, call, verifying, purge, home, heard, lost>>

LoseDest(r) ==
  /\ file[r] \in {"waiting", "synced"}
  /\ dest[r] # "missing"
  /\ dest' = [dest EXCEPT ![r] = "missing"]
  /\ UNCHANGED <<file, mark, timers, endpoints, counted, pass, call, verifying, purge, home, heard, lost>>

\* The process dies: an open file stays as it is, the pass and the purges are gone.  A
\* choice of destination cut short leaves an empty X.dest.
KillApp ==
  /\ \E shut \in [{r \in Recs : file[r] = "open"} -> {"empty", "waiting"}] :
       file' = [r \in Recs |-> IF file[r] = "open" THEN shut[r] ELSE file[r]]
  /\ \/ UNCHANGED dest
     \/ \E r \in pass.todo :
          /\ file[r] \in {"waiting", "synced"} /\ Bound(r) # dest
          /\ dest' = [dest EXCEPT ![r] = "empty"]
  /\ pass' = IdlePass
  /\ call' = NoCall
  /\ verifying' = {}
  /\ purge' = [p \in Purgers |-> IdlePurge]
  /\ UNCHANGED <<mark, timers, endpoints, counted, home, heard, lost>>
=============================================================================
