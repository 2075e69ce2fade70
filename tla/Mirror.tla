-------------------------------- MODULE Mirror --------------------------------
(***************************************************************************)
(* The phone (PhoneSync) and the edges its recordings go to, joined by a   *)
(* network that loses calls and answers and delays requests.  An edge is   *)
(* its promise (EdgeArchive, which EdgeStore implements) and the answers   *)
(* of its upload and possession routes (server.py:492-579); one HTTP       *)
(* request whose client has given up may still be carried out.             *)
(***************************************************************************)
EXTENDS PhoneSync

CONSTANTS
  Served,      \* recordings their edge does not decline forever
  Rot,         \* a held copy whose bytes changed
  MaxLosses,   \* bound on broken calls
  MaxDamage,   \* bound on damage and removals at the edges
  MaxKills,    \* bound on deaths of the app's process
  MaxFaults    \* bound on renames, deletes and marks that fail in the phone's folder

ASSUME MirrorAssumption ==
  /\ Served \subseteq Recs
  /\ MaxLosses \in Nat /\ MaxDamage \in Nat /\ MaxKills \in Nat /\ MaxFaults \in Nat
  /\ None \notin Recs /\ Rot \notin Recs \cup {None}

VARIABLES
  held,     \* held[e, r]: what edge e holds under r's name for good
  promise,  \* promise[e, r]: the bytes of its last "stored" for r
  spoiled,  \* spoiled[e, r]: its copy decayed after that
  late,     \* uploads whose client gave up and the edge may still carry out
  hurt,     \* history: <<e, r>> where e's copy was damaged or taken away since "stored"
  disowned, \* history: synced files the edge said no to, whose rename failed
  losses, damages, kills, faults

\* A recording's name at an edge.
Places == Endpoints \X Recs

edgeVars == <<held, promise, spoiled, hurt>>
bounds == <<losses, damages, kills, faults>>
vars == <<phoneVars, edgeVars, late, disowned, bounds>>

TypeOK ==
  /\ PhoneTypeOK
  /\ held \in [Places -> Recs \cup {None, Rot}]
  /\ promise \in [Places -> Recs \cup {None}]
  /\ spoiled \in [Places -> BOOLEAN]
  /\ late \subseteq Places
  /\ hurt \subseteq Places /\ disowned \subseteq Recs
  /\ losses \in 0 .. MaxLosses /\ damages \in 0 .. MaxDamage
  /\ kills \in 0 .. MaxKills /\ faults \in 0 .. MaxFaults

Init ==
  /\ PhoneInit
  /\ held = [at \in Places |-> None]
  /\ promise = [at \in Places |-> None]
  /\ spoiled = [at \in Places |-> FALSE]
  /\ late = {} /\ hurt = {} /\ disowned = {}
  /\ losses = 0 /\ damages = 0 /\ kills = 0 /\ faults = 0
-----------------------------------------------------------------------------
(* The phone's steps *)

PassStep ==
  \/ StartPass
  \/ \E r \in Recs : DropEmpty(r, TRUE) \/ Skip(r) \/ Send(r) \/ SkipRecheck(r) \/ Recheck(r)
  \/ Confirmed(TRUE) \/ NotConfirmed \/ EndRound
  \/ StillHeld(TRUE) \/ NotHeld(TRUE) \/ NoWord \/ EndPass

PurgeStep == \E p \in Purgers : ListFolder(p) \/ SweepFolder(p) \/ ReadCount(p) \/ WriteCount(p)

UserStep ==
  \/ \E e \in Endpoints : Register(e)
  \/ \E r \in Recs : Close(r) \/ LoseDest(r) \/ \E w \in Endpoints \cup {"local"} : Capture(r, w)

ClockStep == \E r \in Recs : Week(r) \/ HoldOver(r) \/ Expire(r)

StillDisowned == {r \in disowned : file'[r] = "synced"}

PhoneStep ==
  /\ PassStep \/ PurgeStep \/ UserStep \/ ClockStep
  /\ disowned' = StillDisowned
  /\ UNCHANGED <<edgeVars, late, bounds>>

\* The phone's file system refuses a step: the upload's rename counts as not confirmed, a
\* mark or a delete is left for a later pass, and the rename back into the queue is just lost.
FolderFails ==
  /\ faults < MaxFaults
  /\ faults' = faults + 1
  /\ \/ \E r \in Recs : DropEmpty(r, FALSE) /\ UNCHANGED disowned
     \/ (Confirmed(FALSE) \/ StillHeld(FALSE)) /\ UNCHANGED disowned
     \/ NotHeld(FALSE) /\ disowned' = disowned \cup {r \in {call.rec} : file[r] = "synced"}
  /\ UNCHANGED <<edgeVars, late, losses, damages, kills>>

\* An upload left without a client may still reach the edge's store.
Abandoned ==
  IF call.kind = "upload" /\ call.reply = "none" THEN {<<call.ep, call.rec>>} ELSE {}

Kill ==
  /\ kills < MaxKills
  /\ kills' = kills + 1
  /\ KillApp
  /\ late' = late \cup Abandoned
  /\ UNCHANGED <<edgeVars, disowned, losses, damages, faults>>
-----------------------------------------------------------------------------
(* The edges and the network *)

Reply(word) == call' = [call EXCEPT !.reply = word]
Pending(kind) == call.kind = kind /\ call.reply = "none"
phoneRest == <<file, dest, mark, due, expired, hold, known, default, older, saved, counted,
               pass, verifying, purge, home, heard, lost, disowned>>

Kept(at) == [held EXCEPT ![at] = at[2]]

\* "stored": held and promised (EdgeStore's AnswerStored).
EdgeStores ==
  /\ Pending("upload")
  /\ held' = Kept(<<call.ep, call.rec>>)
  /\ promise' = [promise EXCEPT ![<<call.ep, call.rec>>] = call.rec]
  /\ spoiled' = [spoiled EXCEPT ![<<call.ep, call.rec>>] = FALSE]
  /\ hurt' = hurt \ {<<call.ep, call.rec>>}
  /\ Reply("stored")
  /\ UNCHANGED <<phoneRest, late, bounds>>

\* 408, 429, 5xx, or a 200 that does not prove the bytes; or another 4xx.
EdgeDeclines ==
  /\ \/ Pending("upload") /\ (Reply("busy") \/ Reply("refused"))
     \/ Pending("have") /\ Reply("busy")
  /\ UNCHANGED <<phoneRest, edgeVars, late, bounds>>

EdgeAnswersHave ==
  /\ Pending("have")
  /\ Reply(IF held[<<call.ep, call.rec>>] = call.rec THEN "yes" ELSE "no")
  /\ UNCHANGED <<phoneRest, edgeVars, late, bounds>>

CallBreaks ==
  /\ call # NoCall /\ call.reply # "error"
  /\ losses < MaxLosses
  /\ losses' = losses + 1
  /\ Reply("error")
  /\ late' = late \cup Abandoned
  /\ UNCHANGED <<phoneRest, edgeVars, damages, kills, faults>>

\* Carried out for nobody: the copy is there, but nothing was promised (EdgeStore's gone).
EdgeStoresLate(e, r) ==
  /\ <<e, r>> \in late
  /\ late' = late \ {<<e, r>>}
  /\ held' = Kept(<<e, r>>)
  /\ promise' = IF spoiled[<<e, r>>] THEN [promise EXCEPT ![<<e, r>>] = None] ELSE promise
  /\ UNCHANGED <<phoneVars, spoiled, hurt, disowned, bounds>>

Decay(e, r) ==
  /\ held[<<e, r>>] = r
  /\ held' = [held EXCEPT ![<<e, r>>] = Rot]
  /\ spoiled' = [spoiled EXCEPT ![<<e, r>>] = TRUE]
  /\ UNCHANGED promise

\* An operator moves the copy away.
TakeAway(e, r) ==
  /\ held[<<e, r>>] # None
  /\ held' = [held EXCEPT ![<<e, r>>] = None]
  /\ promise' = [promise EXCEPT ![<<e, r>>] = None]
  /\ UNCHANGED spoiled

\* A power loss takes what was never promised.
Unkept(e, r) ==
  /\ held[<<e, r>>] = r /\ promise[<<e, r>>] = None
  /\ held' = [held EXCEPT ![<<e, r>>] = None]
  /\ UNCHANGED <<promise, spoiled>>

EdgeHurt ==
  /\ damages < MaxDamage
  /\ damages' = damages + 1
  /\ \E e \in Endpoints, r \in Recs :
       /\ Decay(e, r) \/ TakeAway(e, r) \/ Unkept(e, r)
       /\ hurt' = hurt \cup {<<e, r>>}
  /\ UNCHANGED <<phoneVars, late, disowned, losses, kills, faults>>

Next ==
  \/ PhoneStep
  \/ FolderFails
  \/ Kill
  \/ EdgeStores \/ EdgeDeclines \/ EdgeAnswersHave \/ CallBreaks
  \/ \E e \in Endpoints, r \in Recs : EdgeStoresLate(e, r)
  \/ EdgeHurt

Spec == Init /\ [][Next]_vars

(***************************************************************************)
(* WorkManager runs passes again and again (SyncWorker.kt:104-121), a pass *)
(* goes on step by step, refusal delays run out, an edge answers every     *)
(* call that does not break, and it does not decline a Served recording,   *)
(* or the question whether it holds it, forever.                           *)
(***************************************************************************)
Fairness ==
  /\ WF_vars(PassStep /\ disowned' = StillDisowned /\ UNCHANGED <<edgeVars, late, bounds>>)
  /\ \A r \in Recs : WF_vars(HoldOver(r) /\ UNCHANGED <<edgeVars, late, disowned, bounds>>)
  /\ WF_vars(EdgeAnswersHave \/ EdgeDeclines)
  /\ \A r \in Served : /\ SF_vars(call # NoCall /\ call.rec = r /\ EdgeStores)
                       /\ SF_vars(call # NoCall /\ call.rec = r /\ EdgeAnswersHave)
FairSpec == Spec /\ Fairness
-----------------------------------------------------------------------------
\* ws:// recordings from before the first wss:// run: "marked [DEST_NONE] and stays on the phone"
\* (SegmentSync.kt:36-37), unless the X.dest is lost, when the default takes them.
Strays == {r \in older : home[r] = "local"}

(***************************************************************************)
(* The owner's rule, end to end (SegmentSync.kt:26-28,                     *)
(* RetentionPolicy.kt:3-14): within its 90 days a recording marked synced, *)
(* or already taken off the phone, is held by the edge it was captured     *)
(* for, unless that edge's own copy was damaged or moved away since.       *)
(***************************************************************************)
MirrorHolds ==
  \A r \in Recs \ (expired \cup Strays) : file[r] \in {"synced", "gone"} =>
    /\ home[r] \in Endpoints
    /\ held[<<home[r], r>>] = r \/ <<home[r], r>> \in hurt

(***************************************************************************)
(* The mirror as a whole: well-formed, and every recording that the phone  *)
(* no longer keeps for itself is held where it belongs.                    *)
(***************************************************************************)
MirrorKept == TypeOK /\ MirrorHolds

(***************************************************************************)
(* Retention takes a recording early only after the edge's last word was   *)
(* yes, and never while the phone waits for the edge's word on it: a no    *)
(* would make the phone's copy the only one (SegmentSync.kt:57-61).  What  *)
(* the code does not cover is a no whose rename fails (SegmentSync.kt:357  *)
(* does not look): that file still says synced, and may be taken.          *)
(***************************************************************************)
OnlyHeldCopiesGoEarly ==
  [][ \A r \in Recs \ expired :
        (file[r] \in {"waiting", "synced"} /\ file'[r] = "gone") =>
          /\ heard[r] = "yes" \/ r \in disowned
          /\ call = NoCall \/ call.kind # "have" \/ call.rec # r ]_vars

(***************************************************************************)
(* A recording goes to the bridge it was captured for, a recording of an   *)
(* older build to the one bridge it was made for, whatever is registered   *)
(* later and whatever X.dest files get lost (SegmentSync.kt:30-38).  Only  *)
(* a ws:// recording from before the first wss:// run is not covered.      *)
(***************************************************************************)
SentHome ==
  \A e \in Endpoints, r \in Recs :
    held[<<e, r>>] # None \/ <<e, r>> \in late =>
      e = home[r] \/ r \in Strays

(***************************************************************************)
(* "Never silent: a recording that expired before reaching the edge is     *)
(* reported." (LocalRecorder.kt:101): once no purge is at work, every      *)
(* recording lost so far has been counted, and counted once.               *)
(***************************************************************************)
NeverSilent ==
  (\A p \in Purgers : purge[p].pc = "idle") => counted = Cardinality(lost)

(***************************************************************************)
(* A waiting recording with somewhere to go does not wait forever, even    *)
(* behind one its edge declines every time: it becomes synced, or          *)
(* retention ends it, or its destination is lost (SyncWorker.kt:104-121,   *)
(* SegmentSync.kt:327-330, 365-369).                                       *)
(***************************************************************************)
EventuallyMirrored ==
  \A r \in Served :
    (file[r] = "waiting" /\ Route(r) # None) ~> (file[r] # "waiting" \/ Route(r) = None)

(***************************************************************************)
(* A week after its confirmation the edge is asked again until it answers  *)
(* (SegmentSync.kt:24-26): a synced recording that is due gets its mark,   *)
(* or goes back into the queue, or is taken by retention, or has lost its  *)
(* destination; it is never left half-way, claimed for ever.               *)
(***************************************************************************)
EventuallyRechecked ==
  \A r \in Served :
    (file[r] = "synced" /\ r \in due \ mark /\ Route(r) # None) ~>
      (file[r] # "synced" \/ r \in mark \/ Route(r) = None)
=============================================================================
