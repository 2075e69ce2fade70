------------------------------ MODULE EdgeStore ------------------------------
(***************************************************************************)
(* The edge's durable store for phone recordings: store() and verify() of  *)
(* bridges/meeting_bridge/upload_store.py behind the upload and possession *)
(* routes of bridges/meeting_bridge/server.py.                             *)
(*                                                                         *)
(* Every file-system call is a step of its own wherever a crash, an I/O    *)
(* error or another request may fall before the next one.  disk is what    *)
(* the running kernel shows; survive is the set of what a power loss may   *)
(* leave: every version since the last fsync of the day directory, in the  *)
(* order a journaling file system commits them.                            *)
(*                                                                         *)
(* A recording's bytes are one value of Contents; equality of values       *)
(* stands for equality of length and sha256.  Sidecars and proofs hold the *)
(* recording they describe.  All names share one day directory.            *)
(***************************************************************************)
EXTENDS Naturals

CONSTANTS
  Names,        \* segment names
  Contents,     \* the byte strings phones send
  Workers,      \* upload slots (UPLOAD_CONCURRENCY)
  None,         \* no file, no holder
  Rot,          \* a held file whose bytes changed on disk
  Torn,         \* a file whose data never reached the disk
  Sidecars,     \* whether uploads carry a sidecar: a subset of BOOLEAN
  Exclusive,    \* TRUE: the server's per-name lock; FALSE: writers that share no lock
  MaxCrashes,   \* bound on process kills and power losses
  MaxDamage,    \* bound on disk damage and removals by an operator
  MaxErrors     \* bound on I/O errors (OSError, a full disk)

ASSUME ConstantsAssumption ==
  /\ Exclusive \in BOOLEAN
  /\ Sidecars \subseteq BOOLEAN
  /\ MaxCrashes \in Nat
  /\ MaxDamage \in Nat
  /\ MaxErrors \in Nat
  /\ None \notin Contents \cup Workers
  /\ Rot \notin Contents \cup {None}
  /\ Torn \notin Contents \cup {None, Rot}

VARIABLES
  disk,      \* disk[n]: the files of n now
  survive,   \* survive[n]: the versions of n's files a power loss may leave
  day,       \* the day directory: "absent", "made" (entry not durable) or "durable"
  holder,    \* holder[n]: the request inside the name lock (NameMutex)
  req,       \* req[w]: the request in slot w.  trying: inside the try block; linked, proven,
             \* keep, wrote: the code's flags; flushed: its temp file's data is on the disk;
             \* ok: store() returns; gone: the client left;
             \* sound (history): no damage since this request hashed the held file
  promise,   \* history: the bytes of the last "stored" answer for n
  timed,     \* history: that answer was for an upload with a sidecar
  spoiled,   \* history: n's copy was damaged after the bytes of that answer were hashed
  vouched,   \* history: the bytes of the last "have: true" for n, until damage or power loss
  crashes, damages, errors

storeVars == <<disk, survive, day>>
history == <<promise, timed, spoiled, vouched>>
faults == <<crashes, damages>>
vars == <<disk, survive, day, holder, req, promise, timed, spoiled, vouched, crashes, damages, errors>>

Audio == Contents \cup {None, Rot, Torn}
Files == [audio : Audio, side : Contents \cup {None}, proof : Contents \cup {None},
          aside : SUBSET Audio]
NoFiles == [audio |-> None, side |-> None, proof |-> None, aside |-> {}]

Idle == [pc |-> "idle"]
PCs == {"body", "floor", "mkdir", "mkdirSync", "look", "heldSide", "quarantine", "asideSync",
        "stale", "side", "temp", "link", "sync", "readback", "proof", "proofSync", "persist",
        "cleanup"}
Requests ==
  [pc : PCs, name : Names, data : Contents, meta : BOOLEAN, keep : BOOLEAN, wrote : BOOLEAN,
   trying : BOOLEAN, flushed : BOOLEAN, linked : BOOLEAN, proven : BOOLEAN, ok : BOOLEAN,
   gone : BOOLEAN, sound : BOOLEAN]

TypeOK ==
  /\ disk \in [Names -> Files]
  /\ survive \in [Names -> SUBSET Files]
  /\ day \in {"absent", "made", "durable"}
  /\ holder \in [Names -> Workers \cup {None}]
  /\ req \in [Workers -> {Idle} \cup Requests]
  /\ promise \in [Names -> Contents \cup {None}]
  /\ timed \in [Names -> BOOLEAN]
  /\ spoiled \in [Names -> BOOLEAN]
  /\ vouched \in [Names -> Contents \cup {None}]
  /\ crashes \in 0 .. MaxCrashes
  /\ damages \in 0 .. MaxDamage
  /\ errors \in 0 .. MaxErrors

Init ==
  /\ disk = [n \in Names |-> NoFiles]
  /\ survive = [n \in Names |-> {NoFiles}]
  /\ day = "absent"
  /\ holder = [n \in Names |-> None]
  /\ req = [w \in Workers |-> Idle]
  /\ promise = [n \in Names |-> None]
  /\ timed = [n \in Names |-> FALSE]
  /\ spoiled = [n \in Names |-> FALSE]
  /\ vouched = [n \in Names |-> None]
  /\ crashes = 0
  /\ damages = 0
  /\ errors = 0
-----------------------------------------------------------------------------
(* File-system steps *)

\* A change of n's directory entries, not durable until the next fsync.
Put(n, f) ==
  /\ disk' = [disk EXCEPT ![n] = f]
  /\ survive' = [survive EXCEPT ![n] = @ \cup {f}]
  /\ UNCHANGED day

\* fsync of the day directory: every entry in it is now durable.
SyncDay == survive' = [n \in Names |-> {disk[n]}]

\* verify(): re-hash the held file.
Verify(n, c) == disk[n].audio = c

(* Steps of the request in slot w *)

At(w, pc) == req[w].pc = pc
Name(w) == req[w].name
Data(w) == req[w].data
File(w) == disk[Name(w)]
Goto(w, pc) == req' = [req EXCEPT ![w].pc = pc]

HolderAfter(w) ==
  IF Exclusive THEN [holder EXCEPT ![Name(w)] = None] ELSE holder

\* An answer that promises nothing (4xx, 5xx), or none to a client that left.
Refuse(w) ==
  /\ req' = [req EXCEPT ![w] = Idle]
  /\ holder' = HolderAfter(w)
  /\ UNCHANGED history

\* store() returned Stored: the answer "stored" goes out unless the client left.  It
\* promises nothing of a file an operator took away before it.
AnswerStored(w) ==
  /\ req' = [req EXCEPT ![w] = Idle]
  /\ holder' = HolderAfter(w)
  /\ IF req[w].gone \/ File(w).audio = None THEN UNCHANGED <<promise, timed, spoiled>>
     ELSE /\ promise' = [promise EXCEPT ![Name(w)] = Data(w)]
          /\ timed' = [timed EXCEPT ![Name(w)] = req[w].meta]
          /\ spoiled' = [spoiled EXCEPT ![Name(w)] = ~req[w].sound]
  /\ UNCHANGED vouched

\* An OSError: inside the try block the "finally" runs, before it store() just raises.
Fail(w) ==
  /\ errors < MaxErrors
  /\ errors' = errors + 1
  /\ UNCHANGED storeVars
  /\ IF req[w].trying
       THEN /\ req' = [req EXCEPT ![w].pc = "cleanup", ![w].ok = FALSE]
            /\ UNCHANGED <<holder, history>>
       ELSE Refuse(w)
-----------------------------------------------------------------------------
(* _handle_upload up to the store *)

Start(w, n, c, m) ==
  /\ req[w] = Idle
  /\ req' = [req EXCEPT ![w] =
       [pc |-> "body", name |-> n, data |-> c, meta |-> m, keep |-> FALSE, wrote |-> FALSE,
        trying |-> FALSE, flushed |-> FALSE, linked |-> FALSE, proven |-> FALSE, ok |-> FALSE,
        gone |-> FALSE, sound |-> FALSE]]
  /\ UNCHANGED <<storeVars, holder, history, errors>>

\* The body stalls, breaks off or is too large, outside any lock.
BodyRejected(w) ==
  /\ At(w, "body")
  /\ req' = [req EXCEPT ![w] = Idle]
  /\ UNCHANGED <<storeVars, holder, history, errors>>

Lock(w) ==
  /\ At(w, "body")
  /\ Exclusive => holder[Name(w)] = None
  /\ holder' = IF Exclusive THEN [holder EXCEPT ![Name(w)] = w] ELSE holder
  /\ Goto(w, "floor")
  /\ UNCHANGED <<storeVars, history, errors>>

\* Below the free-space floor only bytes already held go on.  Bytes that are
\* not what the request declared (422) are refused here too.
FloorRejected(w) ==
  /\ At(w, "floor")
  /\ ~Verify(Name(w), Data(w))
  /\ Refuse(w)
  /\ UNCHANGED <<storeVars, errors>>

Floor(w) ==
  /\ At(w, "floor")
  /\ Goto(w, IF day = "absent" THEN "mkdir" ELSE "look")
  /\ UNCHANGED <<storeVars, holder, history, errors>>

\* Mutated form: cancellation lets go of the lock while the thread still works.
AbandonUnlocks(w) ==
  /\ req[w] # Idle
  /\ ~At(w, "body")
  /\ ~req[w].gone
  /\ req' = [req EXCEPT ![w].gone = TRUE]
  /\ holder' = HolderAfter(w)
  /\ UNCHANGED <<storeVars, history, errors>>

\* The client's connection ends while the thread works: _finish_in_thread
\* keeps the lock until the thread is done.
Abandon(w) ==
  /\ req[w] # Idle
  /\ ~At(w, "body")
  /\ ~req[w].gone
  /\ req' = [req EXCEPT ![w].gone = TRUE]
  /\ UNCHANGED <<storeVars, holder, history, errors>>
-----------------------------------------------------------------------------
(* _store_checked *)

\* makedirs_durable: mkdir, then fsync of the parent.
MakeDay(w) ==
  /\ At(w, "mkdir")
  /\ \/ /\ day' = IF day = "absent" THEN "made" ELSE day
        /\ Goto(w, "mkdirSync")
        /\ UNCHANGED <<disk, survive, holder, history, errors>>
     \/ Fail(w)

SyncParent(w) ==
  /\ At(w, "mkdirSync")
  /\ \/ /\ day' = "durable"
        /\ Goto(w, "look")
        /\ UNCHANGED <<disk, survive, holder, history, errors>>
     \/ Fail(w)

\* The three cases of an upload: identical file held, other bytes held, none held.
LookHeld(w) ==
  /\ At(w, "look")
  /\ File(w).audio = Data(w)
  /\ req' = [req EXCEPT ![w].pc = "heldSide", ![w].sound = TRUE]
  /\ UNCHANGED <<storeVars, holder, history, errors>>

LookOther(w) ==
  /\ At(w, "look")
  /\ File(w).audio \notin {None, Data(w)}
  /\ IF File(w).proof = Data(w)
       THEN Goto(w, "quarantine") /\ UNCHANGED <<holder, history>>
       ELSE Refuse(w)
  /\ UNCHANGED <<storeVars, errors>>

LookNone(w) ==
  /\ At(w, "look")
  /\ File(w).audio = None
  /\ req' = [req EXCEPT ![w].pc = "stale", ![w].keep = File(w).proof = Data(w)]
  /\ UNCHANGED <<storeVars, holder, history, errors>>

LookFails(w) == At(w, "look") /\ Fail(w)

\* Held already: complete the sidecar, then the proof, before the answer.
HeldSide(w) ==
  /\ At(w, "heldSide")
  /\ \/ /\ IF req[w].meta /\ File(w).side = None
             THEN Put(Name(w), [File(w) EXCEPT !.side = Data(w)])
             ELSE UNCHANGED storeVars
        /\ Goto(w, IF File(w).proof = Data(w) THEN "persist" ELSE "proof")
        /\ UNCHANGED <<holder, history, errors>>
     \/ Fail(w)

\* Mutated form: the damaged copy is removed instead of moved aside.
QuarantineDeletes(w) ==
  /\ At(w, "quarantine")
  /\ Put(Name(w), [File(w) EXCEPT !.audio = None])
  /\ Goto(w, "asideSync")
  /\ UNCHANGED <<holder, history, errors>>

\* History: with its spoiled copy moved aside, the old promise is over.
Renounce(n) ==
  /\ promise' = IF spoiled[n] THEN [promise EXCEPT ![n] = None] ELSE promise
  /\ UNCHANGED <<timed, spoiled, vouched>>

\* _quarantine: the damaged copy is moved aside, never deleted.
Quarantine(w) ==
  /\ At(w, "quarantine")
  /\ \/ /\ File(w).audio # None
        /\ Put(Name(w), [File(w) EXCEPT !.audio = None, !.aside = @ \cup {File(w).audio}])
        /\ Goto(w, "asideSync")
        /\ Renounce(Name(w))
        /\ UNCHANGED <<holder, errors>>
     \/ /\ File(w).audio = None   \* taken away meanwhile: FileNotFoundError
        /\ Refuse(w)
        /\ UNCHANGED <<storeVars, errors>>
     \/ Fail(w)

SyncAside(w) ==
  /\ At(w, "asideSync")
  /\ \/ /\ SyncDay
        /\ req' = [req EXCEPT ![w].pc = "stale", ![w].keep = TRUE]
        /\ UNCHANGED <<disk, day, holder, history, errors>>
     \/ Fail(w)

\* Mutated form: leftovers of an earlier attempt stay.
RemoveStaleSkipped(w) ==
  /\ At(w, "stale")
  /\ Goto(w, "side")
  /\ UNCHANGED <<storeVars, holder, history, errors>>

\* Nothing left from another recording or a failed attempt may describe these bytes.
RemoveStale(w) ==
  /\ At(w, "stale")
  /\ \/ /\ ~req[w].keep /\ File(w).side # None
        /\ Put(Name(w), [File(w) EXCEPT !.side = None])
        /\ UNCHANGED <<req, holder, history, errors>>
     \/ /\ ~req[w].keep /\ File(w).side = None /\ File(w).proof # None
        /\ Put(Name(w), [File(w) EXCEPT !.proof = None])
        /\ UNCHANGED <<req, holder, history, errors>>
     \/ /\ req[w].keep \/ (File(w).side = None /\ File(w).proof = None)
        /\ Goto(w, "side")
        /\ UNCHANGED <<storeVars, holder, history, errors>>
     \/ Fail(w)

WriteSide(w) ==
  /\ At(w, "side")
  /\ \/ /\ IF req[w].meta /\ ~(req[w].keep /\ File(w).side # None)
             THEN /\ Put(Name(w), [File(w) EXCEPT !.side = Data(w)])
                  /\ req' = [req EXCEPT ![w].pc = "temp", ![w].wrote = TRUE, ![w].trying = TRUE]
             ELSE /\ req' = [req EXCEPT ![w].pc = "temp", ![w].trying = TRUE]
                  /\ UNCHANGED storeVars
        /\ UNCHANGED <<holder, history, errors>>
     \/ Fail(w)

\* Mutated form: the temp file is written but not fsynced.
WriteTempBuffered(w) ==
  /\ At(w, "temp")
  /\ \/ Goto(w, "link") /\ UNCHANGED <<storeVars, holder, history, errors>>
     \/ Fail(w)

\* _write_durable: written and fsynced under a name of its own that nobody else uses.
WriteTemp(w) ==
  /\ At(w, "temp")
  /\ \/ /\ req' = [req EXCEPT ![w].pc = "link", ![w].flushed = TRUE]
        /\ UNCHANGED <<storeVars, holder, history, errors>>
     \/ Fail(w)

\* What a power loss may leave in the temp file's inode: a link made durable before the data
\* is a file without its data.
AfterPowerLoss(w) == {Data(w)} \cup (IF req[w].flushed THEN {} ELSE {Torn})

Link(w) ==
  /\ At(w, "link")
  /\ \/ /\ File(w).audio = None
        /\ disk' = [disk EXCEPT ![Name(w)] = [File(w) EXCEPT !.audio = Data(w)]]
        /\ survive' = [survive EXCEPT ![Name(w)] =
             @ \cup {[File(w) EXCEPT !.audio = a] : a \in AfterPowerLoss(w)}]
        /\ req' = [req EXCEPT ![w].pc = "sync", ![w].linked = TRUE]
        /\ UNCHANGED <<day, holder, history, errors>>
     \/ Fail(w)

\* FileExistsError: another writer of this name won.
LinkLost(w) ==
  /\ At(w, "link")
  /\ File(w).audio # None
  /\ req' = [req EXCEPT ![w].pc = IF File(w).audio = Data(w) THEN "persist" ELSE "cleanup",
                       ![w].sound = File(w).audio = Data(w)]
  /\ UNCHANGED <<storeVars, holder, history, errors>>

SyncLink(w) ==
  /\ At(w, "sync")
  /\ \/ /\ SyncDay
        /\ Goto(w, "readback")
        /\ UNCHANGED <<disk, day, holder, history, errors>>
     \/ Fail(w)

ReadBack(w) ==
  /\ At(w, "readback")
  /\ \/ /\ File(w).audio = Data(w)
        /\ req' = [req EXCEPT ![w].pc = "proof", ![w].linked = FALSE, ![w].proven = TRUE,
                               ![w].sound = TRUE]
        /\ UNCHANGED <<storeVars, holder, history, errors>>
     \/ /\ File(w).audio # Data(w)
        /\ Goto(w, "cleanup")
        /\ UNCHANGED <<storeVars, holder, history, errors>>
     \/ Fail(w)

\* _write_proof: replace, then fsync of the directory.
WriteProof(w) ==
  /\ At(w, "proof")
  /\ \/ /\ Put(Name(w), [File(w) EXCEPT !.proof = Data(w)])
        /\ Goto(w, "proofSync")
        /\ UNCHANGED <<holder, history, errors>>
     \/ Fail(w)

SyncProof(w) ==
  /\ At(w, "proofSync")
  /\ \/ /\ SyncDay
        /\ Goto(w, "persist")
        /\ UNCHANGED <<disk, day, holder, history, errors>>
     \/ Fail(w)

\* Mutated forms: an existing day directory is taken as durable; nothing is fsynced.
PersistFileOnly == SyncDay /\ UNCHANGED <<disk, day>>
PersistNothing == day' = "durable" /\ UNCHANGED <<disk, survive>>

\* _persist_chain: the day directory and its ancestors, right before "stored".
PersistEffect == SyncDay /\ day' = "durable" /\ UNCHANGED disk

PersistChain(w) ==
  /\ At(w, "persist")
  /\ \/ /\ PersistEffect
        /\ IF req[w].trying
             THEN /\ req' = [req EXCEPT ![w].pc = "cleanup", ![w].proven = TRUE, ![w].ok = TRUE]
                  /\ UNCHANGED <<holder, history>>
             ELSE AnswerStored(w)
        /\ UNCHANGED errors
     \/ Fail(w)

\* The "finally" block: undo an unproven link, then drop the sidecar of a failed attempt.
\* Errors of these removals are swallowed.
Unlinked(w) ==
  IF req[w].linked THEN {File(w), [File(w) EXCEPT !.audio = None]} ELSE {File(w)}
SideDropped(w, f) ==
  IF req[w].wrote /\ ~req[w].proven /\ f.audio = None THEN {f, [f EXCEPT !.side = None]} ELSE {f}

Cleanup(w) ==
  /\ At(w, "cleanup")
  /\ \E f \in Unlinked(w) : \E g \in SideDropped(w, f) :
       /\ disk' = [disk EXCEPT ![Name(w)] = g]
       /\ \/ survive' = [survive EXCEPT ![Name(w)] = @ \cup {f, g}]
          \/ /\ f # File(w)
             /\ survive' = [n \in Names |-> IF n = Name(w) THEN {f, g} ELSE {disk[n]}]
  /\ UNCHANGED <<day, errors>>
  /\ IF req[w].ok THEN AnswerStored(w) ELSE Refuse(w)

\* The temp file cannot be removed: that error skips the rest of the block.
CleanupFails(w) ==
  /\ At(w, "cleanup")
  /\ errors < MaxErrors
  /\ errors' = errors + 1
  /\ Refuse(w)
  /\ UNCHANGED storeVars
-----------------------------------------------------------------------------
(* _handle_have, and the environment *)

\* A possession check takes the same lock, so it never runs beside a store of n.
Have(n, c) ==
  /\ holder[n] = None
  /\ Verify(n, c)
  /\ vouched' = [vouched EXCEPT ![n] = c]
  /\ UNCHANGED <<storeVars, holder, req, promise, timed, spoiled, errors>>

RequestStep ==
  /\ \E w \in Workers :
       \/ \E n \in Names, c \in Contents, m \in Sidecars : Start(w, n, c, m)
       \/ BodyRejected(w) \/ Lock(w) \/ FloorRejected(w) \/ Floor(w) \/ Abandon(w)
       \/ MakeDay(w) \/ SyncParent(w)
       \/ LookHeld(w) \/ LookOther(w) \/ LookNone(w) \/ LookFails(w)
       \/ HeldSide(w) \/ Quarantine(w) \/ SyncAside(w) \/ RemoveStale(w)
       \/ WriteSide(w) \/ WriteTemp(w) \/ Link(w) \/ LinkLost(w) \/ SyncLink(w) \/ ReadBack(w)
       \/ WriteProof(w) \/ SyncProof(w) \/ PersistChain(w) \/ Cleanup(w) \/ CleanupFails(w)
  /\ UNCHANGED faults

HaveStep ==
  /\ \E n \in Names, c \in Contents : Have(n, c)
  /\ UNCHANGED faults

\* Every request of the old process is gone, with its locks.
Restarted ==
  /\ crashes < MaxCrashes
  /\ crashes' = crashes + 1
  /\ req' = [w \in Workers |-> Idle]
  /\ holder' = [n \in Names |-> None]
  /\ UNCHANGED <<promise, timed, spoiled, damages, errors>>

Kill == Restarted /\ UNCHANGED <<storeVars, vouched>>

PowerLoss ==
  /\ Restarted
  /\ vouched' = [n \in Names |-> None]
  /\ \/ /\ \E left \in [Names -> UNION {survive[n] : n \in Names}] :
             /\ \A n \in Names : left[n] \in survive[n]
             /\ disk' = left
             /\ survive' = [n \in Names |-> {left[n]}]
        /\ day' = IF day = "made" THEN "durable" ELSE day
     \/ /\ day = "made"
        /\ disk' = [n \in Names |-> NoFiles]
        /\ survive' = [n \in Names |-> {NoFiles}]
        /\ day' = "absent"

\* The held bytes change on disk, or an operator moves the file away for good.
DamageTo(n, a) ==
  /\ damages < MaxDamage
  /\ damages' = damages + 1
  /\ disk[n].audio \in Contents
  /\ disk' = [disk EXCEPT ![n] = [disk[n] EXCEPT !.audio = a]]
  /\ survive' = [survive EXCEPT ![n] = {IF f.audio = disk[n].audio THEN [f EXCEPT !.audio = a] ELSE f : f \in @}]
  /\ vouched' = [vouched EXCEPT ![n] = None]
  /\ req' = [w \in Workers |-> IF req[w] # Idle /\ req[w].name = n
                               THEN [req[w] EXCEPT !.sound = FALSE] ELSE req[w]]
  /\ UNCHANGED <<day, holder, crashes, errors>>

Decay(n) ==
  /\ DamageTo(n, Rot)
  /\ spoiled' = [spoiled EXCEPT ![n] = TRUE]
  /\ UNCHANGED <<promise, timed>>

TakeAway(n) ==
  /\ DamageTo(n, None)
  /\ promise' = [promise EXCEPT ![n] = None]
  /\ UNCHANGED <<timed, spoiled>>

Next ==
  \/ RequestStep
  \/ HaveStep
  \/ Kill
  \/ PowerLoss
  \/ \E n \in Names : Decay(n) \/ TakeAway(n)

Spec == Init /\ [][Next]_vars
-----------------------------------------------------------------------------
(***************************************************************************)
(* "stored" is a promise a crash or power loss cannot break: from that     *)
(* answer on, and until the disk itself is damaged, every version of the   *)
(* disk a power loss could leave still holds exactly those bytes under     *)
(* that name (upload_store.py:1-16, server.py:495-498).                    *)
(***************************************************************************)
Promised(n) == promise[n] # None /\ ~spoiled[n]

ReceiptSurvives ==
  \A n \in Names : Promised(n) =>
    /\ day = "durable"
    /\ \A f \in survive[n] : f.audio = promise[n]

(***************************************************************************)
(* The timing that came with a recording survives with it: after "stored"  *)
(* for an upload with a sidecar, no crash leaves the audio without it.     *)
(***************************************************************************)
TimingSurvives ==
  \A n \in Names : (Promised(n) /\ timed[n]) =>
    \A f \in survive[n] : f.side = promise[n]

(***************************************************************************)
(* Leftovers never describe other audio: in no state a crash can leave     *)
(* does a sidecar or a proof of one recording lie beside another one's     *)
(* bytes, whatever failed attempts and repairs came before                 *)
(* (upload_store.py:281-284).                                              *)
(***************************************************************************)
LeftoversMatch ==
  \A n \in Names : \A f \in survive[n] :
    f.audio \in Contents => f.side \in {None, f.audio} /\ f.proof \in {None, f.audio}

(***************************************************************************)
(* A promised recording that decays on disk can be repaired: its proof is  *)
(* still there, so an upload of the phone's copy is taken, not refused     *)
(* as "a different file" (upload_store.py:16-20).                          *)
(***************************************************************************)
RepairPossible ==
  \A n \in Names : (promise[n] # None /\ spoiled[n]) =>
    \A f \in survive[n] : f.audio = Rot => f.proof = promise[n]

(***************************************************************************)
(* No final file ever holds half-written audio, whenever the power fails:  *)
(* the temp file's data is on the disk before its name is                  *)
(* (upload_store.py:298-300).                                              *)
(***************************************************************************)
NothingTorn == \A n \in Names : \A f \in survive[n] : f.audio # Torn

(***************************************************************************)
(* All that "stored" promises, and all that is true of every disk a crash  *)
(* can leave, each as one invariant.                                       *)
(***************************************************************************)
PromiseKept == ReceiptSurvives /\ TimingSurvives /\ RepairPossible
CleanDisk == LeftoversMatch /\ NothingTorn

(***************************************************************************)
(* Held audio is never replaced by a request inside the name lock: it goes *)
(* only into damaged/, or when a failed attempt takes back the very bytes  *)
(* it linked itself (upload_store.py:12, 14-20, 301-305).                  *)
(***************************************************************************)
NoFault == crashes' = crashes /\ damages' = damages

RemovalStep ==
  NoFault =>
    \A n \in Names : (disk[n].audio # None /\ disk'[n].audio # disk[n].audio) =>
       /\ disk'[n].audio = None
       /\ \/ disk[n].audio \in disk'[n].aside
          \/ \E w \in Workers : /\ At(w, "cleanup") /\ Name(w) = n /\ req[w].linked
                                /\ disk[n].audio \in {Data(w), Rot}
RemovesOnlyItsOwn == [][RemovalStep]_vars

(***************************************************************************)
(* A possession check never vouches for a file that a store still has to   *)
(* prove or roll back: what it said is held stays held                     *)
(* (server.py:58-61, 575-576).                                             *)
(***************************************************************************)
VouchStep ==
  NoFault =>
    \A n \in Names : (vouched[n] # None /\ disk[n].audio = vouched[n]) =>
       disk'[n].audio = vouched[n]
VouchedStays == [][VouchStep]_vars

(***************************************************************************)
(* The module docstring (upload_store.py:15-16): "If anything fails after  *)
(* the link, the link is undone, so a failed attempt never leaves a final  *)
(* file".  The code keeps the file when only the proof or the last fsync   *)
(* fails (upload_store.py:314-317).                                        *)
(***************************************************************************)
FailedAttemptLeavesNoFile ==
  [][ (crashes' = crashes) =>
        \A w \in Workers :
          (At(w, "cleanup") /\ ~req[w].ok /\ req[w].proven /\ req'[w] = Idle) =>
            disk'[Name(w)].audio = None ]_vars

(***************************************************************************)
(* What the phone is promised, without the file system.                    *)
(***************************************************************************)
\* The audio of n that no power loss can take or bring back.
Settled(n) ==
  IF day = "durable" /\ \E a \in Audio : \A f \in survive[n] : f.audio = a
  THEN disk[n].audio ELSE None

Archive == INSTANCE EdgeArchive WITH held <- [n \in Names |-> Settled(n)]
ArchiveSpec == Archive!Spec
=============================================================================
