----------------------------- MODULE Mirror_proofs -----------------------------
(***************************************************************************)
(* What Mirror promises, for every set of recordings, bridges and purging  *)
(* threads and any number of losses, damages and deaths: each recording    *)
(* goes home, a synced one is held there, and retention takes no unexpired *)
(* one the edge did not vouch for, but for a failed rename.                *)
(***************************************************************************)
EXTENDS Mirror, FiniteSetTheorems, TLAPS

Purges == [pc : {"idle", "listed", "swept", "note"}, list : SUBSET Entries, loss : Nat, seen : Nat]

\* The pass stands where its call does, and a re-check keeps retention off its recording.
CallFits ==
  /\ pass.pc = "sent" => call \in Calls /\ call.kind = "upload"
  /\ pass.pc = "asked" => call \in Calls /\ call.kind = "have" /\ call.rec \in verifying
  /\ pass.pc \notin {"sent", "asked"} => call = NoCall

\* Where r may be sent: the bridge it was made for, or anywhere for one that strayed.
AtHome(e, r) == e = home[r] \/ r \in Strays

\* Until a default is chosen no bridge is known, and what is there is an older build's, for the
\* bridge that build saved, or was made for none.  What may take the default was made for it.
Chosen ==
  /\ default = None =>
       /\ known = {} /\ older = {}
       /\ \A r \in Recs : IF r \in Legacy THEN home[r] = saved ELSE file[r] = "new" \/ home[r] = "local"
  /\ default # None =>
       /\ saved = None
       /\ \A r \in Legacy : home[r] = default
       /\ \A r \in older : file[r] # "new" /\ home[r] \in {default, "local"}
  /\ \A r \in Recs : file[r] = "new" => home[r] = None /\ r \notin Legacy

Homeward ==
  /\ \A r \in Recs : dest[r] \in Endpoints => AtHome(dest[r], r)
  /\ call # NoCall => AtHome(call.ep, call.rec)
  /\ SentHome

\* A promised copy is there, and so is what was called "stored".
Promises ==
  /\ \A e \in Endpoints, r \in Recs :
       /\ promise[<<e, r>>] \in {None, r}
       /\ promise[<<e, r>>] # None /\ ~spoiled[<<e, r>>] => held[<<e, r>>] = r
  /\ call # NoCall /\ call.reply = "stored" =>
       held[<<call.ep, call.rec>>] = call.rec \/ <<call.ep, call.rec>> \in hurt

Vouched == \A r \in Recs : file[r] = "synced" => heard[r] = "yes" \/ r \in disowned

\* What was lost had expired and is gone.
Losses ==
  /\ IsFiniteSet(expired) /\ lost \subseteq expired
  /\ \A r \in lost : file[r] = "gone"

MirrorInv ==
  TypeOK /\ CallFits /\ Chosen /\ Homeward /\ Promises /\ MirrorHolds /\ Vouched /\ Losses

\* A step of the pass, whether or not the phone's file system lets it work.
AnyPass ==
  \/ StartPass
  \/ \E r \in Recs : Skip(r) \/ Send(r) \/ SkipRecheck(r) \/ Recheck(r)
  \/ \E r \in Recs, works \in BOOLEAN : DropEmpty(r, works)
  \/ \E works \in BOOLEAN : Confirmed(works) \/ StillHeld(works) \/ NotHeld(works)
  \/ NotConfirmed \/ EndRound \/ NoWord \/ EndPass

LEMMA PassIs == PassStep \/ FolderFails => AnyPass
BY DEF PassStep, FolderFails, AnyPass

(* Types *)

LEMMA Apart == NoCall \notin Calls /\ None \notin Endpoints /\ None \notin Recs /\ Rot \notin Recs
<1>1. NoCall.kind = "none"
  BY DEF NoCall
<1>2. \A c \in Calls : c.kind # "none"
  BY DEF Calls
<1> QED
  BY <1>1, <1>2, PhoneAssumption, MirrorAssumption

LEMMA PhoneInitTypes == PhoneInit => PhoneTypeOK
<1> SUFFICES ASSUME PhoneInit PROVE PhoneTypeOK
  OBVIOUS
<1>1. IdlePass \in Passes
  BY DEF IdlePass, Passes
<1>2. IdlePurge \in Purges
  BY DEF IdlePurge, Purges
<1>3. /\ file \in [Recs -> {"new", "open", "empty", "waiting", "synced", "gone", "dropped"}]
      /\ dest \in [Recs -> Endpoints \cup {"local", "empty", "missing"}]
      /\ hold \in [Recs -> {"no", "retry", "rejected"}] /\ heard \in [Recs -> {"nothing", "yes", "no"}]
  BY DEF PhoneInit
<1>4. saved \in Endpoints \cup {None} /\ home \in [Recs -> Endpoints \cup {None, "local"}]
  BY DEF PhoneInit
<1>5. purge \in [Purgers -> Purges]
  BY <1>2 DEF PhoneInit
<1> QED
  BY <1>1, <1>3, <1>4, <1>5 DEF PhoneInit, PhoneTypeOK, Purges

LEMMA RouteIs ==
  ASSUME PhoneTypeOK, NEW r \in Recs
  PROVE  /\ Route(r) \in Endpoints \cup {None}
         /\ Bound(r) \in [Recs -> Endpoints \cup {"local", "empty", "missing"}]
<1>1. Route(r) \in Endpoints \cup {None}
  BY DEF PhoneTypeOK, Route
<1> QED
  BY <1>1 DEF PhoneTypeOK, Bound

LEMMA CallIs ==
  ASSUME NEW c \in Calls
  PROVE  /\ c.kind \in {"upload", "have"} /\ c.ep \in Endpoints /\ c.rec \in Recs
         /\ \A word \in {"none", "stored", "refused", "busy", "yes", "no", "error"} :
              [c EXCEPT !.reply = word] \in Calls
BY DEF Calls

LEMMA PassTypes ==
  ASSUME PhoneTypeOK, CallFits, AnyPass
  PROVE  PhoneTypeOK'
<1>0. /\ file \in [Recs -> {"new", "open", "empty", "waiting", "synced", "gone", "dropped"}]
      /\ dest \in [Recs -> Endpoints \cup {"local", "empty", "missing"}]
      /\ mark \subseteq Recs /\ due \subseteq Recs /\ pass \in Passes /\ call \in Calls \cup {NoCall}
      /\ hold \in [Recs -> {"no", "retry", "rejected"}] /\ heard \in [Recs -> {"nothing", "yes", "no"}]
      /\ known \subseteq Endpoints /\ default \in Endpoints \cup {None} /\ older \subseteq Recs
      /\ saved \in Endpoints \cup {None} /\ verifying \subseteq Recs
  BY DEF PhoneTypeOK
<1>1. CASE StartPass
  <2>1. pass' \in Passes
    BY <1>1 DEF StartPass, IdlePass, Passes, Waiting
  <2>2. known' \subseteq Endpoints /\ default' \in Endpoints \cup {None} /\ older' \subseteq Recs
    BY <1>0, <1>1 DEF StartPass, AdoptedKnown, AdoptedDefault, OlderWhen
  <2> QED
    BY <1>1, <2>1, <2>2 DEF StartPass, PhoneTypeOK, folder, timers
<1>2. ASSUME NEW r \in Recs, NEW works \in BOOLEAN, DropEmpty(r, works) \/ Skip(r) \/ SkipRecheck(r)
      PROVE  PhoneTypeOK'
  <2>1. Done(r) \in Passes /\ [Done(r) EXCEPT !.clean = @ /\ ~(r \in due \ mark /\ Route(r) \in pass.away)] \in Passes
    BY <1>0 DEF Done, Passes
  <2>2. dest' \in [Recs -> Endpoints \cup {"local", "empty", "missing"}]
    BY <1>0, <1>2, RouteIs DEF DropEmpty, Skip, SkipRecheck, folder
  <2>3. pass' \in Passes
    BY <1>2, <2>1 DEF DropEmpty, Skip, SkipRecheck, folder
  <2>4. file' \in [Recs -> {"new", "open", "empty", "waiting", "synced", "gone", "dropped"}] /\ mark' \subseteq Recs
    BY <1>0, <1>2 DEF DropEmpty, Skip, SkipRecheck, folder
  <2> QED
    BY <1>2, <2>2, <2>3, <2>4 DEF DropEmpty, Skip, SkipRecheck, PhoneTypeOK, folder, timers, endpoints
<1>3. ASSUME NEW r \in Recs, Send(r) \/ Recheck(r) PROVE PhoneTypeOK'
  <2>1. Route(r) \in Endpoints
    BY <1>3, RouteIs DEF Send, Recheck, Uploadable
  <2>2. call' \in Calls
    BY <1>3, <2>1 DEF Send, Recheck, Calls
  <2>3. pass' \in Passes
    <3>1. \A pc2 \in {"sent", "asked"} : [Done(r) EXCEPT !.pc = pc2] \in Passes
      BY <1>0 DEF Done, Passes
    <3> QED
      BY <1>3, <3>1 DEF Send, Recheck
  <2>4. dest' \in [Recs -> Endpoints \cup {"local", "empty", "missing"}] /\ verifying' \subseteq Recs
    BY <1>0, <1>3, RouteIs DEF Send, Recheck, Claim
  <2> QED
    BY <1>3, <2>2, <2>3, <2>4 DEF Send, Recheck, PhoneTypeOK, timers, endpoints
<1>4. ASSUME NEW works \in BOOLEAN, Confirmed(works) \/ NotConfirmed PROVE PhoneTypeOK'
  <2>1. call.rec \in Recs /\ call.ep \in Endpoints
    BY <1>4, CallIs DEF Confirmed, NotConfirmed, CallFits
  <2>2. pass' \in Passes
    <3>1. /\ [pass EXCEPT !.pc = "upload", !.more = TRUE] \in Passes
          /\ [pass EXCEPT !.pc = "upload"] \in Passes
          /\ \A away2 \in SUBSET Endpoints : [pass EXCEPT !.pc = "upload", !.away = away2] \in Passes
      BY <1>0 DEF Passes
    <3>2. Away \in SUBSET Endpoints
      BY <1>0, <2>1 DEF Passes, Away
    <3>3. CASE Confirmed(works)
      BY <3>1, <3>3 DEF Confirmed
    <3>4. CASE NotConfirmed
      BY <3>1, <3>2, <3>4 DEF NotConfirmed
    <3> QED
      BY <1>4, <3>3, <3>4
  <2>3. hold' \in [Recs -> {"no", "retry", "rejected"}]
    BY <1>0, <1>4, <2>1 DEF Confirmed, NotConfirmed
  <2>4. /\ file' \in [Recs -> {"new", "open", "empty", "waiting", "synced", "gone", "dropped"}]
        /\ heard' \in [Recs -> {"nothing", "yes", "no"}] /\ due' \subseteq Recs
    BY <1>0, <1>4, <2>1 DEF Confirmed, NotConfirmed, folder
  <2> QED
    BY <1>4, <2>2, <2>3, <2>4 DEF Confirmed, NotConfirmed, PhoneTypeOK, folder, endpoints
<1>5. CASE EndRound \/ EndPass
  <2>1. pass' \in Passes
    <3>1. IdlePass \in Passes /\ Waiting \in SUBSET Recs /\ Synced \in SUBSET Recs
      BY DEF IdlePass, Passes, Waiting, Synced
    <3>2. \A todo2 \in SUBSET Recs : /\ [pass EXCEPT !.todo = todo2, !.more = FALSE] \in Passes
                                    /\ [pass EXCEPT !.pc = "recheck", !.todo = todo2] \in Passes
      BY <1>0 DEF Passes
    <3> QED
      BY <1>5, <3>1, <3>2 DEF EndRound, EndPass
  <2> QED
    BY <1>5, <2>1 DEF EndRound, EndPass, PhoneTypeOK, folder, timers, endpoints
<1>6. ASSUME NEW works \in BOOLEAN, StillHeld(works) \/ NotHeld(works) \/ NoWord PROVE PhoneTypeOK'
  <2>1. call.rec \in Recs /\ call.ep \in Endpoints
    BY <1>6, CallIs DEF StillHeld, NotHeld, NoWord, CallFits
  <2>2. pass' \in Passes
    BY ZenonT(30), <1>0, <1>6 DEF StillHeld, NotHeld, NoWord, Passes
  <2>3. /\ file' \in [Recs -> {"new", "open", "empty", "waiting", "synced", "gone", "dropped"}]
        /\ heard' \in [Recs -> {"nothing", "yes", "no"}] /\ mark' \subseteq Recs /\ verifying' \subseteq Recs
    BY <1>0, <1>6, <2>1 DEF StillHeld, NotHeld, NoWord, Requeue, Released, folder
  <2> QED
    BY <1>6, <2>2, <2>3 DEF StillHeld, NotHeld, NoWord, PhoneTypeOK, folder, timers, endpoints
<1> QED
  BY <1>1, <1>2, <1>3, <1>4, <1>5, <1>6 DEF AnyPass

(* Retention: what a sweep removes *)

NamesOf(entries) == {e.rec : e \in entries}
Unsynced(entries) == {e.rec : e \in {x \in entries : x.kind # "synced"}}

LEMMA SweepIs ==
  ASSUME NEW p \in Purgers, SweepFolder(p)
  PROVE  \E gone \in SUBSET purge[p].list :
           /\ \A e \in gone : Removable(e) /\ (e.rec \in expired \/ Early(e))
           /\ file' = [r \in Recs |-> IF r \in NamesOf(gone) THEN "gone" ELSE file[r]]
           /\ dest' = [r \in Recs |-> IF r \in NamesOf(gone) THEN "missing" ELSE dest[r]]
           /\ mark' = mark \ NamesOf(gone) /\ lost' = lost \cup Unsynced(gone)
           /\ purge' = [purge EXCEPT ![p] = [IdlePurge EXCEPT !.pc = "swept",
                                                              !.loss = Cardinality(Unsynced(gone))]]
           /\ purge[p].pc = "listed"
           /\ UNCHANGED <<timers, endpoints, counted, pass, call, verifying, home, heard>>
<1> DEFINE list == purge[p].list
           old == {e \in list : e.rec \in expired}
           early == {e \in list : Early(e)}
           Out(tried, stuck) == {e \in (old \cup tried) \ stuck : Removable(e)}
<1>1. PICK tried \in SUBSET early, stuck \in SUBSET list :
           /\ file' = [r \in Recs |-> IF r \in NamesOf(Out(tried, stuck)) THEN "gone" ELSE file[r]]
           /\ dest' = [r \in Recs |-> IF r \in NamesOf(Out(tried, stuck)) THEN "missing" ELSE dest[r]]
           /\ mark' = mark \ NamesOf(Out(tried, stuck)) /\ lost' = lost \cup Unsynced(Out(tried, stuck))
           /\ purge' = [purge EXCEPT ![p] = [IdlePurge EXCEPT !.pc = "swept",
                                          !.loss = Cardinality(Unsynced(Out(tried, stuck)))]]
  BY DEF SweepFolder, NamesOf, Unsynced
<1>2. purge[p].pc = "listed" /\ UNCHANGED <<timers, endpoints, counted, pass, call, verifying, home, heard>>
  BY DEF SweepFolder
<1>3. PICK gone : gone = Out(tried, stuck)
  OBVIOUS
<1>4. gone \in SUBSET list /\ \A e \in gone : Removable(e) /\ (e.rec \in expired \/ Early(e))
  BY <1>3
<1>5. /\ file' = [r \in Recs |-> IF r \in NamesOf(gone) THEN "gone" ELSE file[r]]
      /\ dest' = [r \in Recs |-> IF r \in NamesOf(gone) THEN "missing" ELSE dest[r]]
      /\ mark' = mark \ NamesOf(gone) /\ lost' = lost \cup Unsynced(gone)
      /\ purge' = [purge EXCEPT ![p] = [IdlePurge EXCEPT !.pc = "swept",
                                                         !.loss = Cardinality(Unsynced(gone))]]
  BY <1>1, <1>3
<1> HIDE DEF list, old, early, Out
<1> QED
  BY <1>2, <1>4, <1>5 DEF list

\* What a sweep loses had expired, and was there until now.
LEMMA UnsyncedIs ==
  ASSUME NEW entries \in SUBSET Entries, IsFiniteSet(expired),
         \A e \in entries : Removable(e) /\ (e.rec \in expired \/ Early(e))
  PROVE  /\ NamesOf(entries) \subseteq Recs /\ Unsynced(entries) \subseteq NamesOf(entries)
         /\ Unsynced(entries) \subseteq expired /\ IsFiniteSet(Unsynced(entries))
         /\ Cardinality(Unsynced(entries)) \in Nat
         /\ \A r \in NamesOf(entries) : file[r] \in {"empty", "waiting", "synced"} /\ r \notin verifying
         /\ \A r \in NamesOf(entries) \ expired : file[r] = "synced"
<1>1. \A e \in entries : e.rec \in Recs /\ e.kind \in {"empty", "waiting", "synced"}
  BY DEF Entries
<1>2. NamesOf(entries) \subseteq Recs /\ Unsynced(entries) \subseteq NamesOf(entries)
  BY <1>1 DEF NamesOf, Unsynced
<1>3. Unsynced(entries) \subseteq expired
  BY DEF Unsynced, Early
<1>4. IsFiniteSet(Unsynced(entries))
  BY <1>3, FS_Subset
<1>5. Cardinality(Unsynced(entries)) \in Nat
  BY <1>4, FS_CardinalityType
<1>6. \A r \in NamesOf(entries) : file[r] \in {"empty", "waiting", "synced"} /\ r \notin verifying
  BY <1>1 DEF NamesOf, Removable
<1>7. \A r \in NamesOf(entries) \ expired : file[r] = "synced"
  BY DEF NamesOf, Removable, Early
<1> QED
  BY <1>2, <1>3, <1>4, <1>5, <1>6, <1>7

LEMMA PurgeTypes ==
  ASSUME PhoneTypeOK, Losses, PurgeStep
  PROVE  PhoneTypeOK'
<1>0. /\ file \in [Recs -> {"new", "open", "empty", "waiting", "synced", "gone", "dropped"}]
      /\ dest \in [Recs -> Endpoints \cup {"local", "empty", "missing"}]
      /\ mark \subseteq Recs /\ counted \in Nat /\ lost \subseteq Recs
      /\ purge \in [Purgers -> Purges] /\ expired \subseteq Recs /\ IsFiniteSet(expired)
  BY DEF PhoneTypeOK, Purges, Losses
<1>1. IdlePurge \in Purges
  BY DEF IdlePurge, Purges
<1>2. ASSUME NEW p \in Purgers, ListFolder(p) PROVE PhoneTypeOK'
  <2>1. PICK found \in SUBSET Entries :
          found = {[rec |-> r, kind |-> file[r], checked |-> r \in mark] :
                     r \in {x \in Recs : file[x] \in {"empty", "waiting", "synced"}}}
    <3>1. \A r \in {x \in Recs : file[x] \in {"empty", "waiting", "synced"}} :
            [rec |-> r, kind |-> file[r], checked |-> r \in mark] \in Entries
      BY DEF Entries
    <3> QED
      BY <3>1
  <2>2. [IdlePurge EXCEPT !.pc = "listed", !.list = found] \in Purges
    BY DEF IdlePurge, Purges
  <2>3. purge' \in [Purgers -> Purges]
    BY <1>0, <1>2, <2>1, <2>2 DEF ListFolder
  <2> QED
    BY <1>2, <2>3 DEF ListFolder, PhoneTypeOK, Purges, folder, timers, endpoints
<1>3. ASSUME NEW p \in Purgers, SweepFolder(p) PROVE PhoneTypeOK'
  <2>1. PICK gone \in SUBSET purge[p].list :
           /\ \A e \in gone : Removable(e) /\ (e.rec \in expired \/ Early(e))
           /\ file' = [r \in Recs |-> IF r \in NamesOf(gone) THEN "gone" ELSE file[r]]
           /\ dest' = [r \in Recs |-> IF r \in NamesOf(gone) THEN "missing" ELSE dest[r]]
           /\ mark' = mark \ NamesOf(gone) /\ lost' = lost \cup Unsynced(gone)
           /\ purge' = [purge EXCEPT ![p] = [IdlePurge EXCEPT !.pc = "swept",
                                                              !.loss = Cardinality(Unsynced(gone))]]
           /\ UNCHANGED <<timers, endpoints, counted, pass, call, verifying, home, heard>>
    BY <1>3, SweepIs
  <2>2. gone \in SUBSET Entries
    BY <1>0 DEF Purges
  <2>3. /\ Unsynced(gone) \subseteq Recs /\ Cardinality(Unsynced(gone)) \in Nat
    BY <1>0, <2>1, <2>2, UnsyncedIs
  <2>4. \A n \in Nat : [IdlePurge EXCEPT !.pc = "swept", !.loss = n] \in Purges
    BY DEF IdlePurge, Purges
  <2>5. purge' \in [Purgers -> Purges]
    BY <1>0, <2>1, <2>3, <2>4
  <2>6. /\ file' \in [Recs -> {"new", "open", "empty", "waiting", "synced", "gone", "dropped"}]
        /\ dest' \in [Recs -> Endpoints \cup {"local", "empty", "missing"}]
        /\ mark' \subseteq Recs /\ lost' \subseteq Recs
    BY <1>0, <2>1, <2>3
  <2> QED
    BY <2>1, <2>5, <2>6 DEF PhoneTypeOK, Purges, timers, endpoints
<1>4. ASSUME NEW p \in Purgers, ReadCount(p) PROVE PhoneTypeOK'
  <2>1. [purge[p] EXCEPT !.pc = "note", !.seen = counted] \in Purges
    BY <1>0 DEF Purges
  <2>2. purge' \in [Purgers -> Purges]
    BY <1>0, <1>1, <1>4, <2>1 DEF ReadCount
  <2> QED
    BY <1>4, <2>2 DEF ReadCount, PhoneTypeOK, Purges, folder, timers, endpoints
<1>5. ASSUME NEW p \in Purgers, WriteCount(p) PROVE PhoneTypeOK'
  <2>1. counted' \in Nat
    BY <1>0, <1>5 DEF WriteCount, Total, Purges
  <2>2. purge' \in [Purgers -> Purges]
    BY <1>0, <1>1, <1>5 DEF WriteCount
  <2> QED
    BY <1>5, <2>1, <2>2 DEF WriteCount, PhoneTypeOK, Purges, folder, timers, endpoints
<1> QED
  BY <1>2, <1>3, <1>4, <1>5 DEF PurgeStep

LEMMA UserTypes ==
  ASSUME PhoneTypeOK, UserStep \/ ClockStep
  PROVE  PhoneTypeOK'
<1>0. /\ file \in [Recs -> {"new", "open", "empty", "waiting", "synced", "gone", "dropped"}]
      /\ dest \in [Recs -> Endpoints \cup {"local", "empty", "missing"}]
      /\ due \subseteq Recs /\ expired \subseteq Recs /\ hold \in [Recs -> {"no", "retry", "rejected"}]
      /\ known \subseteq Endpoints /\ default \in Endpoints \cup {None} /\ older \subseteq Recs
      /\ saved \in Endpoints \cup {None} /\ home \in [Recs -> Endpoints \cup {None, "local"}]
  BY DEF PhoneTypeOK
<1>1. ASSUME NEW e \in Endpoints, Register(e) PROVE PhoneTypeOK'
  <2>1. known' \subseteq Endpoints /\ default' \in Endpoints \cup {None} /\ older' \subseteq Recs
    BY <1>0, <1>1 DEF Register, AdoptedKnown, AdoptedDefault, OlderWhen
  <2>2. hold' \in [Recs -> {"no", "retry", "rejected"}] /\ home' \in [Recs -> Endpoints \cup {None, "local"}]
    BY <1>0, <1>1 DEF Register
  <2> QED
    BY <1>1, <2>1, <2>2 DEF Register, PhoneTypeOK, folder
<1>2. ASSUME NEW r \in Recs, NEW w \in Endpoints \cup {"local"}, Capture(r, w) PROVE PhoneTypeOK'
  <2>1. /\ file' \in [Recs -> {"new", "open", "empty", "waiting", "synced", "gone", "dropped"}]
        /\ dest' \in [Recs -> Endpoints \cup {"local", "empty", "missing"}]
        /\ home' \in [Recs -> Endpoints \cup {None, "local"}]
    BY <1>0, <1>2 DEF Capture
  <2> QED
    BY <1>2, <2>1 DEF Capture, PhoneTypeOK, timers, endpoints
<1>3. ASSUME NEW r \in Recs, Close(r) \/ LoseDest(r) PROVE PhoneTypeOK'
  <2>1. /\ file' \in [Recs -> {"new", "open", "empty", "waiting", "synced", "gone", "dropped"}]
        /\ dest' \in [Recs -> Endpoints \cup {"local", "empty", "missing"}]
    BY <1>0, <1>3 DEF Close, LoseDest
  <2> QED
    BY <1>3, <2>1 DEF Close, LoseDest, PhoneTypeOK, timers, endpoints
<1>4. ASSUME NEW r \in Recs, Week(r) \/ HoldOver(r) \/ Expire(r) PROVE PhoneTypeOK'
  <2>1. due' \subseteq Recs /\ expired' \subseteq Recs /\ hold' \in [Recs -> {"no", "retry", "rejected"}]
    BY <1>0, <1>4 DEF Week, HoldOver, Expire
  <2> QED
    BY <1>4, <2>1 DEF Week, HoldOver, Expire, PhoneTypeOK, folder, endpoints
<1> QED
  BY <1>1, <1>2, <1>3, <1>4 DEF UserStep, ClockStep

LEMMA KillTypes ==
  ASSUME PhoneTypeOK, KillApp
  PROVE  /\ PhoneTypeOK'
         /\ \A r \in Recs : IF file[r] = "open" THEN file'[r] \in {"empty", "waiting"} ELSE file'[r] = file[r]
         /\ \A r \in Recs : dest'[r] \in {dest[r], "empty"}
<1>0. /\ file \in [Recs -> {"new", "open", "empty", "waiting", "synced", "gone", "dropped"}]
      /\ dest \in [Recs -> Endpoints \cup {"local", "empty", "missing"}] /\ pass \in Passes
  BY DEF PhoneTypeOK
<1>1. PICK shut \in [{r \in Recs : file[r] = "open"} -> {"empty", "waiting"}] :
        file' = [r \in Recs |-> IF file[r] = "open" THEN shut[r] ELSE file[r]]
  BY DEF KillApp
<1>2. /\ file' \in [Recs -> {"new", "open", "empty", "waiting", "synced", "gone", "dropped"}]
      /\ \A r \in Recs : IF file[r] = "open" THEN file'[r] \in {"empty", "waiting"} ELSE file'[r] = file[r]
  BY <1>0, <1>1
<1>3. /\ dest' \in [Recs -> Endpoints \cup {"local", "empty", "missing"}]
      /\ \A r \in Recs : dest'[r] \in {dest[r], "empty"}
  BY <1>0 DEF KillApp, Passes
<1>4. IdlePass \in Passes /\ IdlePurge \in Purges
  BY DEF IdlePass, Passes, IdlePurge, Purges
<1>5. purge' \in [Purgers -> Purges]
  BY <1>4 DEF KillApp
<1> QED
  BY <1>2, <1>3, <1>4, <1>5 DEF KillApp, PhoneTypeOK, Purges, timers, endpoints

\* The environment's part of a call: it stays a call of the same kind, for the same recording.
LEMMA ReplyIs ==
  ASSUME PhoneTypeOK, NEW word \in {"stored", "refused", "busy", "yes", "no", "error"},
         call # NoCall, Reply(word)
  PROVE  /\ call \in Calls /\ call' \in Calls /\ call'.kind = call.kind /\ call'.ep = call.ep
         /\ call'.rec = call.rec /\ call'.reply = word /\ call' # NoCall
         /\ call.ep \in Endpoints /\ call.rec \in Recs
<1>1. call \in Calls
  BY DEF PhoneTypeOK
<1>2. PICK c \in Calls : c = call
  BY <1>1
<1>3. [c EXCEPT !.reply = word] \in Calls
  BY CallIs
<1>4. call' = [c EXCEPT !.reply = word]
  BY <1>2 DEF Reply
<1>5. call'.kind = c.kind /\ call'.ep = c.ep /\ call'.rec = c.rec /\ call'.reply = word
  BY <1>4 DEF Calls
<1>6. call' # NoCall
  BY <1>3, <1>4, Apart
<1> QED
  BY <1>1, <1>2, <1>3, <1>4, <1>5, <1>6, CallIs

LEMMA PendingIs ==
  ASSUME NEW kind \in {"upload", "have"}, Pending(kind)
  PROVE  call # NoCall
BY DEF Pending, NoCall

\* What the edges and the network do to the phone: the reply of its call, at most.
Answers ==
  /\ UNCHANGED phoneRest
  /\ \/ UNCHANGED call
     \/ \E word \in {"stored", "refused", "busy", "yes", "no", "error"} : call # NoCall /\ Reply(word)

EdgeStep == EdgeStores \/ EdgeDeclines \/ EdgeAnswersHave \/ CallBreaks \/ EdgeHurt
            \/ \E e \in Endpoints, r \in Recs : EdgeStoresLate(e, r)

LEMMA EdgesAnswer == ASSUME EdgeStep PROVE Answers
<1>1. CASE EdgeStores \/ EdgeDeclines \/ EdgeAnswersHave
  <2>1. call # NoCall
    BY <1>1, PendingIs DEF EdgeStores, EdgeDeclines, EdgeAnswersHave
  <2> QED
    BY <1>1, <2>1 DEF EdgeStores, EdgeDeclines, EdgeAnswersHave, Answers
<1>2. CASE CallBreaks
  BY <1>2 DEF CallBreaks, Answers
<1>3. CASE EdgeHurt
  BY <1>3 DEF EdgeHurt, Answers, phoneVars, phoneRest
<1>4. ASSUME NEW e \in Endpoints, NEW r \in Recs, EdgeStoresLate(e, r) PROVE Answers
  BY <1>4 DEF EdgeStoresLate, Answers, phoneVars, phoneRest
<1> QED
  BY <1>1, <1>2, <1>3, <1>4 DEF EdgeStep

LEMMA AnswerTypes ==
  ASSUME PhoneTypeOK, CallFits, Answers
  PROVE  PhoneTypeOK' /\ CallFits'
<1>1. CASE UNCHANGED call
  BY <1>1 DEF Answers, phoneRest, PhoneTypeOK, CallFits
<1>2. ASSUME NEW word \in {"stored", "refused", "busy", "yes", "no", "error"}, call # NoCall, Reply(word)
      PROVE  PhoneTypeOK' /\ CallFits'
  <2>1. /\ call' \in Calls /\ call'.kind = call.kind /\ call'.rec = call.rec
    BY <1>2, ReplyIs
  <2>2. PhoneTypeOK'
    BY <2>1 DEF Answers, phoneRest, PhoneTypeOK
  <2>3. CallFits'
    BY <1>2, <2>1 DEF Answers, phoneRest, CallFits
  <2> QED
    BY <2>2, <2>3
<1> QED
  BY <1>1, <1>2 DEF Answers

(* What a step of the phone does to its folder, its call and its endpoints *)

\* A choice of endpoints, a new recording, or neither.
Choosing == StartPass \/ \E e \in Endpoints : Register(e)
Beginning == \E r \in Recs, w \in Endpoints \cup {"local"} : Capture(r, w)

Effects ==
  /\ \A r \in Recs : dest'[r] \in Endpoints =>
       dest'[r] \in {dest[r], Route(r)} \/ (file[r] = "new" /\ dest'[r] = home'[r])
  /\ \/ call' \in {NoCall, call}
     \/ \E r \in Recs : Route(r) # None /\ call' # NoCall /\ call'.ep = Route(r) /\ call'.rec = r
                        /\ call'.reply = "none"
  /\ \A r \in Recs : file'[r] = "new" => file[r] = "new"
  /\ \A r \in Recs : file'[r] \in {"synced", "gone"} /\ r \notin expired =>
       \/ file[r] \in {"synced", file'[r]}
       \/ call # NoCall /\ call.rec = r /\ call.reply = "stored"
  /\ \/ home' = home /\ UNCHANGED endpoints /\ (\A r \in Recs : file[r] = "new" => file'[r] = "new")
     \/ Choosing \/ Beginning
  /\ expired \subseteq expired'

\* Most steps leave these alone.
LEMMA NoEffect ==
  ASSUME UNCHANGED <<file, dest, call, home, endpoints>>, expired \subseteq expired'
  PROVE  Effects
BY DEF Effects

LEMMA PassEffects ==
  ASSUME PhoneTypeOK, CallFits, AnyPass
  PROVE  Effects
<1>0. /\ file \in [Recs -> {"new", "open", "empty", "waiting", "synced", "gone", "dropped"}]
      /\ dest \in [Recs -> Endpoints \cup {"local", "empty", "missing"}]
  BY DEF PhoneTypeOK
<1>1. CASE StartPass
  BY <1>1 DEF StartPass, Effects, Choosing, folder, timers
<1>2. ASSUME NEW r \in Recs, NEW works \in BOOLEAN, DropEmpty(r, works) PROVE Effects
  <2>1. \A x \in Recs : dest'[x] \in {dest[x], "missing"} /\ file'[x] \in {file[x], "dropped"}
                        /\ (file[x] = "new" => file'[x] = "new")
    BY <1>0, <1>2 DEF DropEmpty, folder
  <2>2. "missing" \notin Endpoints
    BY PhoneAssumption
  <2> QED
    BY <1>0, <1>2, <2>1, <2>2 DEF DropEmpty, Effects, timers, endpoints
<1>3. ASSUME NEW r \in Recs, Skip(r) \/ SkipRecheck(r) PROVE Effects
  <2>1. \A x \in Recs : dest'[x] \in {dest[x], Route(x)}
    BY <1>0, <1>3 DEF Skip, SkipRecheck, Bound
  <2> QED
    BY <1>3, <2>1 DEF Skip, SkipRecheck, Effects, timers, endpoints
<1>4. ASSUME NEW r \in Recs, Send(r) \/ Recheck(r) PROVE Effects
  <2>1. \A x \in Recs : dest'[x] \in {dest[x], Route(x)}
    BY <1>0, <1>4 DEF Send, Recheck, Bound
  <2>2. Route(r) # None /\ Route(r) \in Endpoints
    BY <1>4, RouteIs DEF Send, Recheck, Uploadable
  <2>3. call' \in Calls /\ call'.ep = Route(r) /\ call'.rec = r /\ call'.reply = "none"
    BY <1>4, <2>2 DEF Send, Recheck, Calls
  <2> QED
    BY <1>4, <2>1, <2>2, <2>3, Apart DEF Send, Recheck, Effects, timers, endpoints
<1>5. ASSUME NEW works \in BOOLEAN, Confirmed(works) PROVE Effects
  <2>1. call \in Calls /\ call # NoCall /\ call.reply = "stored"
    BY <1>5, Apart DEF Confirmed, CallFits, Proven
  <2>2. \A x \in Recs : x # call.rec => file'[x] = file[x]
    BY <1>0, <1>5 DEF Confirmed
  <2>3. call.rec \in Recs => \/ file'[call.rec] = file[call.rec]
                             \/ file[call.rec] = "waiting" /\ file'[call.rec] = "synced"
    BY <1>0, <1>5 DEF Confirmed, StillThere
  <2> QED
    BY <1>5, <2>1, <2>2, <2>3 DEF Confirmed, Effects, endpoints
<1>6. CASE NotConfirmed \/ NoWord
  BY <1>6 DEF NotConfirmed, NoWord, Effects, folder, endpoints, timers
<1>7. CASE EndRound \/ EndPass
  BY <1>7 DEF EndRound, EndPass, Effects, folder, endpoints, timers
<1>8. ASSUME NEW works \in BOOLEAN, StillHeld(works) PROVE Effects
  BY <1>8 DEF StillHeld, Effects, timers, endpoints
<1>9. ASSUME NEW works \in BOOLEAN, NotHeld(works) PROVE Effects
  <2>1. \A x \in Recs : file'[x] = file[x] \/ (file[x] = "synced" /\ file'[x] = "waiting")
    BY <1>0, <1>9 DEF NotHeld, Requeue
  <2> QED
    BY <1>9, <2>1 DEF NotHeld, Effects, timers, endpoints
<1> QED
  BY <1>1, <1>2, <1>3, <1>4, <1>5, <1>6, <1>7, <1>8, <1>9 DEF AnyPass

LEMMA PurgeEffects ==
  ASSUME PhoneTypeOK, Losses, PurgeStep
  PROVE  Effects
<1>1. ASSUME NEW p \in Purgers, ListFolder(p) \/ ReadCount(p) \/ WriteCount(p) PROVE Effects
  BY <1>1, NoEffect DEF ListFolder, ReadCount, WriteCount, folder, timers
<1>2. ASSUME NEW p \in Purgers, SweepFolder(p) PROVE Effects
  <2>1. PICK gone \in SUBSET purge[p].list :
           /\ \A e \in gone : Removable(e) /\ (e.rec \in expired \/ Early(e))
           /\ file' = [r \in Recs |-> IF r \in NamesOf(gone) THEN "gone" ELSE file[r]]
           /\ dest' = [r \in Recs |-> IF r \in NamesOf(gone) THEN "missing" ELSE dest[r]]
           /\ UNCHANGED <<timers, endpoints, counted, pass, call, verifying, home, heard>>
    BY <1>2, SweepIs
  <2>2. gone \in SUBSET Entries /\ IsFiniteSet(expired)
    BY DEF PhoneTypeOK, Losses
  <2>3. /\ \A r \in NamesOf(gone) : file[r] \in {"empty", "waiting", "synced"}
        /\ \A r \in NamesOf(gone) \ expired : file[r] = "synced"
    BY <2>1, <2>2, UnsyncedIs
  <2>4. "missing" \notin Endpoints
    BY PhoneAssumption
  <2> QED
    BY <2>1, <2>3, <2>4 DEF Effects, timers
<1> QED
  BY <1>1, <1>2 DEF PurgeStep

LEMMA UserEffects ==
  ASSUME PhoneTypeOK, UserStep \/ ClockStep
  PROVE  Effects
<1>0. /\ file \in [Recs -> {"new", "open", "empty", "waiting", "synced", "gone", "dropped"}]
      /\ dest \in [Recs -> Endpoints \cup {"local", "empty", "missing"}]
      /\ home \in [Recs -> Endpoints \cup {None, "local"}]
      /\ "missing" \notin Endpoints /\ "local" \notin Endpoints
  BY PhoneAssumption DEF PhoneTypeOK
<1>1. ASSUME NEW e \in Endpoints, Register(e) PROVE Effects
  BY <1>1 DEF Register, Effects, Choosing, folder
<1>2. ASSUME NEW r \in Recs, NEW w \in Endpoints \cup {"local"}, Capture(r, w) PROVE Effects
  <2>1. /\ file[r] = "new" /\ file'[r] = "open" /\ dest'[r] = home'[r]
        /\ \A x \in Recs : x # r => file'[x] = file[x] /\ dest'[x] = dest[x]
    BY <1>0, <1>2 DEF Capture
  <2> QED
    BY <1>2, <2>1 DEF Capture, Effects, Beginning, timers, endpoints
<1>3. ASSUME NEW r \in Recs, Close(r) \/ LoseDest(r) PROVE Effects
  <2>1. /\ \A x \in Recs : dest'[x] \in {dest[x], "missing"}
        /\ \A x \in Recs : file'[x] = file[x] \/ (file[x] = "open" /\ file'[x] = "waiting")
    BY <1>0, <1>3 DEF Close, LoseDest
  <2> QED
    BY <1>0, <1>3, <2>1 DEF Close, LoseDest, Effects, timers, endpoints
<1>4. ASSUME NEW r \in Recs, Week(r) \/ HoldOver(r) \/ Expire(r) PROVE Effects
  BY <1>4, NoEffect DEF Week, HoldOver, Expire, folder
<1> QED
  BY <1>1, <1>2, <1>3, <1>4 DEF UserStep, ClockStep

LEMMA KillEffects ==
  ASSUME PhoneTypeOK, KillApp
  PROVE  Effects
<1>1. /\ \A r \in Recs : IF file[r] = "open" THEN file'[r] \in {"empty", "waiting"} ELSE file'[r] = file[r]
      /\ \A r \in Recs : dest'[r] \in {dest[r], "empty"}
  BY KillTypes
<1>2. "empty" \notin Endpoints
  BY PhoneAssumption
<1> QED
  BY <1>1, <1>2 DEF KillApp, Effects, timers, endpoints

(* Where recordings go *)

\* What is at home, or has strayed, does so for good.
HomesStay ==
  /\ Strays \subseteq Strays'
  /\ \A e \in Endpoints, r \in Recs : AtHome(e, r) => AtHome(e, r)'

LEMMA ChosenStays ==
  ASSUME PhoneTypeOK, Chosen, Effects
  PROVE  Chosen' /\ HomesStay
<1>0. /\ home \in [Recs -> Endpoints \cup {None, "local"}] /\ file \in [Recs -> {"new", "open", "empty",
           "waiting", "synced", "gone", "dropped"}]
      /\ older \subseteq Recs /\ default \in Endpoints \cup {None} /\ saved \in Endpoints \cup {None}
      /\ None \notin Endpoints /\ Legacy \subseteq Recs /\ "local" \notin Endpoints
  BY PhoneAssumption DEF PhoneTypeOK
<1>1. CASE home' = home /\ UNCHANGED endpoints /\ \A r \in Recs : file[r] = "new" => file'[r] = "new"
  <2>1. Chosen'
    BY <1>0, <1>1 DEF Chosen, endpoints, Effects
  <2>2. HomesStay
    BY <1>1 DEF HomesStay, AtHome, Strays, endpoints
  <2> QED
    BY <2>1, <2>2
<1>2. ASSUME StartPass \/ \E e \in Endpoints : Register(e)
      PROVE  Chosen' /\ HomesStay
  <2>1. /\ UNCHANGED file /\ saved' = None /\ older' = OlderWhen(default')
        /\ default' \in Endpoints \cup {None}
        /\ default' = IF AdoptedDefault # None THEN AdoptedDefault ELSE default'
        /\ default' = None => known' = AdoptedKnown
    BY <1>0, <1>2 DEF StartPass, Register, folder, AdoptedDefault
  <2>2. CASE default # None
    <3>1. default' = default /\ older' = older
      BY <1>0, <2>1, <2>2 DEF AdoptedDefault, OlderWhen
    <3>2. \A r \in Recs : home'[r] = home[r]
      <4>1. \A r \in Legacy : home[r] # None
        BY <2>2 DEF Chosen
      <4> QED
        BY <1>0, <1>2, <4>1 DEF StartPass, Register
    <3>3. Chosen'
      BY <1>0, <2>1, <2>2, <3>1, <3>2 DEF Chosen
    <3>4. HomesStay
      <4>1. Strays' = Strays
        BY <1>0, <3>1, <3>2 DEF Strays
      <4> QED
        BY <3>2, <4>1 DEF HomesStay, AtHome
    <3> QED
      BY <3>3, <3>4
  <2>3. CASE default = None
    <3>0. /\ known = {} /\ older = {}
          /\ \A r \in Recs : IF r \in Legacy THEN home[r] = saved ELSE file[r] = "new" \/ home[r] = "local"
      BY <2>3 DEF Chosen
    <3>1. CASE default' = None
      <4>1. saved = None /\ known' = {} /\ older' = {}
        BY <1>0, <2>1, <2>3, <3>0, <3>1 DEF AdoptedDefault, AdoptedKnown, OlderWhen
      <4>2. home' = home
        BY <1>0, <1>2, <3>1 DEF StartPass, Register, AdoptedDefault
      <4>3. Chosen'
        BY <2>1, <2>3, <3>0, <3>1, <4>1, <4>2 DEF Chosen
      <4> QED
        BY <3>0, <4>1, <4>2, <4>3 DEF HomesStay, AtHome, Strays
    <3>2. CASE default' # None
      <4>1. \A r \in Recs : /\ r \notin Legacy => home'[r] = home[r]
                            /\ r \in Legacy => home'[r] = default' /\ home[r] \in {default', None}
        <5>1. saved # None => default' = saved
          BY <2>1, <2>3 DEF AdoptedDefault
        <5>2. CASE StartPass
          BY <1>0, <2>3, <3>0, <3>2, <5>1, <5>2 DEF StartPass, AdoptedDefault
        <5>3. ASSUME NEW e \in Endpoints, Register(e)
              PROVE  \A r \in Recs : /\ r \notin Legacy => home'[r] = home[r]
                                     /\ r \in Legacy => home'[r] = default' /\ home[r] \in {default', None}
          <6>1. saved = None => default' = e
            BY <2>3, <5>3 DEF Register, AdoptedDefault
          <6> QED
            BY <1>0, <3>0, <5>1, <5>3, <6>1 DEF Register
        <5> QED
          BY <1>2, <5>2, <5>3
      <4>2. older' = {r \in Recs : file[r] # "new"}
        BY <2>1, <2>3, <3>2 DEF OlderWhen
      <4>3. \A r \in Recs : file[r] = "new" => home[r] = None /\ r \notin Legacy
        BY DEF Chosen
      <4>4. Chosen'
        BY <1>0, <2>1, <3>0, <3>2, <4>1, <4>2, <4>3 DEF Chosen
      <4>5. HomesStay
        BY <1>0, <3>0, <4>1 DEF HomesStay, AtHome, Strays
      <4> QED
        BY <4>4, <4>5
    <3> QED
      BY <3>1, <3>2
  <2> QED
    BY <2>2, <2>3
<1>3. ASSUME NEW r \in Recs, NEW w \in Endpoints \cup {"local"}, Capture(r, w)
      PROVE  Chosen' /\ HomesStay
  <2>1. /\ file[r] = "new" /\ w \in known \cup {"local"} /\ UNCHANGED endpoints
        /\ file'[r] = "open" /\ home'[r] = w
        /\ \A x \in Recs : x # r => file'[x] = file[x] /\ home'[x] = home[x]
    BY <1>0, <1>3 DEF Capture
  <2>2. home[r] = None /\ r \notin Legacy /\ r \notin older
    BY <2>1 DEF Chosen
  <2>3. default = None => w = "local"
    BY <2>1 DEF Chosen
  <2>4. Chosen'
    BY <1>0, <2>1, <2>2, <2>3 DEF Chosen, endpoints
  <2>5. HomesStay
    BY <1>0, <2>1, <2>2 DEF HomesStay, AtHome, Strays, endpoints
  <2> QED
    BY <2>4, <2>5
<1> QED
  BY <1>1, <1>2, <1>3 DEF Effects, Choosing, Beginning

LEMMA RouteHome ==
  ASSUME PhoneTypeOK, Chosen, Homeward, NEW r \in Recs, Route(r) # None
  PROVE  Route(r) \in Endpoints /\ AtHome(Route(r), r)
<1>1. Route(r) \in Endpoints
  BY RouteIs
<1>2. CASE dest[r] \in known
  BY <1>2 DEF PhoneTypeOK, Homeward, Route
<1>3. CASE dest[r] \notin known
  <2>1. r \in older /\ Route(r) = default /\ default # None
    BY <1>3 DEF Route
  <2>2. home[r] \in {default, "local"}
    BY <2>1 DEF Chosen
  <2>3. home[r] = "local" => r \in Strays
    BY <2>1 DEF Strays
  <2>4. home[r] = default \/ r \in Strays
    BY <2>2, <2>3
  <2> QED
    BY <1>1, <2>1, <2>4 DEF AtHome
<1> QED
  BY <1>1, <1>2, <1>3

\* A step of the phone sends nothing astray.
LEMMA PhoneHomeward ==
  ASSUME PhoneTypeOK, Chosen, Homeward, Effects, late' \subseteq late \cup Abandoned, held' = held
  PROVE  Homeward'
<1>1. \A e \in Endpoints, r \in Recs : AtHome(e, r) => AtHome(e, r)'
  BY ChosenStays DEF HomesStay
<1>2. \A r \in Recs : Route(r) # None => Route(r) \in Endpoints /\ AtHome(Route(r), r)
  BY RouteHome
<1>3. ASSUME NEW r \in Recs, dest'[r] \in Endpoints PROVE AtHome(dest[r], r)'
  <2>1. CASE dest'[r] = dest[r]
    BY <1>1, <1>3, <2>1 DEF Homeward, AtHome
  <2>2. CASE dest'[r] = Route(r)
    BY <1>1, <1>2, <1>3, <2>2, Apart DEF AtHome
  <2>3. CASE dest'[r] = home'[r]
    BY <2>3 DEF AtHome
  <2> QED
    BY <1>3, <2>1, <2>2, <2>3 DEF Effects
<1>4. ASSUME call # NoCall PROVE call.ep \in Endpoints /\ call.rec \in Recs /\ AtHome(call.ep, call.rec)
  BY <1>4, CallIs DEF PhoneTypeOK, Homeward
<1>5. ASSUME call' # NoCall PROVE AtHome(call.ep, call.rec)'
  <2>1. CASE call' = call
    BY <1>1, <1>4, <1>5, <2>1 DEF AtHome
  <2>2. ASSUME NEW r \in Recs, Route(r) # None, call'.ep = Route(r), call'.rec = r PROVE AtHome(call.ep, call.rec)'
    BY <1>1, <1>2, <2>2 DEF AtHome
  <2> QED
    BY <1>5, <2>1, <2>2 DEF Effects
<1>6. ASSUME NEW e \in Endpoints, NEW r \in Recs, held[<<e, r>>] # None \/ <<e, r>> \in late' PROVE AtHome(e, r)'
  <2>1. CASE held[<<e, r>>] # None \/ <<e, r>> \in late
    BY <1>1, <2>1 DEF Homeward, SentHome, AtHome
  <2>2. CASE <<e, r>> \in Abandoned
    <3>1. call # NoCall /\ e = call.ep /\ r = call.rec
      BY <2>2 DEF Abandoned, NoCall
    <3> QED
      BY <1>1, <1>4, <3>1
  <2> QED
    BY <1>6, <2>1, <2>2
<1> QED
  BY <1>3, <1>5, <1>6 DEF Homeward, SentHome, AtHome

\* An edge holds, or may still store, only what the phone sent it.
LEMMA EdgeHomeward ==
  ASSUME TypeOK, CallFits, Chosen, Homeward, EdgeStep
  PROVE  Chosen' /\ Homeward'
<1>0. PhoneTypeOK /\ Answers /\ held \in [Places -> Recs \cup {None, Rot}]
  BY EdgesAnswer DEF TypeOK
<1>1. /\ UNCHANGED <<file, dest, known, default, older, saved, home>>
      /\ call' = call \/ (call # NoCall /\ call' # NoCall /\ call'.ep = call.ep /\ call'.rec = call.rec)
  BY <1>0, ReplyIs DEF Answers, phoneRest
<1>2. Chosen'
  BY <1>1 DEF Chosen
<1>3. \A e, r : AtHome(e, r)' = AtHome(e, r)
  BY <1>1 DEF AtHome, Strays
<1>4. call # NoCall => AtHome(call.ep, call.rec) /\ call.ep \in Endpoints /\ call.rec \in Recs
  BY <1>0, CallIs DEF Homeward, PhoneTypeOK
<1>5. ASSUME NEW e \in Endpoints, NEW r \in Recs, held'[<<e, r>>] # None \/ <<e, r>> \in late'
      PROVE  AtHome(e, r)
  <2>1. CASE held[<<e, r>>] # None \/ <<e, r>> \in late
    BY <2>1 DEF Homeward, SentHome, AtHome
  <2>2. CASE call # NoCall /\ <<e, r>> = <<call.ep, call.rec>>
    BY <1>4, <2>2
  <2>3. /\ EdgeStores => call # NoCall
        /\ EdgeStores => \A at \in Places : at # <<call.ep, call.rec>> => held'[at] = held[at]
    BY <1>0, PendingIs DEF EdgeStores, Kept
  <2>4. CASE EdgeStores
    BY <1>5, <2>1, <2>2, <2>3, <2>4 DEF EdgeStores, Places
  <2>5. CASE EdgeDeclines \/ EdgeAnswersHave
    BY <1>5, <2>1, <2>5 DEF EdgeDeclines, EdgeAnswersHave, edgeVars
  <2>6. CASE CallBreaks
    BY <1>5, <2>1, <2>2, <2>6 DEF CallBreaks, Abandoned, edgeVars
  <2>7. ASSUME NEW f \in Endpoints, NEW x \in Recs, EdgeStoresLate(f, x) PROVE AtHome(e, r)
    <3>1. /\ <<f, x>> \in late /\ late' \subseteq late
          /\ \A at \in Places : at # <<f, x>> => held'[at] = held[at]
      BY <1>0, <2>7 DEF EdgeStoresLate, Kept
    <3>2. <<e, r>> \in Places
      BY DEF Places
    <3> QED
      BY <1>5, <2>1, <3>1, <3>2
  <2>8. CASE EdgeHurt
    <3>1. PICK f \in Endpoints, x \in Recs : Decay(f, x) \/ TakeAway(f, x) \/ Unkept(f, x)
      BY <2>8 DEF EdgeHurt
    <3>2. \A at \in Places : held'[at] # None => held[at] # None
      BY <1>0, <3>1, Apart DEF Decay, TakeAway, Unkept
    <3> QED
      BY <1>5, <2>1, <2>8, <3>2 DEF EdgeHurt, Places
  <2> QED
    BY <2>4, <2>5, <2>6, <2>7, <2>8 DEF EdgeStep
<1>6. SentHome'
  BY <1>3, <1>5 DEF SentHome, AtHome
<1>7. \A r \in Recs : dest'[r] \in Endpoints => AtHome(dest[r], r)'
  BY <1>1, <1>3 DEF Homeward
<1>8. call' # NoCall => AtHome(call.ep, call.rec)'
  BY <1>1, <1>4 DEF AtHome, Strays
<1> QED
  BY <1>2, <1>6, <1>7, <1>8 DEF Homeward

(* Losses *)

LEMMA LossesStay ==
  ASSUME PhoneTypeOK, Losses, AnyPass \/ PurgeStep \/ UserStep \/ ClockStep \/ KillApp
  PROVE  Losses'
<1>0. /\ file \in [Recs -> {"new", "open", "empty", "waiting", "synced", "gone", "dropped"}]
      /\ lost \subseteq Recs /\ expired \subseteq Recs /\ purge \in [Purgers -> Purges]
  BY DEF PhoneTypeOK, Purges
<1>1. CASE AnyPass
  <2>1. UNCHANGED <<expired, lost>>
    BY <1>1 DEF AnyPass, StartPass, DropEmpty, Skip, Send, SkipRecheck, Recheck, Confirmed, NotConfirmed,
                EndRound, StillHeld, NotHeld, NoWord, EndPass, timers
  <2>2. \A r \in Recs : file[r] = "gone" => file'[r] = "gone"
    BY <1>0, <1>1 DEF AnyPass, StartPass, DropEmpty, Skip, Send, SkipRecheck, Recheck, Confirmed,
                      NotConfirmed, EndRound, StillHeld, NotHeld, Requeue, NoWord, EndPass, folder, StillThere
  <2> QED
    BY <1>0, <2>1, <2>2 DEF Losses
<1>2. ASSUME NEW p \in Purgers, SweepFolder(p) PROVE Losses'
  <2>1. PICK gone \in SUBSET purge[p].list :
           /\ \A e \in gone : Removable(e) /\ (e.rec \in expired \/ Early(e))
           /\ file' = [r \in Recs |-> IF r \in NamesOf(gone) THEN "gone" ELSE file[r]]
           /\ lost' = lost \cup Unsynced(gone)
           /\ UNCHANGED <<timers, endpoints, counted, pass, call, verifying, home, heard>>
    BY <1>2, SweepIs
  <2>2. gone \in SUBSET Entries /\ IsFiniteSet(expired)
    BY <1>0 DEF Purges, Losses
  <2>3. /\ Unsynced(gone) \subseteq NamesOf(gone) /\ NamesOf(gone) \subseteq Recs
        /\ Unsynced(gone) \subseteq expired
    BY <2>1, <2>2, UnsyncedIs
  <2> QED
    BY <1>0, <2>1, <2>3 DEF Losses, timers
<1>3. ASSUME NEW p \in Purgers, ListFolder(p) \/ ReadCount(p) \/ WriteCount(p) PROVE Losses'
  BY <1>3 DEF ListFolder, ReadCount, WriteCount, Losses, folder, timers
<1>4. CASE UserStep
  <2>1. UNCHANGED <<expired, lost>>
    BY <1>4 DEF UserStep, Register, Capture, Close, LoseDest, timers
  <2>2. \A r \in Recs : file[r] = "gone" => file'[r] = "gone"
    BY <1>0, <1>4 DEF UserStep, Register, Capture, Close, LoseDest, folder
  <2> QED
    BY <1>0, <2>1, <2>2 DEF Losses
<1>5. ASSUME NEW r \in Recs, Week(r) \/ HoldOver(r) PROVE Losses'
  BY <1>5 DEF Week, HoldOver, Losses, folder
<1>6. ASSUME NEW r \in Recs, Expire(r) PROVE Losses'
  <2>1. IsFiniteSet(expired \cup {r})
    BY FS_AddElement DEF Losses
  <2> QED
    BY <1>6, <2>1 DEF Expire, Losses, folder
<1>7. CASE KillApp
  <2>1. \A r \in Recs : file[r] = "gone" => file'[r] = "gone"
    BY <1>7, KillTypes
  <2> QED
    BY <1>0, <1>7, <2>1 DEF KillApp, Losses, timers
<1> QED
  BY <1>1, <1>2, <1>3, <1>4, <1>5, <1>6, <1>7 DEF PurgeStep, ClockStep

(* What the edges hold *)

LEMMA EdgeTypes ==
  ASSUME TypeOK, CallFits, EdgeStep
  PROVE  TypeOK'
<1>0. /\ PhoneTypeOK /\ Answers /\ held \in [Places -> Recs \cup {None, Rot}]
      /\ promise \in [Places -> Recs \cup {None}] /\ spoiled \in [Places -> BOOLEAN]
      /\ late \subseteq Places /\ hurt \subseteq Places
      /\ losses \in 0 .. MaxLosses /\ damages \in 0 .. MaxDamage /\ kills \in 0 .. MaxKills
      /\ faults \in 0 .. MaxFaults /\ disowned \subseteq Recs
      /\ MaxLosses \in Nat /\ MaxDamage \in Nat
  BY EdgesAnswer, MirrorAssumption DEF TypeOK
<1>1. PhoneTypeOK' /\ disowned' = disowned
  <2>1. disowned' = disowned
    BY DEF EdgeStep, EdgeStores, EdgeDeclines, EdgeAnswersHave, CallBreaks, EdgeHurt, EdgeStoresLate, phoneRest
  <2> QED
    BY <1>0, <2>1, AnswerTypes
<1>2. call # NoCall => call.rec \in Recs /\ <<call.ep, call.rec>> \in Places
  BY <1>0, CallIs DEF PhoneTypeOK, Places
<1>3. CASE EdgeStores
  <2>1. call # NoCall
    BY <1>3, PendingIs DEF EdgeStores
  <2>2. /\ held' \in [Places -> Recs \cup {None, Rot}] /\ promise' \in [Places -> Recs \cup {None}]
        /\ spoiled' \in [Places -> BOOLEAN] /\ hurt' \subseteq Places
    BY <1>0, <1>2, <1>3, <2>1 DEF EdgeStores, Kept
  <2> QED
    BY <1>0, <1>1, <1>3, <2>2 DEF EdgeStores, TypeOK, bounds
<1>4. CASE EdgeDeclines \/ EdgeAnswersHave
  BY <1>0, <1>1, <1>4 DEF EdgeDeclines, EdgeAnswersHave, TypeOK, bounds, edgeVars
<1>5. CASE CallBreaks
  <2>1. late' \subseteq Places /\ losses' \in 0 .. MaxLosses
    BY <1>0, <1>2, <1>5 DEF CallBreaks, Abandoned
  <2> QED
    BY <1>0, <1>1, <1>5, <2>1 DEF CallBreaks, TypeOK, edgeVars
<1>6. ASSUME NEW e \in Endpoints, NEW r \in Recs, EdgeStoresLate(e, r) PROVE TypeOK'
  <2>1. held' \in [Places -> Recs \cup {None, Rot}] /\ promise' \in [Places -> Recs \cup {None}]
    BY <1>0, <1>6 DEF EdgeStoresLate, Kept
  <2> QED
    BY <1>0, <1>1, <1>6, <2>1 DEF EdgeStoresLate, TypeOK, bounds
<1>7. CASE EdgeHurt
  <2>1. PICK e \in Endpoints, r \in Recs :
          (Decay(e, r) \/ TakeAway(e, r) \/ Unkept(e, r)) /\ hurt' = hurt \cup {<<e, r>>}
    BY <1>7 DEF EdgeHurt
  <2>2. /\ held' \in [Places -> Recs \cup {None, Rot}] /\ promise' \in [Places -> Recs \cup {None}]
        /\ spoiled' \in [Places -> BOOLEAN]
    BY <1>0, <2>1 DEF Decay, TakeAway, Unkept
  <2>3. hurt' \subseteq Places /\ damages' \in 0 .. MaxDamage
    BY <1>0, <1>7, <2>1 DEF EdgeHurt, Places
  <2> QED
    BY <1>0, <1>1, <1>7, <2>2, <2>3 DEF EdgeHurt, TypeOK
<1> QED
  BY <1>3, <1>4, <1>5, <1>6, <1>7 DEF EdgeStep

\* What each step of an edge does to one place; no step takes a good copy unnoticed.
LEMMA EdgeKeeps ==
  ASSUME TypeOK, Promises, EdgeStep
  PROVE  Promises' /\ \A e \in Endpoints, r \in Recs :
           (held[<<e, r>>] = r \/ <<e, r>> \in hurt) => (held'[<<e, r>>] = r \/ <<e, r>> \in hurt')
<1>0. /\ PhoneTypeOK /\ Answers /\ held \in [Places -> Recs \cup {None, Rot}]
      /\ promise \in [Places -> Recs \cup {None}] /\ spoiled \in [Places -> BOOLEAN]
  BY EdgesAnswer DEF TypeOK
<1> DEFINE Good(e, r) == /\ promise[<<e, r>>] \in {None, r}
                         /\ promise[<<e, r>>] # None /\ ~spoiled[<<e, r>>] => held[<<e, r>>] = r
           Safe(e, r) == held[<<e, r>>] = r \/ <<e, r>> \in hurt
           Claimed == call # NoCall /\ call.reply = "stored"
<1>1. call # NoCall => call.ep \in Endpoints /\ call.rec \in Recs
  BY <1>0, CallIs DEF PhoneTypeOK
<1>2. /\ \A e \in Endpoints, r \in Recs : Good(e, r)
      /\ Claimed => Safe(call.ep, call.rec)
  BY DEF Promises
<1>3. ASSUME \A e \in Endpoints, r \in Recs : Good(e, r)' /\ (Safe(e, r) => Safe(e, r)'),
             Claimed' => Claimed /\ call'.ep = call.ep /\ call'.rec = call.rec
      PROVE  Promises' /\ \A e \in Endpoints, r \in Recs : Safe(e, r) => Safe(e, r)'
  BY <1>1, <1>2, <1>3 DEF Promises
<1>4. CASE EdgeStores
  <2>1. call # NoCall /\ call'.ep = call.ep /\ call'.rec = call.rec
    BY <1>0, <1>4, PendingIs, ReplyIs DEF EdgeStores
  <2>2. ASSUME NEW e \in Endpoints, NEW r \in Recs PROVE Good(e, r)' /\ (Safe(e, r) => Safe(e, r)')
    <3>1. <<e, r>> \in Places
      BY DEF Places
    <3>2. CASE <<e, r>> = <<call.ep, call.rec>>
      BY <1>0, <1>4, <3>1, <3>2 DEF EdgeStores, Kept
    <3>3. CASE <<e, r>> # <<call.ep, call.rec>>
      BY <1>0, <1>2, <1>4, <3>1, <3>3 DEF EdgeStores, Kept
    <3> QED
      BY <3>2, <3>3
  <2>3. Safe(call.ep, call.rec)'
    <3>1. <<call.ep, call.rec>> \in Places
      BY <1>1, <2>1 DEF Places
    <3>2. held'[<<call.ep, call.rec>>] = call.rec
      BY <1>0, <1>4, <3>1 DEF EdgeStores, Kept
    <3> QED
      BY <2>1, <3>2
  <2> QED
    BY <2>2, <2>3 DEF Promises
<1>5. CASE EdgeDeclines \/ EdgeAnswersHave \/ CallBreaks
  <2>1. UNCHANGED edgeVars
    BY <1>5 DEF EdgeDeclines, EdgeAnswersHave, CallBreaks
  <2>2. ~Claimed'
    <3>1. call # NoCall /\ \E word \in {"busy", "refused", "yes", "no", "error"} : Reply(word)
      BY <1>5, PendingIs DEF EdgeDeclines, EdgeAnswersHave, CallBreaks
    <3> QED
      BY <1>0, <3>1, ReplyIs
  <2> QED
    BY <1>2, <1>3, <2>1, <2>2 DEF edgeVars
<1>6. ASSUME NEW f \in Endpoints, NEW x \in Recs, EdgeStoresLate(f, x)
      PROVE  Promises' /\ \A e \in Endpoints, r \in Recs : Safe(e, r) => Safe(e, r)'
  <2>1. UNCHANGED <<call, spoiled, hurt>>
    BY <1>6 DEF EdgeStoresLate, phoneVars
  <2>2. ASSUME NEW e \in Endpoints, NEW r \in Recs PROVE Good(e, r)' /\ (Safe(e, r) => Safe(e, r)')
    <3>1. <<e, r>> \in Places /\ <<f, x>> \in Places
      BY DEF Places
    <3>2. CASE <<e, r>> = <<f, x>>
      BY <1>0, <1>2, <1>6, <3>1, <3>2 DEF EdgeStoresLate, Kept
    <3>3. CASE <<e, r>> # <<f, x>>
      BY <1>0, <1>2, <1>6, <3>1, <3>3 DEF EdgeStoresLate, Kept
    <3> QED
      BY <3>2, <3>3
  <2> QED
    BY <1>3, <2>1, <2>2
<1>7. CASE EdgeHurt
  <2>1. PICK f \in Endpoints, x \in Recs :
          (Decay(f, x) \/ TakeAway(f, x) \/ Unkept(f, x)) /\ hurt' = hurt \cup {<<f, x>>}
    BY <1>7 DEF EdgeHurt
  <2>2. UNCHANGED call
    BY <1>7 DEF EdgeHurt, phoneVars
  <2>3. ASSUME NEW e \in Endpoints, NEW r \in Recs PROVE Good(e, r)' /\ (Safe(e, r) => Safe(e, r)')
    <3>1. <<e, r>> \in Places /\ <<f, x>> \in Places
      BY DEF Places
    <3>2. CASE <<e, r>> = <<f, x>>
      BY <1>0, <1>2, <2>1, <3>1, <3>2 DEF Decay, TakeAway, Unkept
    <3>3. CASE <<e, r>> # <<f, x>>
      BY <1>0, <1>2, <2>1, <3>1, <3>3 DEF Decay, TakeAway, Unkept
    <3> QED
      BY <3>2, <3>3
  <2> QED
    BY <1>3, <2>2, <2>3
<1> QED
  BY <1>4, <1>5, <1>6, <1>7 DEF EdgeStep

(* The invariant, step by step *)

LEMMA PassFits ==
  ASSUME PhoneTypeOK, CallFits, AnyPass
  PROVE  CallFits'
<1>0. pass \in Passes /\ verifying \subseteq Recs
  BY DEF PhoneTypeOK
<1>1. \A pc2 \in {"idle", "upload", "sent", "recheck", "asked"} : [pass EXCEPT !.pc = pc2].pc = pc2
  BY <1>0 DEF Passes
<1>2. CASE StartPass
  <2>1. pass'.pc = "upload" /\ call' = call /\ pass.pc = "idle"
    BY <1>2 DEF StartPass, IdlePass
  <2> QED
    BY <2>1 DEF CallFits
<1>3. ASSUME NEW r \in Recs, NEW works \in BOOLEAN, DropEmpty(r, works) \/ Skip(r) \/ SkipRecheck(r)
      PROVE  CallFits'
  <2>1. pass'.pc = pass.pc /\ UNCHANGED <<call, verifying>>
    BY <1>0, <1>3 DEF DropEmpty, Skip, SkipRecheck, Done, Passes
  <2> QED
    BY <2>1 DEF CallFits
<1>4. ASSUME NEW r \in Recs, Send(r) \/ Recheck(r) PROVE CallFits'
  <2>1. Route(r) \in Endpoints
    BY <1>4, RouteIs DEF Send, Recheck, Uploadable
  <2>2. CASE Send(r)
    <3>1. call' \in Calls /\ call'.kind = "upload"
      BY <2>1, <2>2 DEF Send, Calls
    <3>2. pass'.pc = "sent"
      BY <1>0, <2>2 DEF Send, Done, Passes
    <3> QED
      BY <3>1, <3>2 DEF CallFits
  <2>3. CASE Recheck(r)
    <3>1. call' \in Calls /\ call'.kind = "have" /\ call'.rec \in verifying'
      BY <2>1, <2>3 DEF Recheck, Claim, Calls
    <3>2. pass'.pc = "asked"
      BY <1>0, <2>3 DEF Recheck, Done, Passes
    <3> QED
      BY <3>1, <3>2 DEF CallFits
  <2> QED
    BY <1>4, <2>2, <2>3
<1>5. ASSUME NEW works \in BOOLEAN, Confirmed(works) \/ NotConfirmed \/ StillHeld(works) \/ NotHeld(works) \/ NoWord
      PROVE  CallFits'
  <2>1. pass'.pc \in {"upload", "recheck"} /\ call' = NoCall
    BY <1>0, <1>5 DEF Confirmed, NotConfirmed, StillHeld, NotHeld, NoWord, Passes
  <2> QED
    BY <2>1 DEF CallFits
<1>6. CASE EndRound \/ EndPass
  <2>1. pass'.pc \in {"idle", "upload", "recheck"} /\ pass.pc \in {"upload", "recheck"} /\ call' = call
    <3>1. CASE EndRound
      <4>1. \A t : [pass EXCEPT !.todo = t, !.more = FALSE].pc = pass.pc /\ [pass EXCEPT !.pc = "recheck", !.todo = t].pc = "recheck"
        BY <1>0 DEF Passes
      <4> QED
        BY <3>1, <4>1 DEF EndRound
    <3>2. CASE EndPass
      BY <3>2 DEF EndPass, IdlePass
    <3> QED
      BY <1>6, <3>1, <3>2
  <2> QED
    BY <2>1 DEF CallFits
<1> QED
  BY <1>2, <1>3, <1>4, <1>5, <1>6 DEF AnyPass

LEMMA PhoneFits ==
  ASSUME PhoneTypeOK, CallFits, AnyPass \/ PurgeStep \/ UserStep \/ ClockStep \/ KillApp
  PROVE  CallFits'
<1>1. CASE PurgeStep \/ UserStep \/ ClockStep
  <2>1. UNCHANGED <<pass, call, verifying>>
    BY <1>1 DEF PurgeStep, ListFolder, SweepFolder, ReadCount, WriteCount, UserStep, Register, Capture, Close,
                LoseDest, ClockStep, Week, HoldOver, Expire
  <2> QED
    BY <2>1 DEF CallFits
<1>2. CASE KillApp
  BY <1>2 DEF KillApp, CallFits, IdlePass
<1> QED
  BY <1>1, <1>2, PassFits

\* The phone's part: what it calls synced is where it belongs, as far as anyone knows.
LEMMA PhoneMirrors ==
  ASSUME PhoneTypeOK, Chosen, Homeward, Promises, MirrorHolds, Effects, UNCHANGED <<held, hurt>>
  PROVE  MirrorHolds'
<1>0. Strays \subseteq Strays'
  BY ChosenStays DEF HomesStay
<1>1. \A e \in Endpoints, r \in Recs : AtHome(e, r) => AtHome(e, r)'
  BY ChosenStays DEF HomesStay
<1>2. ASSUME NEW r \in Recs, r \notin expired', r \notin Strays', file'[r] \in {"synced", "gone"}
      PROVE  home'[r] \in Endpoints /\ (held[<<home'[r], r>>] = r \/ <<home'[r], r>> \in hurt)
  <2>1. r \notin expired
    BY <1>2 DEF Effects
  <2>2. ASSUME NEW e \in Endpoints, AtHome(e, r), held[<<e, r>>] = r \/ <<e, r>> \in hurt
        PROVE  home'[r] \in Endpoints /\ (held[<<home'[r], r>>] = r \/ <<home'[r], r>> \in hurt)
    <3>1. home'[r] = e
      BY <1>1, <1>2, <2>2 DEF AtHome
    <3> QED
      BY <2>2, <3>1
  <2>3. CASE file[r] \in {"synced", file'[r]}
    <3>1. r \notin Strays => home[r] \in Endpoints /\ (held[<<home[r], r>>] = r \/ <<home[r], r>> \in hurt)
      BY <1>2, <2>1, <2>3 DEF MirrorHolds
    <3>2. r \notin Strays
      BY <1>0, <1>2
    <3> QED
      BY <2>2, <3>1, <3>2 DEF AtHome
  <2>4. CASE call # NoCall /\ call.rec = r /\ call.reply = "stored"
    <3>1. call.ep \in Endpoints /\ AtHome(call.ep, r)
      BY <2>4, CallIs DEF Homeward, PhoneTypeOK
    <3>2. held[<<call.ep, r>>] = r \/ <<call.ep, r>> \in hurt
      BY <2>4 DEF Promises
    <3> QED
      BY <2>2, <3>1, <3>2
  <2> QED
    BY <1>2, <2>1, <2>3, <2>4 DEF Effects
<1> QED
  BY <1>2 DEF MirrorHolds

\* A file says synced because the edge said yes; only a rename that fails leaves one that
\* says so after a no, and that one is in disowned.
LEMMA VouchedStays ==
  ASSUME PhoneTypeOK, CallFits, Losses, Vouched, PhoneStep \/ FolderFails \/ Kill
  PROVE  Vouched'
<1>0. /\ file \in [Recs -> {"new", "open", "empty", "waiting", "synced", "gone", "dropped"}]
      /\ heard \in [Recs -> {"nothing", "yes", "no"}]
  BY DEF PhoneTypeOK
<1>1. \A r \in Recs : file'[r] = "synced" /\ r \in disowned => r \in disowned'
  BY DEF PhoneStep, StillDisowned, FolderFails, Kill
<1>2. ASSUME \A r \in Recs : file'[r] = "synced" => file[r] = "synced" /\ heard'[r] \in {heard[r], "yes"}
      PROVE  Vouched'
  BY <1>1, <1>2 DEF Vouched
<1>3. ASSUME NEW works \in BOOLEAN, Confirmed(works) PROVE Vouched'
  <2>1. call.rec \in Recs
    BY <1>3, CallIs DEF Confirmed, CallFits
  <2>2. /\ \A r \in Recs : r # call.rec => file'[r] = file[r] /\ heard'[r] = heard[r]
        /\ heard'[call.rec] = "yes"
    BY <1>0, <1>3, <2>1 DEF Confirmed
  <2> QED
    BY <1>1, <2>2 DEF Vouched
<1>4. ASSUME NEW works \in BOOLEAN, StillHeld(works) PROVE Vouched'
  <2>1. \A r \in Recs : heard'[r] \in {heard[r], "yes"} /\ file'[r] = file[r]
    BY <1>0, <1>4 DEF StillHeld
  <2> QED
    BY <1>2, <2>1
<1>5. CASE NotHeld(TRUE)
  <2>1. \A r \in Recs : file'[r] = "synced" => file[r] = "synced" /\ heard'[r] = heard[r]
    BY <1>0, <1>5 DEF NotHeld, Requeue
  <2> QED
    BY <1>2, <2>1
<1>6. CASE NotHeld(FALSE) /\ disowned' = disowned \cup {r \in {call.rec} : file[r] = "synced"}
  <2>1. \A r \in Recs : /\ file'[r] = file[r]
                        /\ r # call.rec => heard'[r] = heard[r]
                        /\ r = call.rec /\ file[r] = "synced" => r \in disowned'
    BY <1>0, <1>6 DEF NotHeld
  <2> QED
    BY <1>1, <2>1 DEF Vouched
<1>7. ASSUME StartPass \/ (\E r \in Recs : Skip(r) \/ Send(r) \/ SkipRecheck(r) \/ Recheck(r))
             \/ (\E r \in Recs, works \in BOOLEAN : DropEmpty(r, works))
             \/ NotConfirmed \/ EndRound \/ NoWord \/ EndPass
      PROVE  Vouched'
  <2>1. heard' = heard
    BY <1>7 DEF StartPass, Skip, Send, SkipRecheck, Recheck, DropEmpty, NotConfirmed, EndRound, NoWord, EndPass
  <2>2. \A r \in Recs : file'[r] \in {file[r], "dropped"}
    BY <1>0, <1>7 DEF StartPass, Skip, Send, SkipRecheck, Recheck, DropEmpty, NotConfirmed, EndRound, NoWord,
                      EndPass, folder
  <2> QED
    BY <1>2, <2>1, <2>2
<1>8. CASE PassStep
  BY <1>3, <1>4, <1>5, <1>7, <1>8 DEF PassStep
<1>9. CASE FolderFails
  <2>1. \/ \E r \in Recs : DropEmpty(r, FALSE)
        \/ Confirmed(FALSE) \/ StillHeld(FALSE)
        \/ NotHeld(FALSE) /\ disowned' = disowned \cup {r \in {call.rec} : file[r] = "synced"}
    BY <1>9 DEF FolderFails
  <2> QED
    BY <1>3, <1>4, <1>6, <1>7, <2>1
<1>10. ASSUME NEW p \in Purgers, SweepFolder(p) PROVE Vouched'
  <2>1. /\ heard' = heard
        /\ \A r \in Recs : file'[r] \in {file[r], "gone"}
    BY <1>10, SweepIs
  <2> QED
    BY <1>2, <2>1
<1>11. ASSUME NEW p \in Purgers, ListFolder(p) \/ ReadCount(p) \/ WriteCount(p) PROVE Vouched'
  <2>1. heard' = heard /\ file' = file
    BY <1>11 DEF ListFolder, ReadCount, WriteCount, folder
  <2> QED
    BY <1>2, <2>1
<1>12. CASE UserStep \/ ClockStep
  <2>1. heard' = heard
    BY <1>12 DEF UserStep, Register, Capture, Close, LoseDest, ClockStep, Week, HoldOver, Expire
  <2>2. \A r \in Recs : file'[r] \in {file[r], "open", "waiting"}
    BY <1>0, <1>12 DEF UserStep, Register, Capture, Close, LoseDest, ClockStep, Week, HoldOver, Expire, folder
  <2> QED
    BY <1>2, <2>1, <2>2
<1>13. CASE Kill
  <2>1. KillApp /\ heard' = heard
    BY <1>13 DEF Kill, KillApp
  <2>2. \A r \in Recs : file'[r] \in {file[r], "empty", "waiting"}
    BY <2>1, KillTypes
  <2> QED
    BY <1>2, <2>1, <2>2
<1> QED
  BY <1>8, <1>9, <1>10, <1>11, <1>12, <1>13 DEF PhoneStep, PurgeStep

LEMMA EdgeMirrors ==
  ASSUME TypeOK, Promises, MirrorHolds, Vouched, EdgeStep
  PROVE  MirrorHolds' /\ Vouched'
<1>1. UNCHANGED <<file, heard, home, older, expired, disowned>>
  BY EdgesAnswer DEF Answers, phoneRest
<1>2. \A e \in Endpoints, r \in Recs :
        (held[<<e, r>>] = r \/ <<e, r>> \in hurt) => (held'[<<e, r>>] = r \/ <<e, r>> \in hurt')
  BY EdgeKeeps
<1>3. MirrorHolds'
  BY <1>1, <1>2 DEF MirrorHolds, Strays
<1> QED
  BY <1>1, <1>3 DEF Vouched

LEMMA MirrorInit == Init => MirrorInv
<1> SUFFICES ASSUME Init PROVE MirrorInv
  OBVIOUS
<1>0. /\ PhoneTypeOK /\ None \notin Recs /\ None \notin Endpoints /\ Legacy \subseteq Recs
      /\ "missing" \notin Endpoints /\ MaxLosses \in Nat /\ MaxDamage \in Nat /\ MaxKills \in Nat
      /\ MaxFaults \in Nat
  BY PhoneInitTypes, PhoneAssumption, MirrorAssumption DEF Init
<1>1. TypeOK
  BY <1>0 DEF Init, TypeOK
<1>2. CallFits
  BY DEF Init, PhoneInit, IdlePass, CallFits
<1>3. \A r \in Recs : file[r] \in {"new", "waiting"} /\ (file[r] = "new" <=> r \notin Legacy)
                     /\ dest[r] = "missing" /\ home[r] = IF r \in Legacy THEN saved ELSE None
  BY DEF Init, PhoneInit
<1>4. default = None /\ known = {} /\ older = {} /\ call = NoCall /\ lost = {} /\ expired = {} /\ late = {}
  BY DEF Init, PhoneInit
<1>5. Chosen
  BY <1>0, <1>3, <1>4 DEF Chosen
<1>6. \A at \in Places : held[at] = None /\ promise[at] = None
  BY DEF Init
<1>7. Homeward /\ Promises
  BY <1>0, <1>3, <1>4, <1>6 DEF Homeward, SentHome, Promises, Places
<1>8. MirrorHolds /\ Vouched
  BY <1>3 DEF MirrorHolds, Vouched
<1>9. Losses
  BY <1>4, FS_EmptySet DEF Losses
<1> QED
  BY <1>1, <1>2, <1>5, <1>7, <1>8, <1>9 DEF MirrorInv

LEMMA MirrorStep == MirrorInv /\ [Next]_vars => MirrorInv'
<1> SUFFICES ASSUME MirrorInv, [Next]_vars PROVE MirrorInv'
  OBVIOUS
<1>0. TypeOK /\ PhoneTypeOK /\ CallFits /\ Chosen /\ Homeward /\ Promises /\ MirrorHolds /\ Vouched /\ Losses
  BY DEF MirrorInv, TypeOK
<1>1. ASSUME PhoneStep \/ FolderFails \/ Kill PROVE MirrorInv'
  <2>1. /\ AnyPass \/ PurgeStep \/ UserStep \/ ClockStep \/ KillApp
        /\ UNCHANGED edgeVars /\ late' \subseteq late \cup Abandoned
    BY <1>1, PassIs DEF PhoneStep, FolderFails, Kill
  <2>2. Effects /\ PhoneTypeOK'
    BY <1>0, <2>1, PassEffects, PurgeEffects, UserEffects, KillEffects, PassTypes, PurgeTypes, UserTypes, KillTypes
  <2>3. TypeOK'
    <3>1. Abandoned \subseteq Places
      <4>1. Abandoned # {} => call # NoCall
        BY DEF Abandoned, NoCall
      <4> QED
        <5>1. call # NoCall => <<call.ep, call.rec>> \in Places
          BY <1>0, CallIs DEF PhoneTypeOK, Places
        <5>2. Abandoned \subseteq {<<call.ep, call.rec>>}
          BY DEF Abandoned
        <5> QED
          BY <4>1, <5>1, <5>2
    <3>2. late' \subseteq Places
      BY <1>0, <2>1, <3>1 DEF TypeOK
    <3>3. losses' = losses /\ damages' = damages /\ kills' \in 0 .. MaxKills /\ faults' \in 0 .. MaxFaults
      <4>1. /\ kills \in 0 .. MaxKills /\ faults \in 0 .. MaxFaults
            /\ MaxKills \in Nat /\ MaxFaults \in Nat
        BY <1>0, MirrorAssumption DEF TypeOK
      <4>2. CASE PhoneStep
        BY <4>1, <4>2 DEF PhoneStep, bounds
      <4>3. CASE FolderFails
        BY <4>1, <4>3 DEF FolderFails
      <4>4. CASE Kill
        BY <4>1, <4>4 DEF Kill
      <4> QED
        BY <1>1, <4>2, <4>3, <4>4
    <3>4. disowned' \subseteq Recs
      <4>1. NotHeld(FALSE) => call.rec \in Recs
        BY <1>0, CallIs DEF NotHeld, CallFits
      <4> QED
        BY <1>0, <1>1, <4>1 DEF TypeOK, PhoneStep, StillDisowned, FolderFails, Kill
    <3> QED
      BY <1>0, <2>1, <2>2, <3>2, <3>3, <3>4 DEF TypeOK, edgeVars
  <2>4. CallFits' /\ Losses'
    BY <1>0, <2>1, PhoneFits, LossesStay
  <2>5. Chosen' /\ Homeward'
    BY <1>0, <2>1, <2>2, ChosenStays, PhoneHomeward DEF edgeVars
  <2>6. Promises'
    <3>1. call' # NoCall /\ call'.reply = "stored" => call' = call
      BY <2>2 DEF Effects
    <3> QED
      BY <1>0, <2>1, <3>1 DEF Promises, edgeVars
  <2>7. MirrorHolds' /\ Vouched'
    BY <1>0, <1>1, <2>1, <2>2, PhoneMirrors, VouchedStays DEF edgeVars
  <2> QED
    BY <2>3, <2>4, <2>5, <2>6, <2>7 DEF MirrorInv
<1>2. CASE EdgeStep
  <2>1. TypeOK' /\ Chosen' /\ Homeward' /\ Promises' /\ MirrorHolds' /\ Vouched'
    BY <1>0, <1>2, EdgeTypes, EdgeHomeward, EdgeKeeps, EdgeMirrors
  <2>2. CallFits'
    BY <1>0, <1>2, EdgesAnswer, AnswerTypes
  <2>3. Losses'
    BY <1>0, <1>2, EdgesAnswer DEF Answers, phoneRest, Losses
  <2> QED
    BY <2>1, <2>2, <2>3 DEF MirrorInv
<1>3. CASE UNCHANGED vars
  <2>1. UNCHANGED phoneVars /\ UNCHANGED edgeVars /\ UNCHANGED <<late, disowned>> /\ UNCHANGED bounds
    BY <1>3 DEF vars
  <2>2. PhoneTypeOK' /\ CallFits' /\ Chosen' /\ Vouched' /\ Losses'
    BY <1>0, <2>1 DEF PhoneTypeOK, CallFits, Chosen, Vouched, Losses, phoneVars
  <2>3. Homeward' /\ Promises' /\ MirrorHolds'
    BY <1>0, <2>1 DEF Homeward, SentHome, AtHome, Strays, Promises, MirrorHolds, phoneVars, edgeVars
  <2>4. TypeOK'
    BY <1>0, <2>1, <2>2 DEF TypeOK, edgeVars, bounds
  <2> QED
    BY <2>2, <2>3, <2>4 DEF MirrorInv
<1> QED
  BY <1>1, <1>2, <1>3 DEF Next, EdgeStep

LEMMA MirrorInvariant == Spec => []MirrorInv
<1> QED
  BY MirrorInit, MirrorStep, PTL DEF Spec

(***************************************************************************)
(* The owner's rule: within its 90 days a recording marked synced, or      *)
(* already taken off the phone, is held by the edge it was captured for,   *)
(* unless that edge's own copy was damaged or moved away since; whatever   *)
(* calls are lost or carried out late, whenever the app dies, and however  *)
(* retention and the sync passes interleave (SegmentSync, LocalRecorder).  *)
(***************************************************************************)
THEOREM MirrorIsKept == Spec => []MirrorKept
<1>1. MirrorInv => MirrorKept
  BY DEF MirrorInv, MirrorKept
<1> QED
  BY <1>1, MirrorInvariant, PTL

(***************************************************************************)
(* A recording reaches, or may still reach, only the bridge it was made    *)
(* for, whatever is registered later and whatever X.dest files get lost;   *)
(* only a ws:// recording from before the first wss:// run may go to the   *)
(* default (SegmentSync.registerEndpoint, destinationOf).                  *)
(***************************************************************************)
THEOREM AllSentHome == Spec => []SentHome
<1>1. MirrorInv => SentHome
  BY DEF MirrorInv, Homeward
<1> QED
  BY <1>1, MirrorInvariant, PTL

(***************************************************************************)
(* Retention takes a recording before its 90 days are over only after the  *)
(* edge's last word on it was yes, and never while a re-check waits for    *)
(* its answer (purgeDir under the folder lock, SegmentSync.runPass), with  *)
(* one exception: after a no whose rename back into the queue failed.      *)
(***************************************************************************)
THEOREM NoneGoEarly == Spec => OnlyHeldCopiesGoEarly
<1> DEFINE Early1 == \A r \in Recs \ expired :
                       (file[r] \in {"waiting", "synced"} /\ file'[r] = "gone") =>
                         /\ heard[r] = "yes" \/ r \in disowned
                         /\ call = NoCall \/ call.kind # "have" \/ call.rec # r
<1>1. MirrorInv /\ [Next]_vars => [Early1]_vars
  <2> SUFFICES ASSUME MirrorInv, Next,
                      NEW r \in Recs \ expired, file[r] \in {"waiting", "synced"}, file'[r] = "gone"
               PROVE  (heard[r] = "yes" \/ r \in disowned) /\ (call = NoCall \/ call.kind # "have" \/ call.rec # r)
    OBVIOUS
  <2>0. /\ PhoneTypeOK /\ CallFits /\ Vouched /\ Losses /\ TypeOK
        /\ file \in [Recs -> {"new", "open", "empty", "waiting", "synced", "gone", "dropped"}]
    BY DEF MirrorInv, TypeOK, PhoneTypeOK
  <2>1. CASE EdgeStep
    BY <2>1, EdgesAnswer DEF Answers, phoneRest
  <2>2. CASE Kill
    BY <2>2, <2>0, KillTypes DEF Kill
  <2>3. CASE AnyPass \/ UserStep \/ ClockStep
    <3>1. \A x \in Recs : file'[x] \in {file[x], "open", "waiting", "synced", "dropped"}
      <4>1. CASE AnyPass
        BY <2>0, <4>1 DEF AnyPass, StartPass, DropEmpty, Skip, Send, SkipRecheck, Recheck, Confirmed, NotConfirmed,
                    EndRound, StillHeld, NotHeld, Requeue, NoWord, EndPass, folder, StillThere
      <4>2. CASE UserStep \/ ClockStep
        BY <2>0, <4>2 DEF UserStep, Register, Capture, Close, LoseDest, ClockStep, Week, HoldOver, Expire, folder
      <4> QED
        BY <2>3, <4>1, <4>2
    <3> QED
      BY <3>1
  <2>4. ASSUME NEW p \in Purgers, SweepFolder(p)
        PROVE  (heard[r] = "yes" \/ r \in disowned) /\ (call = NoCall \/ call.kind # "have" \/ call.rec # r)
    <3>1. PICK gone \in SUBSET purge[p].list :
             /\ \A e \in gone : Removable(e) /\ (e.rec \in expired \/ Early(e))
             /\ file' = [x \in Recs |-> IF x \in NamesOf(gone) THEN "gone" ELSE file[x]]
      BY <2>4, SweepIs
    <3>2. gone \in SUBSET Entries /\ IsFiniteSet(expired)
      BY <2>0 DEF PhoneTypeOK, Losses
    <3>3. r \in NamesOf(gone) \ expired
      BY <3>1
    <3>4. file[r] = "synced" /\ r \notin verifying
      BY <3>1, <3>2, <3>3, UnsyncedIs
    <3>5. heard[r] = "yes" \/ r \in disowned
      BY <2>0, <3>4 DEF Vouched
    <3>6. call = NoCall \/ call.kind # "have" \/ call.rec # r
      BY <2>0, <3>4 DEF CallFits
    <3> QED
      BY <3>5, <3>6
  <2>5. ASSUME NEW p \in Purgers, ListFolder(p) \/ ReadCount(p) \/ WriteCount(p) PROVE FALSE
    BY <2>5 DEF ListFolder, ReadCount, WriteCount, folder
  <2> QED
    BY <2>1, <2>2, <2>3, <2>4, <2>5, PassIs DEF Next, EdgeStep, PhoneStep, PurgeStep
<1> QED
  BY <1>1, MirrorInvariant, PTL DEF Spec, OnlyHeldCopiesGoEarly

=============================================================================
