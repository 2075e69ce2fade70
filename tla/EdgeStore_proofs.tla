--------------------------- MODULE EdgeStore_proofs ---------------------------
(***************************************************************************)
(* Proofs about EdgeStore, for any number of names, contents, upload slots *)
(* and faults: the types; with one lock per name the inductive invariant,  *)
(* that a receipt survives every crash, that no writer removes audio but   *)
(* its own, and that the store implements EdgeArchive; and with any locks  *)
(* that no final file is torn.                                             *)
(***************************************************************************)
EXTENDS EdgeStoreInvariant, MCEdgeTwo, TLAPS

(***************************************************************************)
(* The answers keep the types of the request table and the history.        *)
(***************************************************************************)
LEMMA RefuseType ==
  ASSUME TypeOK, NEW w \in Workers, req[w] # Idle, Refuse(w)
  PROVE  /\ req' \in [Workers -> {Idle} \cup Requests]
         /\ holder' \in [Names -> Workers \cup {None}]
         /\ UNCHANGED <<promise, timed, spoiled, vouched>>
BY ConstantsAssumption DEF Refuse, HolderAfter, TypeOK, Name, history, Requests, Idle

LEMMA StoredType ==
  ASSUME TypeOK, NEW w \in Workers, req[w] # Idle, AnswerStored(w)
  PROVE  /\ req' \in [Workers -> {Idle} \cup Requests]
         /\ holder' \in [Names -> Workers \cup {None}]
         /\ promise' \in [Names -> Contents \cup {None}]
         /\ timed' \in [Names -> BOOLEAN]
         /\ spoiled' \in [Names -> BOOLEAN]
         /\ UNCHANGED vouched
<1> req[w] \in Requests
  BY DEF TypeOK
<1> QED
  BY ConstantsAssumption DEF AnswerStored, HolderAfter, TypeOK, Name, Data, Requests

\* A request that waits for its next step is a full record.
LEMMA Active ==
  ASSUME TypeOK, NEW w \in Workers, NEW pc \in PCs, At(w, pc)
  PROVE  req[w] # Idle /\ req[w] \in Requests
BY DEF TypeOK, At, Idle, PCs

LEMMA FailType ==
  ASSUME TypeOK, NEW w \in Workers, req[w] \in Requests, req[w] # Idle, Fail(w)
  PROVE  /\ req' \in [Workers -> {Idle} \cup Requests]
         /\ holder' \in [Names -> Workers \cup {None}]
         /\ errors' \in 0 .. MaxErrors
         /\ UNCHANGED <<promise, timed, spoiled, vouched, disk, survive, day>>
<1>1. errors' \in 0 .. MaxErrors
  BY ConstantsAssumption DEF Fail, TypeOK
<1>2. CASE req[w].trying
  BY <1>1, <1>2 DEF Fail, TypeOK, Requests, PCs, history, storeVars
<1>3. CASE ~req[w].trying
  BY <1>1, <1>3, RefuseType DEF Fail, storeVars
<1> QED
  BY <1>2, <1>3

\* A new version of one name's files is typed with its parts.
LEMMA PutType ==
  ASSUME TypeOK, NEW n \in Names, NEW f \in Files, Put(n, f)
  PROVE  /\ disk' \in [Names -> Files]
         /\ survive' \in [Names -> SUBSET Files]
         /\ day' = day
BY DEF TypeOK, Put

LEMMA SyncType ==
  ASSUME TypeOK, SyncDay
  PROVE  survive' \in [Names -> SUBSET Files]
BY DEF TypeOK, SyncDay

LEMMA GotoType ==
  ASSUME TypeOK, NEW w \in Workers, req[w] \in Requests, NEW pc \in PCs, Goto(w, pc)
  PROVE  req' \in [Workers -> {Idle} \cup Requests]
BY DEF TypeOK, Goto, Requests

\* What a request points to.
LEMMA Parts ==
  ASSUME TypeOK, NEW w \in Workers, req[w] \in Requests
  PROVE  /\ Name(w) \in Names /\ Data(w) \in Contents /\ File(w) \in Files
         /\ req[w].meta \in BOOLEAN /\ req[w].keep \in BOOLEAN /\ req[w].wrote \in BOOLEAN
         /\ req[w].trying \in BOOLEAN /\ req[w].linked \in BOOLEAN /\ req[w].proven \in BOOLEAN
         /\ req[w].ok \in BOOLEAN /\ req[w].gone \in BOOLEAN /\ req[w].sound \in BOOLEAN
BY DEF TypeOK, Name, Data, File, Requests

LEMMA NewVersion ==
  ASSUME NEW f \in Files, NEW c \in Contents \cup {None}, NEW a \in Audio
  PROVE  /\ [f EXCEPT !.side = c] \in Files
         /\ [f EXCEPT !.proof = c] \in Files
         /\ [f EXCEPT !.audio = a] \in Files
         /\ [f EXCEPT !.audio = a, !.aside = @ \cup {f.audio}] \in Files
BY DEF Files

\* Steps that leave most of the state alone.
LEMMA FailStep ==
  ASSUME TypeOK, NEW w \in Workers, req[w] \in Requests, req[w] # Idle, Fail(w), UNCHANGED faults
  PROVE  TypeOK'
BY FailType DEF TypeOK, faults

LEMMA RefuseStep ==
  ASSUME TypeOK, NEW w \in Workers, req[w] # Idle, Refuse(w), UNCHANGED <<storeVars, faults>>,
         errors' \in 0 .. MaxErrors
  PROVE  TypeOK'
BY RefuseType DEF TypeOK, faults, storeVars

LEMMA InitTypes == Init => TypeOK
BY ConstantsAssumption DEF Init, TypeOK, Files, Audio, NoFiles

\* Every step keeps the types.
LEMMA TypeStays ==
  ASSUME TypeOK, [Next]_vars
  PROVE  TypeOK'
<1>1. ASSUME NEW w \in Workers, NEW n \in Names, NEW c \in Contents, NEW m \in Sidecars,
             Start(w, n, c, m), UNCHANGED faults
      PROVE  TypeOK'
  BY <1>1, ConstantsAssumption DEF Start, TypeOK, faults, storeVars, history, Requests, PCs
<1>2. ASSUME NEW w \in Workers, BodyRejected(w), UNCHANGED faults
      PROVE  TypeOK'
  <2>1. req[w] # Idle /\ req[w] \in Requests
    BY <1>2, Active DEF BodyRejected, PCs
  <2>10. Name(w) \in Names /\ Data(w) \in Contents /\ File(w) \in Files
    BY <2>1, Parts
  <2>11. req' \in [Workers -> {Idle} \cup Requests]
    BY <1>2, <2>1, <2>10, RefuseType, StoredType DEF BodyRejected, TypeOK, Goto, Requests, PCs
  <2>12. holder' \in [Names -> Workers \cup {None}]
    BY <1>2, <2>1, <2>10, RefuseType, StoredType DEF BodyRejected, TypeOK
  <2>13. /\ promise' \in [Names -> Contents \cup {None}] /\ vouched' \in [Names -> Contents \cup {None}]
        /\ timed' \in [Names -> BOOLEAN] /\ spoiled' \in [Names -> BOOLEAN]
    BY <1>2, <2>1, <2>10, RefuseType, StoredType DEF BodyRejected, TypeOK, history
  <2>14. disk' \in [Names -> Files] /\ survive' \in [Names -> SUBSET Files]
    BY <1>2, <2>1, <2>10, PutType, SyncType, NewVersion DEF BodyRejected, TypeOK, storeVars, Audio
  <2>15. day' \in {"absent", "made", "durable"} /\ errors' \in 0 .. MaxErrors
    BY <1>2, <2>1, <2>10, PutType DEF BodyRejected, TypeOK, storeVars
  <2> QED
    BY <1>2, <2>1, <2>11, <2>12, <2>13, <2>14, <2>15 DEF TypeOK, faults
<1>3. ASSUME NEW w \in Workers, Lock(w), UNCHANGED faults
      PROVE  TypeOK'
  <2>1. req[w] # Idle /\ req[w] \in Requests
    BY <1>3, Active DEF Lock, PCs
  <2>10. Name(w) \in Names /\ Data(w) \in Contents /\ File(w) \in Files
    BY <2>1, Parts
  <2>11. req' \in [Workers -> {Idle} \cup Requests]
    BY <1>3, <2>1, <2>10, RefuseType, StoredType DEF Lock, TypeOK, Goto, Requests, PCs
  <2>12. holder' \in [Names -> Workers \cup {None}]
    BY <1>3, <2>1, <2>10, RefuseType, StoredType DEF Lock, TypeOK
  <2>13. /\ promise' \in [Names -> Contents \cup {None}] /\ vouched' \in [Names -> Contents \cup {None}]
        /\ timed' \in [Names -> BOOLEAN] /\ spoiled' \in [Names -> BOOLEAN]
    BY <1>3, <2>1, <2>10, RefuseType, StoredType DEF Lock, TypeOK, history
  <2>14. disk' \in [Names -> Files] /\ survive' \in [Names -> SUBSET Files]
    BY <1>3, <2>1, <2>10, PutType, SyncType, NewVersion DEF Lock, TypeOK, storeVars, Audio
  <2>15. day' \in {"absent", "made", "durable"} /\ errors' \in 0 .. MaxErrors
    BY <1>3, <2>1, <2>10, PutType DEF Lock, TypeOK, storeVars
  <2> QED
    BY <1>3, <2>1, <2>11, <2>12, <2>13, <2>14, <2>15 DEF TypeOK, faults
<1>4. ASSUME NEW w \in Workers, FloorRejected(w), UNCHANGED faults
      PROVE  TypeOK'
  <2>1. req[w] # Idle /\ req[w] \in Requests
    BY <1>4, Active DEF FloorRejected, PCs
  <2>2. errors' \in 0 .. MaxErrors
    BY <1>4, ConstantsAssumption DEF FloorRejected, TypeOK
  <2> QED
    BY <1>4, <2>1, <2>2, RefuseStep DEF FloorRejected
<1>5. ASSUME NEW w \in Workers, Floor(w), UNCHANGED faults
      PROVE  TypeOK'
  <2>1. req[w] # Idle /\ req[w] \in Requests
    BY <1>5, Active DEF Floor, PCs
  <2>10. Name(w) \in Names /\ Data(w) \in Contents /\ File(w) \in Files
    BY <2>1, Parts
  <2>11. req' \in [Workers -> {Idle} \cup Requests]
    BY <1>5, <2>1, <2>10, RefuseType, StoredType DEF Floor, TypeOK, Goto, Requests, PCs
  <2>12. holder' \in [Names -> Workers \cup {None}]
    BY <1>5, <2>1, <2>10, RefuseType, StoredType DEF Floor, TypeOK
  <2>13. /\ promise' \in [Names -> Contents \cup {None}] /\ vouched' \in [Names -> Contents \cup {None}]
        /\ timed' \in [Names -> BOOLEAN] /\ spoiled' \in [Names -> BOOLEAN]
    BY <1>5, <2>1, <2>10, RefuseType, StoredType DEF Floor, TypeOK, history
  <2>14. disk' \in [Names -> Files] /\ survive' \in [Names -> SUBSET Files]
    BY <1>5, <2>1, <2>10, PutType, SyncType, NewVersion DEF Floor, TypeOK, storeVars, Audio
  <2>15. day' \in {"absent", "made", "durable"} /\ errors' \in 0 .. MaxErrors
    BY <1>5, <2>1, <2>10, PutType DEF Floor, TypeOK, storeVars
  <2> QED
    BY <1>5, <2>1, <2>11, <2>12, <2>13, <2>14, <2>15 DEF TypeOK, faults
<1>6. ASSUME NEW w \in Workers, Abandon(w), UNCHANGED faults
      PROVE  TypeOK'
  <2>1. req[w] # Idle /\ req[w] \in Requests
    BY <1>6 DEF Abandon, TypeOK
  <2>10. Name(w) \in Names /\ Data(w) \in Contents /\ File(w) \in Files
    BY <2>1, Parts
  <2>11. req' \in [Workers -> {Idle} \cup Requests]
    BY <1>6, <2>1, <2>10, RefuseType, StoredType DEF Abandon, TypeOK, Goto, Requests, PCs
  <2>12. holder' \in [Names -> Workers \cup {None}]
    BY <1>6, <2>1, <2>10, RefuseType, StoredType DEF Abandon, TypeOK
  <2>13. /\ promise' \in [Names -> Contents \cup {None}] /\ vouched' \in [Names -> Contents \cup {None}]
        /\ timed' \in [Names -> BOOLEAN] /\ spoiled' \in [Names -> BOOLEAN]
    BY <1>6, <2>1, <2>10, RefuseType, StoredType DEF Abandon, TypeOK, history
  <2>14. disk' \in [Names -> Files] /\ survive' \in [Names -> SUBSET Files]
    BY <1>6, <2>1, <2>10, PutType, SyncType, NewVersion DEF Abandon, TypeOK, storeVars, Audio
  <2>15. day' \in {"absent", "made", "durable"} /\ errors' \in 0 .. MaxErrors
    BY <1>6, <2>1, <2>10, PutType DEF Abandon, TypeOK, storeVars
  <2> QED
    BY <1>6, <2>1, <2>11, <2>12, <2>13, <2>14, <2>15 DEF TypeOK, faults
<1>7. ASSUME NEW w \in Workers, MakeDay(w), UNCHANGED faults
      PROVE  TypeOK'
  <2>1. req[w] # Idle /\ req[w] \in Requests
    BY <1>7, Active DEF MakeDay, PCs
  <2>2. CASE Fail(w)
    BY <1>7, <2>1, <2>2, FailStep
  <2>3. CASE ~Fail(w)
    <3>10. Name(w) \in Names /\ Data(w) \in Contents /\ File(w) \in Files
      BY <2>1, Parts
    <3>11. req' \in [Workers -> {Idle} \cup Requests]
      BY <1>7, <2>1, <2>3, <3>10, RefuseType, StoredType DEF MakeDay, TypeOK, Goto, Requests, PCs
    <3>12. holder' \in [Names -> Workers \cup {None}]
      BY <1>7, <2>1, <2>3, <3>10, RefuseType, StoredType DEF MakeDay, TypeOK
    <3>13. /\ promise' \in [Names -> Contents \cup {None}] /\ vouched' \in [Names -> Contents \cup {None}]
          /\ timed' \in [Names -> BOOLEAN] /\ spoiled' \in [Names -> BOOLEAN]
      BY <1>7, <2>1, <2>3, <3>10, RefuseType, StoredType DEF MakeDay, TypeOK, history
    <3>14. disk' \in [Names -> Files] /\ survive' \in [Names -> SUBSET Files]
      BY <1>7, <2>1, <2>3, <3>10, PutType, SyncType, NewVersion DEF MakeDay, TypeOK, storeVars, Audio
    <3>15. day' \in {"absent", "made", "durable"} /\ errors' \in 0 .. MaxErrors
      BY <1>7, <2>1, <2>3, <3>10, PutType DEF MakeDay, TypeOK, storeVars
    <3> QED
      BY <1>7, <2>1, <2>3, <3>11, <3>12, <3>13, <3>14, <3>15 DEF TypeOK, faults
  <2> QED
    BY <2>2, <2>3
<1>8. ASSUME NEW w \in Workers, SyncParent(w), UNCHANGED faults
      PROVE  TypeOK'
  <2>1. req[w] # Idle /\ req[w] \in Requests
    BY <1>8, Active DEF SyncParent, PCs
  <2>2. CASE Fail(w)
    BY <1>8, <2>1, <2>2, FailStep
  <2>3. CASE ~Fail(w)
    <3>10. Name(w) \in Names /\ Data(w) \in Contents /\ File(w) \in Files
      BY <2>1, Parts
    <3>11. req' \in [Workers -> {Idle} \cup Requests]
      BY <1>8, <2>1, <2>3, <3>10, RefuseType, StoredType DEF SyncParent, TypeOK, Goto, Requests, PCs
    <3>12. holder' \in [Names -> Workers \cup {None}]
      BY <1>8, <2>1, <2>3, <3>10, RefuseType, StoredType DEF SyncParent, TypeOK
    <3>13. /\ promise' \in [Names -> Contents \cup {None}] /\ vouched' \in [Names -> Contents \cup {None}]
          /\ timed' \in [Names -> BOOLEAN] /\ spoiled' \in [Names -> BOOLEAN]
      BY <1>8, <2>1, <2>3, <3>10, RefuseType, StoredType DEF SyncParent, TypeOK, history
    <3>14. disk' \in [Names -> Files] /\ survive' \in [Names -> SUBSET Files]
      BY <1>8, <2>1, <2>3, <3>10, PutType, SyncType, NewVersion DEF SyncParent, TypeOK, storeVars, Audio
    <3>15. day' \in {"absent", "made", "durable"} /\ errors' \in 0 .. MaxErrors
      BY <1>8, <2>1, <2>3, <3>10, PutType DEF SyncParent, TypeOK, storeVars
    <3> QED
      BY <1>8, <2>1, <2>3, <3>11, <3>12, <3>13, <3>14, <3>15 DEF TypeOK, faults
  <2> QED
    BY <2>2, <2>3
<1>9. ASSUME NEW w \in Workers, LookHeld(w), UNCHANGED faults
      PROVE  TypeOK'
  <2>1. req[w] # Idle /\ req[w] \in Requests
    BY <1>9, Active DEF LookHeld, PCs
  <2>10. Name(w) \in Names /\ Data(w) \in Contents /\ File(w) \in Files
    BY <2>1, Parts
  <2>11. req' \in [Workers -> {Idle} \cup Requests]
    BY <1>9, <2>1, <2>10, RefuseType, StoredType DEF LookHeld, TypeOK, Goto, Requests, PCs
  <2>12. holder' \in [Names -> Workers \cup {None}]
    BY <1>9, <2>1, <2>10, RefuseType, StoredType DEF LookHeld, TypeOK
  <2>13. /\ promise' \in [Names -> Contents \cup {None}] /\ vouched' \in [Names -> Contents \cup {None}]
        /\ timed' \in [Names -> BOOLEAN] /\ spoiled' \in [Names -> BOOLEAN]
    BY <1>9, <2>1, <2>10, RefuseType, StoredType DEF LookHeld, TypeOK, history
  <2>14. disk' \in [Names -> Files] /\ survive' \in [Names -> SUBSET Files]
    BY <1>9, <2>1, <2>10, PutType, SyncType, NewVersion DEF LookHeld, TypeOK, storeVars, Audio
  <2>15. day' \in {"absent", "made", "durable"} /\ errors' \in 0 .. MaxErrors
    BY <1>9, <2>1, <2>10, PutType DEF LookHeld, TypeOK, storeVars
  <2> QED
    BY <1>9, <2>1, <2>11, <2>12, <2>13, <2>14, <2>15 DEF TypeOK, faults
<1>10. ASSUME NEW w \in Workers, LookOther(w), UNCHANGED faults
      PROVE  TypeOK'
  <2>1. req[w] # Idle /\ req[w] \in Requests
    BY <1>10, Active DEF LookOther, PCs
  <2>10. Name(w) \in Names /\ Data(w) \in Contents /\ File(w) \in Files
    BY <2>1, Parts
  <2>11. req' \in [Workers -> {Idle} \cup Requests]
    BY <1>10, <2>1, <2>10, RefuseType, StoredType DEF LookOther, TypeOK, Goto, Requests, PCs
  <2>12. holder' \in [Names -> Workers \cup {None}]
    BY <1>10, <2>1, <2>10, RefuseType, StoredType DEF LookOther, TypeOK
  <2>13. /\ promise' \in [Names -> Contents \cup {None}] /\ vouched' \in [Names -> Contents \cup {None}]
        /\ timed' \in [Names -> BOOLEAN] /\ spoiled' \in [Names -> BOOLEAN]
    BY <1>10, <2>1, <2>10, RefuseType, StoredType DEF LookOther, TypeOK, history
  <2>14. disk' \in [Names -> Files] /\ survive' \in [Names -> SUBSET Files]
    BY <1>10, <2>1, <2>10, PutType, SyncType, NewVersion DEF LookOther, TypeOK, storeVars, Audio
  <2>15. day' \in {"absent", "made", "durable"} /\ errors' \in 0 .. MaxErrors
    BY <1>10, <2>1, <2>10, PutType DEF LookOther, TypeOK, storeVars
  <2> QED
    BY <1>10, <2>1, <2>11, <2>12, <2>13, <2>14, <2>15 DEF TypeOK, faults
<1>11. ASSUME NEW w \in Workers, LookNone(w), UNCHANGED faults
      PROVE  TypeOK'
  <2>1. req[w] # Idle /\ req[w] \in Requests
    BY <1>11, Active DEF LookNone, PCs
  <2>10. Name(w) \in Names /\ Data(w) \in Contents /\ File(w) \in Files
    BY <2>1, Parts
  <2>11. req' \in [Workers -> {Idle} \cup Requests]
    BY <1>11, <2>1, <2>10, RefuseType, StoredType DEF LookNone, TypeOK, Goto, Requests, PCs
  <2>12. holder' \in [Names -> Workers \cup {None}]
    BY <1>11, <2>1, <2>10, RefuseType, StoredType DEF LookNone, TypeOK
  <2>13. /\ promise' \in [Names -> Contents \cup {None}] /\ vouched' \in [Names -> Contents \cup {None}]
        /\ timed' \in [Names -> BOOLEAN] /\ spoiled' \in [Names -> BOOLEAN]
    BY <1>11, <2>1, <2>10, RefuseType, StoredType DEF LookNone, TypeOK, history
  <2>14. disk' \in [Names -> Files] /\ survive' \in [Names -> SUBSET Files]
    BY <1>11, <2>1, <2>10, PutType, SyncType, NewVersion DEF LookNone, TypeOK, storeVars, Audio
  <2>15. day' \in {"absent", "made", "durable"} /\ errors' \in 0 .. MaxErrors
    BY <1>11, <2>1, <2>10, PutType DEF LookNone, TypeOK, storeVars
  <2> QED
    BY <1>11, <2>1, <2>11, <2>12, <2>13, <2>14, <2>15 DEF TypeOK, faults
<1>12. ASSUME NEW w \in Workers, LookFails(w), UNCHANGED faults
      PROVE  TypeOK'
  <2>1. req[w] # Idle /\ req[w] \in Requests
    BY <1>12, Active DEF LookFails, PCs
  <2> QED
    BY <1>12, <2>1, FailStep DEF LookFails
<1>13. ASSUME NEW w \in Workers, HeldSide(w), UNCHANGED faults
      PROVE  TypeOK'
  <2>1. req[w] # Idle /\ req[w] \in Requests
    BY <1>13, Active DEF HeldSide, PCs
  <2>2. CASE Fail(w)
    BY <1>13, <2>1, <2>2, FailStep
  <2>3. CASE ~Fail(w)
    <3>10. Name(w) \in Names /\ Data(w) \in Contents /\ File(w) \in Files
      BY <2>1, Parts
    <3>11. req' \in [Workers -> {Idle} \cup Requests]
      BY <1>13, <2>1, <2>3, <3>10, RefuseType, StoredType DEF HeldSide, TypeOK, Goto, Requests, PCs
    <3>12. holder' \in [Names -> Workers \cup {None}]
      BY <1>13, <2>1, <2>3, <3>10, RefuseType, StoredType DEF HeldSide, TypeOK
    <3>13. /\ promise' \in [Names -> Contents \cup {None}] /\ vouched' \in [Names -> Contents \cup {None}]
          /\ timed' \in [Names -> BOOLEAN] /\ spoiled' \in [Names -> BOOLEAN]
      BY <1>13, <2>1, <2>3, <3>10, RefuseType, StoredType DEF HeldSide, TypeOK, history
    <3>14. disk' \in [Names -> Files] /\ survive' \in [Names -> SUBSET Files]
      BY <1>13, <2>1, <2>3, <3>10, PutType, SyncType, NewVersion DEF HeldSide, TypeOK, storeVars, Audio
    <3>15. day' \in {"absent", "made", "durable"} /\ errors' \in 0 .. MaxErrors
      BY <1>13, <2>1, <2>3, <3>10, PutType DEF HeldSide, TypeOK, storeVars, Put
    <3> QED
      BY <1>13, <2>1, <2>3, <3>11, <3>12, <3>13, <3>14, <3>15 DEF TypeOK, faults
  <2> QED
    BY <2>2, <2>3
<1>14. ASSUME NEW w \in Workers, Quarantine(w), UNCHANGED faults
      PROVE  TypeOK'
  <2>1. req[w] # Idle /\ req[w] \in Requests
    BY <1>14, Active DEF Quarantine, PCs
  <2>2. CASE Fail(w)
    BY <1>14, <2>1, <2>2, FailStep
  <2>3. CASE ~Fail(w)
    <3>10. Name(w) \in Names /\ Data(w) \in Contents /\ File(w) \in Files
      BY <2>1, Parts
    <3>11. req' \in [Workers -> {Idle} \cup Requests]
      BY <1>14, <2>1, <2>3, <3>10, RefuseType, StoredType DEF Quarantine, TypeOK, Goto, Requests, PCs
    <3>12. holder' \in [Names -> Workers \cup {None}]
      BY <1>14, <2>1, <2>3, <3>10, RefuseType, StoredType DEF Quarantine, TypeOK
    <3>13. /\ promise' \in [Names -> Contents \cup {None}] /\ vouched' \in [Names -> Contents \cup {None}]
          /\ timed' \in [Names -> BOOLEAN] /\ spoiled' \in [Names -> BOOLEAN]
      <4>1. CASE Renounce(Name(w))
        BY <4>1, <3>10 DEF Renounce, TypeOK
      <4>2. CASE Refuse(w)
        BY <4>2, <2>1, RefuseType DEF TypeOK
      <4> QED
        BY <1>14, <2>3, <4>1, <4>2 DEF Quarantine
    <3>14. disk' \in [Names -> Files] /\ survive' \in [Names -> SUBSET Files]
      BY <1>14, <2>1, <2>3, <3>10, PutType, SyncType, NewVersion DEF Quarantine, TypeOK, storeVars, Audio
    <3>15. day' \in {"absent", "made", "durable"} /\ errors' \in 0 .. MaxErrors
      BY <1>14, <2>1, <2>3, <3>10, PutType DEF Quarantine, TypeOK, storeVars, Put
    <3> QED
      BY <1>14, <2>1, <2>3, <3>11, <3>12, <3>13, <3>14, <3>15 DEF TypeOK, faults
  <2> QED
    BY <2>2, <2>3
<1>15. ASSUME NEW w \in Workers, SyncAside(w), UNCHANGED faults
      PROVE  TypeOK'
  <2>1. req[w] # Idle /\ req[w] \in Requests
    BY <1>15, Active DEF SyncAside, PCs
  <2>2. CASE Fail(w)
    BY <1>15, <2>1, <2>2, FailStep
  <2>3. CASE ~Fail(w)
    <3>10. Name(w) \in Names /\ Data(w) \in Contents /\ File(w) \in Files
      BY <2>1, Parts
    <3>11. req' \in [Workers -> {Idle} \cup Requests]
      BY <1>15, <2>1, <2>3, <3>10, RefuseType, StoredType DEF SyncAside, TypeOK, Goto, Requests, PCs
    <3>12. holder' \in [Names -> Workers \cup {None}]
      BY <1>15, <2>1, <2>3, <3>10, RefuseType, StoredType DEF SyncAside, TypeOK
    <3>13. /\ promise' \in [Names -> Contents \cup {None}] /\ vouched' \in [Names -> Contents \cup {None}]
          /\ timed' \in [Names -> BOOLEAN] /\ spoiled' \in [Names -> BOOLEAN]
      BY <1>15, <2>1, <2>3, <3>10, RefuseType, StoredType DEF SyncAside, TypeOK, history
    <3>14. disk' \in [Names -> Files] /\ survive' \in [Names -> SUBSET Files]
      BY <1>15, <2>1, <2>3, <3>10, PutType, SyncType, NewVersion DEF SyncAside, TypeOK, storeVars, Audio
    <3>15. day' \in {"absent", "made", "durable"} /\ errors' \in 0 .. MaxErrors
      BY <1>15, <2>1, <2>3, <3>10, PutType DEF SyncAside, TypeOK, storeVars
    <3> QED
      BY <1>15, <2>1, <2>3, <3>11, <3>12, <3>13, <3>14, <3>15 DEF TypeOK, faults
  <2> QED
    BY <2>2, <2>3
<1>16. ASSUME NEW w \in Workers, RemoveStale(w), UNCHANGED faults
      PROVE  TypeOK'
  <2>1. req[w] # Idle /\ req[w] \in Requests
    BY <1>16, Active DEF RemoveStale, PCs
  <2>2. CASE Fail(w)
    BY <1>16, <2>1, <2>2, FailStep
  <2>3. CASE ~Fail(w)
    <3>10. Name(w) \in Names /\ Data(w) \in Contents /\ File(w) \in Files
      BY <2>1, Parts
    <3>11. req' \in [Workers -> {Idle} \cup Requests]
      BY <1>16, <2>1, <2>3, <3>10, RefuseType, StoredType DEF RemoveStale, TypeOK, Goto, Requests, PCs
    <3>12. holder' \in [Names -> Workers \cup {None}]
      BY <1>16, <2>1, <2>3, <3>10, RefuseType, StoredType DEF RemoveStale, TypeOK
    <3>13. /\ promise' \in [Names -> Contents \cup {None}] /\ vouched' \in [Names -> Contents \cup {None}]
          /\ timed' \in [Names -> BOOLEAN] /\ spoiled' \in [Names -> BOOLEAN]
      BY <1>16, <2>1, <2>3, <3>10, RefuseType, StoredType DEF RemoveStale, TypeOK, history
    <3>14. disk' \in [Names -> Files] /\ survive' \in [Names -> SUBSET Files]
      BY <1>16, <2>1, <2>3, <3>10, PutType, SyncType, NewVersion DEF RemoveStale, TypeOK, storeVars, Audio
    <3>15. day' \in {"absent", "made", "durable"} /\ errors' \in 0 .. MaxErrors
      BY <1>16, <2>1, <2>3, <3>10, PutType DEF RemoveStale, TypeOK, storeVars, Put
    <3> QED
      BY <1>16, <2>1, <2>3, <3>11, <3>12, <3>13, <3>14, <3>15 DEF TypeOK, faults
  <2> QED
    BY <2>2, <2>3
<1>17. ASSUME NEW w \in Workers, WriteSide(w), UNCHANGED faults
      PROVE  TypeOK'
  <2>1. req[w] # Idle /\ req[w] \in Requests
    BY <1>17, Active DEF WriteSide, PCs
  <2>2. CASE Fail(w)
    BY <1>17, <2>1, <2>2, FailStep
  <2>3. CASE ~Fail(w)
    <3>10. Name(w) \in Names /\ Data(w) \in Contents /\ File(w) \in Files
      BY <2>1, Parts
    <3>11. req' \in [Workers -> {Idle} \cup Requests]
      BY <1>17, <2>1, <2>3, <3>10, RefuseType, StoredType DEF WriteSide, TypeOK, Goto, Requests, PCs
    <3>12. holder' \in [Names -> Workers \cup {None}]
      BY <1>17, <2>1, <2>3, <3>10, RefuseType, StoredType DEF WriteSide, TypeOK
    <3>13. /\ promise' \in [Names -> Contents \cup {None}] /\ vouched' \in [Names -> Contents \cup {None}]
          /\ timed' \in [Names -> BOOLEAN] /\ spoiled' \in [Names -> BOOLEAN]
      BY <1>17, <2>1, <2>3, <3>10, RefuseType, StoredType DEF WriteSide, TypeOK, history
    <3>14. disk' \in [Names -> Files] /\ survive' \in [Names -> SUBSET Files]
      BY <1>17, <2>1, <2>3, <3>10, PutType, SyncType, NewVersion DEF WriteSide, TypeOK, storeVars, Audio
    <3>15. day' \in {"absent", "made", "durable"} /\ errors' \in 0 .. MaxErrors
      BY <1>17, <2>1, <2>3, <3>10, PutType DEF WriteSide, TypeOK, storeVars, Put
    <3> QED
      BY <1>17, <2>1, <2>3, <3>11, <3>12, <3>13, <3>14, <3>15 DEF TypeOK, faults
  <2> QED
    BY <2>2, <2>3
<1>18. ASSUME NEW w \in Workers, WriteTemp(w), UNCHANGED faults
      PROVE  TypeOK'
  <2>1. req[w] # Idle /\ req[w] \in Requests
    BY <1>18, Active DEF WriteTemp, PCs
  <2>2. CASE Fail(w)
    BY <1>18, <2>1, <2>2, FailStep
  <2>3. CASE ~Fail(w)
    <3>10. Name(w) \in Names /\ Data(w) \in Contents /\ File(w) \in Files
      BY <2>1, Parts
    <3>11. req' \in [Workers -> {Idle} \cup Requests]
      BY <1>18, <2>1, <2>3, <3>10, RefuseType, StoredType DEF WriteTemp, TypeOK, Goto, Requests, PCs
    <3>12. holder' \in [Names -> Workers \cup {None}]
      BY <1>18, <2>1, <2>3, <3>10, RefuseType, StoredType DEF WriteTemp, TypeOK
    <3>13. /\ promise' \in [Names -> Contents \cup {None}] /\ vouched' \in [Names -> Contents \cup {None}]
          /\ timed' \in [Names -> BOOLEAN] /\ spoiled' \in [Names -> BOOLEAN]
      BY <1>18, <2>1, <2>3, <3>10, RefuseType, StoredType DEF WriteTemp, TypeOK, history
    <3>14. disk' \in [Names -> Files] /\ survive' \in [Names -> SUBSET Files]
      BY <1>18, <2>1, <2>3, <3>10, PutType, SyncType, NewVersion DEF WriteTemp, TypeOK, storeVars, Audio
    <3>15. day' \in {"absent", "made", "durable"} /\ errors' \in 0 .. MaxErrors
      BY <1>18, <2>1, <2>3, <3>10, PutType DEF WriteTemp, TypeOK, storeVars
    <3> QED
      BY <1>18, <2>1, <2>3, <3>11, <3>12, <3>13, <3>14, <3>15 DEF TypeOK, faults
  <2> QED
    BY <2>2, <2>3
<1>19. ASSUME NEW w \in Workers, Link(w), UNCHANGED faults
      PROVE  TypeOK'
  <2>1. req[w] # Idle /\ req[w] \in Requests
    BY <1>19, Active DEF Link, PCs
  <2>2. CASE Fail(w)
    BY <1>19, <2>1, <2>2, FailStep
  <2>3. CASE ~Fail(w)
    <3>10. Name(w) \in Names /\ Data(w) \in Contents /\ File(w) \in Files
      BY <2>1, Parts
    <3>11. req' \in [Workers -> {Idle} \cup Requests]
      BY <1>19, <2>1, <2>3, <3>10, RefuseType, StoredType DEF Link, TypeOK, Goto, Requests, PCs
    <3>12. holder' \in [Names -> Workers \cup {None}]
      BY <1>19, <2>1, <2>3, <3>10, RefuseType, StoredType DEF Link, TypeOK
    <3>13. /\ promise' \in [Names -> Contents \cup {None}] /\ vouched' \in [Names -> Contents \cup {None}]
          /\ timed' \in [Names -> BOOLEAN] /\ spoiled' \in [Names -> BOOLEAN]
      BY <1>19, <2>1, <2>3, <3>10, RefuseType, StoredType DEF Link, TypeOK, history
    <3>16. \A a \in {Data(w), Torn} : [File(w) EXCEPT !.audio = a] \in Files
      BY <3>10, NewVersion DEF Audio
    <3>17. {[File(w) EXCEPT !.audio = a] : a \in AfterPowerLoss(w)} \subseteq Files
      BY <3>16 DEF AfterPowerLoss
    <3>14. disk' \in [Names -> Files] /\ survive' \in [Names -> SUBSET Files]
      <4>1. /\ disk' = [disk EXCEPT ![Name(w)] = [File(w) EXCEPT !.audio = Data(w)]]
            /\ survive' = [survive EXCEPT ![Name(w)] =
                 @ \cup {[File(w) EXCEPT !.audio = a] : a \in AfterPowerLoss(w)}]
        BY <1>19, <2>3 DEF Link
      <4> QED
        BY <4>1, <3>10, <3>16, <3>17 DEF TypeOK
    <3>15. day' \in {"absent", "made", "durable"} /\ errors' \in 0 .. MaxErrors
      BY <1>19, <2>1, <2>3, <3>10, PutType DEF Link, TypeOK, storeVars
    <3> QED
      BY <1>19, <2>1, <2>3, <3>11, <3>12, <3>13, <3>14, <3>15 DEF TypeOK, faults
  <2> QED
    BY <2>2, <2>3
<1>20. ASSUME NEW w \in Workers, LinkLost(w), UNCHANGED faults
      PROVE  TypeOK'
  <2>1. req[w] # Idle /\ req[w] \in Requests
    BY <1>20, Active DEF LinkLost, PCs
  <2>10. Name(w) \in Names /\ Data(w) \in Contents /\ File(w) \in Files
    BY <2>1, Parts
  <2>11. req' \in [Workers -> {Idle} \cup Requests]
    BY <1>20, <2>1, <2>10, RefuseType, StoredType DEF LinkLost, TypeOK, Goto, Requests, PCs
  <2>12. holder' \in [Names -> Workers \cup {None}]
    BY <1>20, <2>1, <2>10, RefuseType, StoredType DEF LinkLost, TypeOK
  <2>13. /\ promise' \in [Names -> Contents \cup {None}] /\ vouched' \in [Names -> Contents \cup {None}]
        /\ timed' \in [Names -> BOOLEAN] /\ spoiled' \in [Names -> BOOLEAN]
    BY <1>20, <2>1, <2>10, RefuseType, StoredType DEF LinkLost, TypeOK, history
  <2>14. disk' \in [Names -> Files] /\ survive' \in [Names -> SUBSET Files]
    BY <1>20, <2>1, <2>10, PutType, SyncType, NewVersion DEF LinkLost, TypeOK, storeVars, Audio
  <2>15. day' \in {"absent", "made", "durable"} /\ errors' \in 0 .. MaxErrors
    BY <1>20, <2>1, <2>10, PutType DEF LinkLost, TypeOK, storeVars
  <2> QED
    BY <1>20, <2>1, <2>11, <2>12, <2>13, <2>14, <2>15 DEF TypeOK, faults
<1>21. ASSUME NEW w \in Workers, SyncLink(w), UNCHANGED faults
      PROVE  TypeOK'
  <2>1. req[w] # Idle /\ req[w] \in Requests
    BY <1>21, Active DEF SyncLink, PCs
  <2>2. CASE Fail(w)
    BY <1>21, <2>1, <2>2, FailStep
  <2>3. CASE ~Fail(w)
    <3>10. Name(w) \in Names /\ Data(w) \in Contents /\ File(w) \in Files
      BY <2>1, Parts
    <3>11. req' \in [Workers -> {Idle} \cup Requests]
      BY <1>21, <2>1, <2>3, <3>10, RefuseType, StoredType DEF SyncLink, TypeOK, Goto, Requests, PCs
    <3>12. holder' \in [Names -> Workers \cup {None}]
      BY <1>21, <2>1, <2>3, <3>10, RefuseType, StoredType DEF SyncLink, TypeOK
    <3>13. /\ promise' \in [Names -> Contents \cup {None}] /\ vouched' \in [Names -> Contents \cup {None}]
          /\ timed' \in [Names -> BOOLEAN] /\ spoiled' \in [Names -> BOOLEAN]
      BY <1>21, <2>1, <2>3, <3>10, RefuseType, StoredType DEF SyncLink, TypeOK, history
    <3>14. disk' \in [Names -> Files] /\ survive' \in [Names -> SUBSET Files]
      BY <1>21, <2>1, <2>3, <3>10, PutType, SyncType, NewVersion DEF SyncLink, TypeOK, storeVars, Audio
    <3>15. day' \in {"absent", "made", "durable"} /\ errors' \in 0 .. MaxErrors
      BY <1>21, <2>1, <2>3, <3>10, PutType DEF SyncLink, TypeOK, storeVars
    <3> QED
      BY <1>21, <2>1, <2>3, <3>11, <3>12, <3>13, <3>14, <3>15 DEF TypeOK, faults
  <2> QED
    BY <2>2, <2>3
<1>22. ASSUME NEW w \in Workers, ReadBack(w), UNCHANGED faults
      PROVE  TypeOK'
  <2>1. req[w] # Idle /\ req[w] \in Requests
    BY <1>22, Active DEF ReadBack, PCs
  <2>2. CASE Fail(w)
    BY <1>22, <2>1, <2>2, FailStep
  <2>3. CASE ~Fail(w)
    <3>10. Name(w) \in Names /\ Data(w) \in Contents /\ File(w) \in Files
      BY <2>1, Parts
    <3>11. req' \in [Workers -> {Idle} \cup Requests]
      BY <1>22, <2>1, <2>3, <3>10, RefuseType, StoredType DEF ReadBack, TypeOK, Goto, Requests, PCs
    <3>12. holder' \in [Names -> Workers \cup {None}]
      BY <1>22, <2>1, <2>3, <3>10, RefuseType, StoredType DEF ReadBack, TypeOK
    <3>13. /\ promise' \in [Names -> Contents \cup {None}] /\ vouched' \in [Names -> Contents \cup {None}]
          /\ timed' \in [Names -> BOOLEAN] /\ spoiled' \in [Names -> BOOLEAN]
      BY <1>22, <2>1, <2>3, <3>10, RefuseType, StoredType DEF ReadBack, TypeOK, history
    <3>14. disk' \in [Names -> Files] /\ survive' \in [Names -> SUBSET Files]
      BY <1>22, <2>1, <2>3, <3>10, PutType, SyncType, NewVersion DEF ReadBack, TypeOK, storeVars, Audio
    <3>15. day' \in {"absent", "made", "durable"} /\ errors' \in 0 .. MaxErrors
      BY <1>22, <2>1, <2>3, <3>10, PutType DEF ReadBack, TypeOK, storeVars
    <3> QED
      BY <1>22, <2>1, <2>3, <3>11, <3>12, <3>13, <3>14, <3>15 DEF TypeOK, faults
  <2> QED
    BY <2>2, <2>3
<1>23. ASSUME NEW w \in Workers, WriteProof(w), UNCHANGED faults
      PROVE  TypeOK'
  <2>1. req[w] # Idle /\ req[w] \in Requests
    BY <1>23, Active DEF WriteProof, PCs
  <2>2. CASE Fail(w)
    BY <1>23, <2>1, <2>2, FailStep
  <2>3. CASE ~Fail(w)
    <3>10. Name(w) \in Names /\ Data(w) \in Contents /\ File(w) \in Files
      BY <2>1, Parts
    <3>11. req' \in [Workers -> {Idle} \cup Requests]
      BY <1>23, <2>1, <2>3, <3>10, RefuseType, StoredType DEF WriteProof, TypeOK, Goto, Requests, PCs
    <3>12. holder' \in [Names -> Workers \cup {None}]
      BY <1>23, <2>1, <2>3, <3>10, RefuseType, StoredType DEF WriteProof, TypeOK
    <3>13. /\ promise' \in [Names -> Contents \cup {None}] /\ vouched' \in [Names -> Contents \cup {None}]
          /\ timed' \in [Names -> BOOLEAN] /\ spoiled' \in [Names -> BOOLEAN]
      BY <1>23, <2>1, <2>3, <3>10, RefuseType, StoredType DEF WriteProof, TypeOK, history
    <3>14. disk' \in [Names -> Files] /\ survive' \in [Names -> SUBSET Files]
      BY <1>23, <2>1, <2>3, <3>10, PutType, SyncType, NewVersion DEF WriteProof, TypeOK, storeVars, Audio
    <3>15. day' \in {"absent", "made", "durable"} /\ errors' \in 0 .. MaxErrors
      BY <1>23, <2>1, <2>3, <3>10, PutType DEF WriteProof, TypeOK, storeVars, Put
    <3> QED
      BY <1>23, <2>1, <2>3, <3>11, <3>12, <3>13, <3>14, <3>15 DEF TypeOK, faults
  <2> QED
    BY <2>2, <2>3
<1>24. ASSUME NEW w \in Workers, SyncProof(w), UNCHANGED faults
      PROVE  TypeOK'
  <2>1. req[w] # Idle /\ req[w] \in Requests
    BY <1>24, Active DEF SyncProof, PCs
  <2>2. CASE Fail(w)
    BY <1>24, <2>1, <2>2, FailStep
  <2>3. CASE ~Fail(w)
    <3>10. Name(w) \in Names /\ Data(w) \in Contents /\ File(w) \in Files
      BY <2>1, Parts
    <3>11. req' \in [Workers -> {Idle} \cup Requests]
      BY <1>24, <2>1, <2>3, <3>10, RefuseType, StoredType DEF SyncProof, TypeOK, Goto, Requests, PCs
    <3>12. holder' \in [Names -> Workers \cup {None}]
      BY <1>24, <2>1, <2>3, <3>10, RefuseType, StoredType DEF SyncProof, TypeOK
    <3>13. /\ promise' \in [Names -> Contents \cup {None}] /\ vouched' \in [Names -> Contents \cup {None}]
          /\ timed' \in [Names -> BOOLEAN] /\ spoiled' \in [Names -> BOOLEAN]
      BY <1>24, <2>1, <2>3, <3>10, RefuseType, StoredType DEF SyncProof, TypeOK, history
    <3>14. disk' \in [Names -> Files] /\ survive' \in [Names -> SUBSET Files]
      BY <1>24, <2>1, <2>3, <3>10, PutType, SyncType, NewVersion DEF SyncProof, TypeOK, storeVars, Audio
    <3>15. day' \in {"absent", "made", "durable"} /\ errors' \in 0 .. MaxErrors
      BY <1>24, <2>1, <2>3, <3>10, PutType DEF SyncProof, TypeOK, storeVars
    <3> QED
      BY <1>24, <2>1, <2>3, <3>11, <3>12, <3>13, <3>14, <3>15 DEF TypeOK, faults
  <2> QED
    BY <2>2, <2>3
<1>25. ASSUME NEW w \in Workers, PersistChain(w), UNCHANGED faults
      PROVE  TypeOK'
  <2>1. req[w] # Idle /\ req[w] \in Requests
    BY <1>25, Active DEF PersistChain, PCs
  <2>2. CASE Fail(w)
    BY <1>25, <2>1, <2>2, FailStep
  <2>3. CASE ~Fail(w)
    <3>10. Name(w) \in Names /\ Data(w) \in Contents /\ File(w) \in Files
      BY <2>1, Parts
    <3>11. req' \in [Workers -> {Idle} \cup Requests]
      BY <1>25, <2>1, <2>3, <3>10, RefuseType, StoredType DEF PersistChain, TypeOK, Goto, Requests, PCs
    <3>12. holder' \in [Names -> Workers \cup {None}]
      BY <1>25, <2>1, <2>3, <3>10, RefuseType, StoredType DEF PersistChain, TypeOK
    <3>13. /\ promise' \in [Names -> Contents \cup {None}] /\ vouched' \in [Names -> Contents \cup {None}]
          /\ timed' \in [Names -> BOOLEAN] /\ spoiled' \in [Names -> BOOLEAN]
      BY <1>25, <2>1, <2>3, <3>10, RefuseType, StoredType DEF PersistChain, TypeOK, history
    <3>14. disk' \in [Names -> Files] /\ survive' \in [Names -> SUBSET Files]
      BY <1>25, <2>1, <2>3, <3>10, PutType, SyncType, NewVersion DEF PersistChain, TypeOK, storeVars, Audio, PersistEffect
    <3>15. day' \in {"absent", "made", "durable"} /\ errors' \in 0 .. MaxErrors
      BY <1>25, <2>1, <2>3, <3>10, PutType DEF PersistChain, TypeOK, storeVars, PersistEffect
    <3> QED
      BY <1>25, <2>1, <2>3, <3>11, <3>12, <3>13, <3>14, <3>15 DEF TypeOK, faults
  <2> QED
    BY <2>2, <2>3
<1>26. ASSUME NEW w \in Workers, Cleanup(w), UNCHANGED faults
      PROVE  TypeOK'
  <2>1. req[w] # Idle /\ req[w] \in Requests
    BY <1>26, Active DEF Cleanup, PCs
  <2>10. Name(w) \in Names /\ Data(w) \in Contents /\ File(w) \in Files
    BY <2>1, Parts
  <2>11. req' \in [Workers -> {Idle} \cup Requests]
    BY <1>26, <2>1, <2>10, RefuseType, StoredType DEF Cleanup, TypeOK, Goto, Requests, PCs
  <2>12. holder' \in [Names -> Workers \cup {None}]
    BY <1>26, <2>1, <2>10, RefuseType, StoredType DEF Cleanup, TypeOK
  <2>13. /\ promise' \in [Names -> Contents \cup {None}] /\ vouched' \in [Names -> Contents \cup {None}]
        /\ timed' \in [Names -> BOOLEAN] /\ spoiled' \in [Names -> BOOLEAN]
    BY <1>26, <2>1, <2>10, RefuseType, StoredType DEF Cleanup, TypeOK, history
  <2>16. \A f \in Unlinked(w) : f \in Files /\ \A g \in SideDropped(w, f) : g \in Files
    <3>1. None \in Audio /\ None \in Contents \cup {None}
      BY DEF Audio
    <3>2. \A f \in Unlinked(w) : f \in Files
      BY <2>10, <3>1, NewVersion DEF Unlinked
    <3>3. \A f \in Files : SideDropped(w, f) \subseteq Files
      BY <3>1, NewVersion DEF SideDropped
    <3> QED
      BY <3>2, <3>3
  <2>14. disk' \in [Names -> Files] /\ survive' \in [Names -> SUBSET Files]
    <3>1. PICK f \in Unlinked(w) : \E g \in SideDropped(w, f) :
            /\ disk' = [disk EXCEPT ![Name(w)] = g]
            /\ \/ survive' = [survive EXCEPT ![Name(w)] = @ \cup {f, g}]
               \/ survive' = [n \in Names |-> IF n = Name(w) THEN {f, g} ELSE {disk[n]}]
      BY <1>26 DEF Cleanup
    <3>2. PICK g \in SideDropped(w, f) :
            /\ disk' = [disk EXCEPT ![Name(w)] = g]
            /\ \/ survive' = [survive EXCEPT ![Name(w)] = @ \cup {f, g}]
               \/ survive' = [n \in Names |-> IF n = Name(w) THEN {f, g} ELSE {disk[n]}]
      BY <3>1
    <3>3. f \in Files /\ g \in Files
      BY <2>16, <3>1, <3>2
    <3> QED
      BY <3>2, <3>3, <2>10 DEF TypeOK
  <2>15. day' \in {"absent", "made", "durable"} /\ errors' \in 0 .. MaxErrors
    BY <1>26, <2>1, <2>10, PutType DEF Cleanup, TypeOK, storeVars
  <2> QED
    BY <1>26, <2>1, <2>11, <2>12, <2>13, <2>14, <2>15 DEF TypeOK, faults
<1>27. ASSUME NEW w \in Workers, CleanupFails(w), UNCHANGED faults
      PROVE  TypeOK'
  <2>1. req[w] # Idle /\ req[w] \in Requests
    BY <1>27, Active DEF CleanupFails, PCs
  <2>2. errors' \in 0 .. MaxErrors
    BY <1>27, ConstantsAssumption DEF CleanupFails, TypeOK
  <2> QED
    BY <1>27, <2>1, <2>2, RefuseStep DEF CleanupFails
<1>28. ASSUME NEW n \in Names, NEW c \in Contents, Have(n, c), UNCHANGED faults
       PROVE  TypeOK'
  BY <1>28 DEF Have, TypeOK, faults, storeVars
<1>29. ASSUME Restarted
       PROVE  /\ req' \in [Workers -> {Idle} \cup Requests]
              /\ holder' \in [Names -> Workers \cup {None}]
              /\ promise' \in [Names -> Contents \cup {None}]
              /\ timed' \in [Names -> BOOLEAN] /\ spoiled' \in [Names -> BOOLEAN]
              /\ crashes' \in 0 .. MaxCrashes /\ damages' \in 0 .. MaxDamage
              /\ errors' \in 0 .. MaxErrors
  BY <1>29, ConstantsAssumption DEF Restarted, TypeOK
<1>30. CASE Kill
  BY <1>29, <1>30 DEF Kill, TypeOK, storeVars
<1>31. CASE PowerLoss
  <2>1. vouched' \in [Names -> Contents \cup {None}] /\ day' \in {"absent", "made", "durable"}
    BY <1>31 DEF PowerLoss, TypeOK
  <2>2. disk' \in [Names -> Files] /\ survive' \in [Names -> SUBSET Files]
    <3>1. NoFiles \in Files
      BY DEF NoFiles, Files, Audio
    <3>2. CASE \E left \in [Names -> UNION {survive[n] : n \in Names}] :
                 /\ \A n \in Names : left[n] \in survive[n]
                 /\ disk' = left
                 /\ survive' = [n \in Names |-> {left[n]}]
      BY <3>2 DEF TypeOK
    <3>3. CASE disk' = [n \in Names |-> NoFiles] /\ survive' = [n \in Names |-> {NoFiles}]
      BY <3>1, <3>3
    <3> QED
      BY <1>31, <3>2, <3>3 DEF PowerLoss
  <2> QED
    BY <1>29, <1>31, <2>1, <2>2 DEF PowerLoss, TypeOK
<1>32. ASSUME NEW n \in Names, NEW a \in {None, Rot}, DamageTo(n, a),
              promise' \in [Names -> Contents \cup {None}], spoiled' \in [Names -> BOOLEAN],
              timed' = timed
       PROVE  TypeOK'
  <2>1. a \in Audio
    BY DEF Audio
  <2>2. disk' \in [Names -> Files]
    BY <1>32, <2>1, NewVersion DEF DamageTo, TypeOK
  <2>3. \A f \in survive[n] : (IF f.audio = disk[n].audio THEN [f EXCEPT !.audio = a] ELSE f) \in Files
    BY <2>1, NewVersion DEF TypeOK
  <2>4. survive' \in [Names -> SUBSET Files]
    BY <1>32, <2>3 DEF DamageTo, TypeOK
  <2>5. req' \in [Workers -> {Idle} \cup Requests]
    <3>1. \A r \in Requests : [r EXCEPT !.sound = FALSE] \in Requests
      BY DEF Requests
    <3> QED
      BY <1>32, <3>1 DEF DamageTo, TypeOK
  <2> QED
    BY <1>32, <2>2, <2>4, <2>5, ConstantsAssumption DEF DamageTo, TypeOK
<1>33. ASSUME NEW n \in Names, Decay(n)
       PROVE  TypeOK'
  <2>1. spoiled' \in [Names -> BOOLEAN] /\ promise' \in [Names -> Contents \cup {None}]
    BY <1>33 DEF Decay, TypeOK
  <2> QED
    BY <1>32, <1>33, <2>1 DEF Decay
<1>34. ASSUME NEW n \in Names, TakeAway(n)
       PROVE  TypeOK'
  <2>1. spoiled' \in [Names -> BOOLEAN] /\ promise' \in [Names -> Contents \cup {None}]
    BY <1>34 DEF TakeAway, TypeOK
  <2> QED
    BY <1>32, <1>34, <2>1 DEF TakeAway
<1>35. CASE UNCHANGED vars
  BY <1>35 DEF vars, TypeOK
<1> QED
  BY <1>1, <1>2, <1>3, <1>4, <1>5, <1>6, <1>7, <1>8, <1>9, <1>10, <1>11, <1>12, <1>13, <1>14, <1>15, <1>16, <1>17, <1>18, <1>19, <1>20, <1>21, <1>22, <1>23, <1>24, <1>25, <1>26, <1>27, <1>28, <1>30, <1>31, <1>33, <1>34, <1>35 DEF Next, RequestStep, HaveStep

(***************************************************************************)
(* Every variable keeps its type, for any names, contents and slots.       *)
(***************************************************************************)
THEOREM TypeCorrect == Spec => []TypeOK
<1>1. Init => TypeOK
  BY InitTypes
<1>2. TypeOK /\ [Next]_vars => TypeOK'
  BY TypeStays
<1>3. QED
  BY <1>1, <1>2, PTL DEF Spec

\* A request links its temp file only with the data on the disk, whatever locks there are.
FlushedFirst == \A w \in Workers : req[w].pc = "link" => req[w].flushed

\* What a step may put into slot w keeps it so.
LEMMA FlushedSlot ==
  ASSUME TypeOK, FlushedFirst, NEW w \in Workers,
         NEW r, req' = [req EXCEPT ![w] = r], r.pc = "link" => r.flushed
  PROVE  FlushedFirst'
BY DEF TypeOK, FlushedFirst

LEMMA FlushedEnds ==
  ASSUME TypeOK, FlushedFirst, NEW w \in Workers, Refuse(w) \/ AnswerStored(w)
  PROVE  FlushedFirst'
BY FlushedSlot DEF Refuse, AnswerStored, Idle

LEMMA FlushedFails ==
  ASSUME TypeOK, FlushedFirst, NEW w \in Workers, req[w] \in Requests, Fail(w)
  PROVE  FlushedFirst'
<1>1. CASE req[w].trying
  <2>1. req'[w].pc # "link" /\ \A v \in Workers \ {w} : req'[v] = req[v]
    BY <1>1 DEF Fail, Requests, TypeOK
  <2> QED
    BY <2>1 DEF FlushedFirst
<1>2. CASE ~req[w].trying
  BY <1>2, FlushedEnds DEF Fail
<1> QED
  BY <1>1, <1>2

LEMMA FlushedGoes ==
  ASSUME TypeOK, FlushedFirst, NEW w \in Workers, req[w] \in Requests,
         NEW pc, pc # "link", Goto(w, pc)
  PROVE  FlushedFirst'
<1>1. [req[w] EXCEPT !.pc = pc].pc # "link"
  BY DEF Requests
<1> QED
  BY <1>1, FlushedSlot DEF Goto

LEMMA FlushedStays ==
  ASSUME TypeOK, FlushedFirst, [Next]_vars
  PROVE  FlushedFirst'
<1>1. ASSUME NEW w \in Workers, NEW n \in Names, NEW c \in Contents, NEW m \in Sidecars,
             Start(w, n, c, m)
      PROVE  FlushedFirst'
  BY <1>1, FlushedSlot DEF Start
<1>2. ASSUME NEW w \in Workers, Abandon(w)
      PROVE  FlushedFirst'
  BY <1>2 DEF Abandon, TypeOK, FlushedFirst, Requests
<1>3. ASSUME NEW w \in Workers, req[w] \in Requests,
             \/ BodyRejected(w) \/ Lock(w) \/ FloorRejected(w) \/ Floor(w)
             \/ MakeDay(w) \/ SyncParent(w) \/ LookOther(w) \/ LookFails(w)
             \/ HeldSide(w) \/ Quarantine(w) \/ RemoveStale(w)
      PROVE  FlushedFirst'
  <2>1. Fail(w) \/ Refuse(w) \/ req' = [req EXCEPT ![w] = Idle] \/ req' = req
        \/ \E pc \in PCs \ {"link"} : Goto(w, pc)
    BY <1>3 DEF BodyRejected, Lock, FloorRejected, Floor, MakeDay, SyncParent, LookOther, LookFails,
       HeldSide, Quarantine, RemoveStale, PCs
  <2>2. Idle.pc # "link"
    BY DEF Idle
  <2> QED
    BY <1>3, <2>1, <2>2, FlushedFails, FlushedEnds, FlushedGoes, FlushedSlot DEF FlushedFirst
<1>4. ASSUME NEW w \in Workers, req[w] \in Requests,
             \/ SyncLink(w) \/ WriteProof(w) \/ SyncProof(w) \/ Cleanup(w) \/ CleanupFails(w)
      PROVE  FlushedFirst'
  <2>1. Fail(w) \/ Refuse(w) \/ AnswerStored(w) \/ \E pc \in PCs \ {"link"} : Goto(w, pc)
    BY <1>4 DEF SyncLink, WriteProof, SyncProof, Cleanup, CleanupFails, PCs
  <2> QED
    BY <1>4, <2>1, FlushedFails, FlushedEnds, FlushedGoes
<1>5. ASSUME NEW w \in Workers, req[w] \in Requests,
             \/ LookHeld(w) \/ LookNone(w) \/ SyncAside(w) \/ WriteSide(w)
             \/ Link(w) \/ LinkLost(w) \/ ReadBack(w)
      PROVE  FlushedFirst'
  <2>1. CASE Fail(w)
    BY <1>5, <2>1, FlushedFails
  <2>2. CASE ~Fail(w)
    <3>1. req'[w].pc # "link" /\ \A v \in Workers \ {w} : req'[v] = req[v]
      BY <1>5, <2>2 DEF LookHeld, LookNone, SyncAside, WriteSide, Link, LinkLost, ReadBack, Goto,
         Requests, TypeOK
    <3> QED
      BY <3>1 DEF FlushedFirst
  <2> QED
    BY <2>1, <2>2
<1>6. ASSUME NEW w \in Workers, req[w] \in Requests, PersistChain(w)
      PROVE  FlushedFirst'
  <2>1. CASE Fail(w) \/ AnswerStored(w)
    BY <1>6, <2>1, FlushedFails, FlushedEnds
  <2>2. CASE ~(Fail(w) \/ AnswerStored(w))
    <3>1. req'[w].pc # "link" /\ \A v \in Workers \ {w} : req'[v] = req[v]
      BY <1>6, <2>2 DEF PersistChain, Requests, TypeOK
    <3> QED
      BY <3>1 DEF FlushedFirst
  <2> QED
    BY <2>1, <2>2
<1>7. ASSUME NEW w \in Workers, req[w] \in Requests, WriteTemp(w)
      PROVE  FlushedFirst'
  <2>1. CASE Fail(w)
    BY <1>7, <2>1, FlushedFails
  <2>2. CASE ~Fail(w)
    <3>1. req'[w].flushed /\ \A v \in Workers \ {w} : req'[v] = req[v]
      BY <1>7, <2>2 DEF WriteTemp, Requests, TypeOK
    <3> QED
      BY <3>1 DEF FlushedFirst
  <2> QED
    BY <2>1, <2>2
<1>8. ASSUME NEW w \in Workers, req[w] \notin Requests
      PROVE  \A pc \in PCs : ~At(w, pc)
  BY <1>8 DEF TypeOK, Idle, At, PCs
<1>9. CASE RequestStep
  <2>1. PICK w \in Workers :
          \/ \E n \in Names, c \in Contents, m \in Sidecars : Start(w, n, c, m)
          \/ BodyRejected(w) \/ Lock(w) \/ FloorRejected(w) \/ Floor(w) \/ Abandon(w)
          \/ MakeDay(w) \/ SyncParent(w)
          \/ LookHeld(w) \/ LookOther(w) \/ LookNone(w) \/ LookFails(w)
          \/ HeldSide(w) \/ Quarantine(w) \/ SyncAside(w) \/ RemoveStale(w)
          \/ WriteSide(w) \/ WriteTemp(w) \/ Link(w) \/ LinkLost(w) \/ SyncLink(w) \/ ReadBack(w)
          \/ WriteProof(w) \/ SyncProof(w) \/ PersistChain(w) \/ Cleanup(w) \/ CleanupFails(w)
    BY <1>9 DEF RequestStep
  <2>2. CASE \A pc \in PCs : ~At(w, pc)
    <3>1. ~(BodyRejected(w) \/ Lock(w) \/ FloorRejected(w) \/ Floor(w) \/ MakeDay(w) \/ SyncParent(w)
            \/ LookHeld(w) \/ LookOther(w) \/ LookNone(w) \/ LookFails(w) \/ HeldSide(w)
            \/ Quarantine(w) \/ SyncAside(w) \/ RemoveStale(w))
      BY <2>2 DEF BodyRejected, Lock, FloorRejected, Floor, MakeDay, SyncParent, LookHeld, LookOther,
         LookNone, LookFails, HeldSide, Quarantine, SyncAside, RemoveStale, PCs
    <3>2. ~(WriteSide(w) \/ WriteTemp(w) \/ Link(w) \/ LinkLost(w) \/ SyncLink(w) \/ ReadBack(w)
            \/ WriteProof(w) \/ SyncProof(w) \/ PersistChain(w) \/ Cleanup(w) \/ CleanupFails(w))
      BY <2>2 DEF WriteSide, WriteTemp, Link, LinkLost, SyncLink, ReadBack, WriteProof, SyncProof,
         PersistChain, Cleanup, CleanupFails, PCs
    <3> QED
      BY <2>1, <3>1, <3>2, <1>1, <1>2
  <2>3. CASE req[w] \in Requests
    BY <2>1, <2>3, <1>1, <1>2, <1>3, <1>4, <1>5, <1>6, <1>7
  <2> QED
    BY <2>2, <2>3, <1>8
<1>10. CASE HaveStep \/ UNCHANGED vars
  BY <1>10 DEF HaveStep, Have, vars, FlushedFirst
<1>11. CASE Kill \/ PowerLoss
  BY <1>11 DEF Kill, PowerLoss, Restarted, FlushedFirst, Idle
<1>12. ASSUME NEW n \in Names, Decay(n) \/ TakeAway(n)
       PROVE  FlushedFirst'
  <2>1. PICK a \in {Rot, None} : DamageTo(n, a)
    BY <1>12 DEF Decay, TakeAway
  <2>2. \A w \in Workers : \/ req'[w] = req[w]
                           \/ /\ req[w] \in Requests
                              /\ req'[w] = [req[w] EXCEPT !.sound = FALSE]
    BY <2>1 DEF DamageTo, TypeOK
  <2> QED
    BY <2>2 DEF FlushedFirst, Requests
<1> QED
  BY <1>9, <1>10, <1>11, <1>12 DEF Next

LEMMA FlushedHolds == Spec => []FlushedFirst
<1>1. Init => FlushedFirst
  BY DEF Init, FlushedFirst, Idle
<1>2. TypeOK /\ FlushedFirst /\ [Next]_vars => FlushedFirst'
  BY FlushedStays
<1> QED
  BY <1>1, <1>2, TypeCorrect, PTL DEF Spec
-----------------------------------------------------------------------------
(* What a receipt is worth *)


(***************************************************************************)
(* What a step of the request in slot w leaves alone: the other requests,  *)
(* and of the other names everything but versions an fsync has discarded.  *)
(***************************************************************************)
Frame(w) ==
  /\ \A v \in Workers \ {w} : req'[v] = req[v]
  /\ \A n \in Names \ {Name(w)} :
       /\ disk'[n] = disk[n]
       /\ survive'[n] = survive[n] \/ survive'[n] = {disk[n]}
       /\ holder'[n] = holder[n]
       /\ promise'[n] = promise[n] /\ timed'[n] = timed[n] /\ spoiled'[n] = spoiled[n]
  /\ day = "durable" => day' = "durable"

\* Two requests never work on the same name.
LEMMA Alone ==
  ASSUME TypeOK, LockInv, NEW v \in Workers, NEW w \in Workers, v # w, Working(v), Working(w)
  PROVE  Name(v) # Name(w)
BY DEF LockInv

LEMMA NameKept ==
  ASSUME NEW n \in Names, NameInv(n), disk'[n] = disk[n],
         survive'[n] = survive[n] \/ survive'[n] = {disk[n]},
         promise'[n] = promise[n], timed'[n] = timed[n], spoiled'[n] = spoiled[n],
         day = "durable" => day' = "durable"
  PROVE  NameInv(n)'
BY DEF NameInv, Keeps, Matches, SameSource

LEMMA RequestKept ==
  ASSUME NEW v \in Workers, RequestInv(v), req'[v] = req[v],
         NameInv(Name(v)), disk'[Name(v)] = disk[Name(v)],
         survive'[Name(v)] = survive[Name(v)] \/ survive'[Name(v)] = {disk[Name(v)]},
         promise'[Name(v)] = promise[Name(v)],
         day = "durable" => day' = "durable"
  PROVE  RequestInv(v)'
BY DEF RequestInv, NameInv, Name, Data, File, Own

\* So a step of w has only w and its name to look after.
LEMMA StepOf ==
  ASSUME TypeOK, Inductive, NEW w \in Workers, Working(w), Frame(w),
         NEW n \in Names, n = Name(w), NameInv(n)',
         \/ req'[w] = Idle
         \/ Name(w)' = n /\ Working(w)' /\ holder'[n] = holder[n] /\ RequestInv(w)'
  PROVE  Inductive'
<1>2. DiskInv'
  <2> SUFFICES ASSUME NEW m \in Names PROVE NameInv(m)'
    BY DEF DiskInv
  <2>1. CASE m = n
    BY <2>1
  <2>2. CASE m # n
    BY <2>2, NameKept DEF Inductive, DiskInv, Frame
  <2> QED
    BY <2>1, <2>2
<1>3. ASSUME NEW v \in Workers \ {w}, Working(v)'
      PROVE  RequestInv(v)' /\ holder'[Name(v)'] = v
  <2>1. req'[v] = req[v] /\ Working(v) /\ Name(v)' = Name(v)
    BY <1>3 DEF Frame, Working, Name
  <2>2. Name(v) # Name(w) /\ Name(v) \in Names
    BY <2>1, Alone, Parts DEF Inductive, Working, TypeOK
  <2> QED
    BY <2>1, <2>2, RequestKept DEF Inductive, DiskInv, LockInv, ReqInv, Frame
<1>4. ASSUME NEW v \in Workers \ {w}, req'[v] # Idle, req'[v].pc = "body"
      PROVE  Fresh(v)'
  BY <1>4 DEF Frame, Inductive, ReqInv, Fresh
<1>5. CASE req'[w] = Idle
  BY <1>2, <1>3, <1>4, <1>5 DEF Inductive, LockInv, ReqInv, Working
<1>6. CASE Name(w)' = n /\ Working(w)' /\ holder'[n] = holder[n] /\ RequestInv(w)'
  <2>1. holder'[n] = w /\ req'[w].pc # "body"
    BY <1>6 DEF Inductive, LockInv, Working
  <2>2. LockInv'
    BY <1>3, <1>6, <2>1 DEF LockInv
  <2>3. ReqInv'
    BY <1>3, <1>4, <1>6, <2>1 DEF ReqInv
  <2> QED
    BY <1>2, <2>2, <2>3 DEF Inductive
<1> QED
  BY <1>5, <1>6

\* What is known of the request w at work.
LEMMA Ready ==
  ASSUME TypeOK, Inductive, NEW w \in Workers, NEW pc \in PCs \ {"body"}, At(w, pc)
  PROVE  /\ Working(w) /\ req[w] \in Requests /\ RequestInv(w) /\ req[w].pc = pc
         /\ Name(w) \in Names /\ Data(w) \in Contents /\ File(w) \in Files
         /\ File(w) \in survive[Name(w)] /\ survive[Name(w)] \subseteq Files
         /\ File(w) = disk[Name(w)] /\ NameInv(Name(w))
<1>1. req[w] # Idle /\ req[w] \in Requests /\ Working(w)
  BY Active DEF Working, At
<1> QED
  BY <1>1, Parts DEF Inductive, ReqInv, DiskInv, NameInv, TypeOK, At, File

(***************************************************************************)
(* The shapes of a step: it moves on with its own name's files changed; it *)
(* moves on with no file changed; it ends without a promise; it fails.     *)
(***************************************************************************)
LEMMA OwnStep ==
  ASSUME TypeOK, Inductive, NEW w \in Workers, Working(w),
         NEW r \in Requests, req' = [req EXCEPT ![w] = r], r.pc # "body",
         NEW n \in Names, n = Name(w), r.name = n, UNCHANGED <<holder, history>>,
         \A m \in Names \ {n} :
           disk'[m] = disk[m] /\ (survive'[m] = survive[m] \/ survive'[m] = {disk[m]}),
         day = "durable" => day' = "durable",
         NameInv(n)', RequestInv(w)'
  PROVE  Inductive'
<1>1. Frame(w)
  BY DEF Frame, history, TypeOK
<1>2. req'[w] = r /\ r # Idle
  BY DEF TypeOK, Requests, Idle, PCs
<1>3. Name(w)' = n /\ Working(w)' /\ holder'[n] = holder[n]
  BY <1>2 DEF Working, Name
<1> QED
  BY <1>1, <1>3, StepOf

LEMMA QuietStep ==
  ASSUME TypeOK, Inductive, NEW w \in Workers, Working(w),
         NEW r \in Requests, req' = [req EXCEPT ![w] = r], r.pc # "body", r.name = Name(w),
         UNCHANGED <<disk, survive, holder, history>>,
         day = "durable" => day' = "durable",
         RequestInv(w)'
  PROVE  Inductive'
<1>1. Name(w) \in Names
  BY Parts DEF Working, TypeOK
<1>2. NameInv(Name(w))
  BY <1>1 DEF Inductive, DiskInv
<1>3. PICK n \in Names : n = Name(w) /\ NameInv(n)
  BY <1>1, <1>2
<1>4. NameInv(n)'
  BY <1>3, NameKept DEF history
<1> QED
  BY <1>3, <1>4, OwnStep DEF history

LEMMA RefusedStep ==
  ASSUME TypeOK, Inductive, NEW w \in Workers, Working(w), Refuse(w), UNCHANGED storeVars
  PROVE  Inductive'
<1>1. Name(w) \in Names
  BY Parts DEF Working, TypeOK
<1>2. PICK n \in Names : n = Name(w) /\ NameInv(n)
  BY <1>1 DEF Inductive, DiskInv
<1>3. NameInv(n)'
  BY <1>2, NameKept DEF storeVars, Refuse, history
<1>4. Frame(w) /\ req'[w] = Idle
  BY DEF Frame, Refuse, HolderAfter, storeVars, history, TypeOK
<1> QED
  BY <1>2, <1>3, <1>4, StepOf

LEMMA FailedStep ==
  ASSUME TypeOK, Inductive, NEW w \in Workers, NEW pc \in PCs \ {"body", "cleanup"}, At(w, pc), Fail(w)
  PROVE  Inductive'
<1>1. CASE ~req[w].trying
  BY <1>1, Ready, RefusedStep DEF Fail
<1>2. CASE req[w].trying
  <2> DEFINE r == [req[w] EXCEPT !.pc = "cleanup", !.ok = FALSE]
  <2>1. r \in Requests /\ r.pc = "cleanup" /\ r.name = Name(w) /\ r.ok = FALSE
        /\ r.linked = req[w].linked /\ r.keep = req[w].keep /\ r.data = req[w].data
    <3>1. req[w] \in Requests
      BY Ready
    <3> QED
      BY <3>1 DEF Requests, PCs, Name
  <2>2. req' = [req EXCEPT ![w] = r] /\ UNCHANGED <<storeVars, holder, history>>
    BY <1>2 DEF Fail
  <2>3. req'[w] = r
    BY <2>2 DEF TypeOK
  <2>4. RequestInv(w)'
    BY <2>1, <2>2, <2>3, Ready DEF RequestInv, File, Name, Data, Own, BeforeLink, Sealing, storeVars, history
  <2> QED
    BY <2>1, <2>2, <2>4, Ready, QuietStep DEF storeVars
<1> QED
  BY <1>1, <1>2

-----------------------------------------------------------------------------
(* From the body to the look *)

LEMMA StartKeeps ==
  ASSUME TypeOK, Inductive, NEW w \in Workers, NEW n \in Names, NEW c \in Contents, NEW m \in BOOLEAN,
         Start(w, n, c, m)
  PROVE  Inductive'
<1>1. \A v \in Workers : Working(v)' => Working(v) /\ req'[v] = req[v] /\ v # w
  BY DEF Start, Working, TypeOK
<1>2. Fresh(w)' /\ req'[w].pc = "body"
  BY DEF Start, Fresh, TypeOK
<1>3. \A v \in Workers \ {w} : req'[v] = req[v]
  BY DEF Start, TypeOK
<1>4. DiskInv'
  BY NameKept DEF Inductive, DiskInv, Start, storeVars, history
<1>5. LockInv'
  BY <1>1 DEF Inductive, LockInv, Start, Name
<1>6. \A v \in Workers : Working(v)' => RequestInv(v)'
  <2> SUFFICES ASSUME NEW v \in Workers, Working(v)' PROVE RequestInv(v)'
    OBVIOUS
  <2>1. Name(v) \in Names
    BY <1>1, Parts DEF Working, TypeOK
  <2> QED
    BY <1>1, <2>1, RequestKept DEF Inductive, ReqInv, DiskInv, Start, storeVars, history
<1> QED
  BY <1>2, <1>3, <1>4, <1>5, <1>6 DEF Inductive, ReqInv, Fresh

LEMMA BodyRejectedKeeps ==
  ASSUME TypeOK, Inductive, NEW w \in Workers, BodyRejected(w)
  PROVE  Inductive'
<1>1. \A v \in Workers : Working(v)' => Working(v) /\ req'[v] = req[v]
  BY DEF BodyRejected, Working, TypeOK
<1>2. \A v \in Workers : req'[v] # Idle => req'[v] = req[v]
  BY DEF BodyRejected, TypeOK
<1>4. DiskInv'
  BY NameKept DEF Inductive, DiskInv, BodyRejected, storeVars, history
<1>5. LockInv'
  BY <1>1 DEF Inductive, LockInv, BodyRejected, Name
<1>6. \A v \in Workers : Working(v)' => RequestInv(v)'
  <2> SUFFICES ASSUME NEW v \in Workers, Working(v)' PROVE RequestInv(v)'
    OBVIOUS
  <2>1. Name(v) \in Names
    BY <1>1, Parts DEF Working, TypeOK
  <2> QED
    BY <1>1, <2>1, RequestKept DEF Inductive, ReqInv, DiskInv, BodyRejected, storeVars, history
<1> QED
  BY <1>2, <1>4, <1>5, <1>6 DEF Inductive, ReqInv, Fresh

LEMMA LockKeeps ==
  ASSUME TypeOK, Exclusive, Inductive, NEW w \in Workers, Lock(w)
  PROVE  Inductive'
<1>1. req[w] # Idle /\ req[w] \in Requests /\ Name(w) \in Names /\ Fresh(w)
  BY Active, Parts DEF Lock, PCs, At, Inductive, ReqInv
<1>2. req'[w] = [req[w] EXCEPT !.pc = "floor"] /\ \A v \in Workers \ {w} : req'[v] = req[v]
  BY <1>1 DEF Lock, Goto, TypeOK
<1>3. DiskInv'
  BY NameKept DEF Inductive, DiskInv, Lock, storeVars, history
<1>4. LockInv'
  <2> SUFFICES ASSUME NEW v \in Workers, Working(v)' PROVE holder'[Name(v)'] = v
    BY DEF LockInv
  <2>1. holder[Name(w)] = None /\ holder' = [holder EXCEPT ![Name(w)] = w]
    BY DEF Lock
  <2>2. CASE v = w
    BY <1>1, <1>2, <2>1, <2>2 DEF Name, Requests, TypeOK
  <2>3. CASE v # w
    <3>1. Working(v) /\ Name(v)' = Name(v) /\ holder[Name(v)] = v /\ v # None
      BY <1>2, <2>3, ConstantsAssumption DEF Working, Name, Inductive, LockInv
    <3> QED
      BY <2>1, <3>1 DEF TypeOK
  <2> QED
    BY <2>2, <2>3
<1>5. RequestInv(w)'
  BY <1>1, <1>2 DEF RequestInv, Fresh, Requests, BeforeLink, Sealing
<1>6. \A v \in Workers : Working(v)' => RequestInv(v)'
  <2> SUFFICES ASSUME NEW v \in Workers \ {w}, Working(v)' PROVE RequestInv(v)'
    BY <1>5
  <2>1. Working(v) /\ req'[v] = req[v] /\ Name(v) \in Names
    BY <1>2, Parts DEF Working, TypeOK
  <2> QED
    BY <2>1, RequestKept DEF Inductive, ReqInv, DiskInv, Lock, storeVars, history
<1> QED
  BY <1>1, <1>2, <1>3, <1>4, <1>6 DEF Inductive, ReqInv, Fresh, Requests

LEMMA FloorRejectedKeeps ==
  ASSUME TypeOK, Inductive, NEW w \in Workers, FloorRejected(w)
  PROVE  Inductive'
<1>1. Working(w)
  BY Ready DEF FloorRejected, PCs
<1> QED
  BY <1>1, RefusedStep DEF FloorRejected

LEMMA FloorKeeps ==
  ASSUME TypeOK, Inductive, NEW w \in Workers, Floor(w)
  PROVE  Inductive'
<1>1. Working(w) /\ req[w] \in Requests /\ RequestInv(w) /\ req[w].pc = "floor"
  BY Ready DEF Floor, PCs
<1> DEFINE r == [req[w] EXCEPT !.pc = IF day = "absent" THEN "mkdir" ELSE "look"]
<1>2. /\ r \in Requests /\ r.pc \in {"mkdir", "look"} /\ r.name = Name(w) /\ r.data = Data(w)
      /\ r.keep = req[w].keep /\ r.linked = req[w].linked /\ r.ok = req[w].ok
  BY <1>1 DEF Requests, PCs, Name, Data
<1>3. req' = [req EXCEPT ![w] = r] /\ UNCHANGED <<storeVars, holder, history>>
  BY DEF Floor, Goto
<1>4. req'[w] = r /\ File(w)' = File(w) /\ Data(w)' = Data(w)
  BY <1>2, <1>3 DEF TypeOK, File, Name, Data, storeVars
<1>5. RequestInv(w)'
  BY <1>1, <1>2, <1>4 DEF RequestInv, BeforeLink, Sealing
<1> QED
  BY <1>1, <1>2, <1>3, <1>5, QuietStep DEF storeVars

LEMMA MakeDayKeeps ==
  ASSUME TypeOK, Inductive, NEW w \in Workers, MakeDay(w)
  PROVE  Inductive'
<1>1. At(w, "mkdir") /\ "mkdir" \in PCs \ {"body", "cleanup"}
  BY DEF MakeDay, PCs
<1>2. Working(w) /\ req[w] \in Requests /\ RequestInv(w) /\ req[w].pc = "mkdir"
      /\ Data(w) \in Contents /\ File(w) \in survive[Name(w)] /\ NameInv(Name(w))
  BY <1>1, Ready
<1>3. CASE Fail(w)
  BY <1>1, <1>3, FailedStep
<1>4. CASE ~Fail(w)
  <2> DEFINE r == [req[w] EXCEPT !.pc = "mkdirSync"]
  <2>11. r \in Requests /\ r.pc = "mkdirSync" /\ r.name = req[w].name /\ r.data = req[w].data
    BY <1>2 DEF Requests, PCs, Name, Data
  <2>12. req' = [req EXCEPT ![w] = r] /\ UNCHANGED <<disk, survive, holder, history>>
        /\ (day = "durable" => day' = "durable")
    BY <1>4, <1>2 DEF MakeDay, Goto, storeVars, At
  <2>13. RequestInv(w)'
    <3>1. req'[w] = r /\ File(w)' = File(w) /\ Data(w)' = Data(w) /\ Name(w)' = Name(w)
      BY <1>2, <2>11, <2>12 DEF TypeOK, File, Name, Data
    <3> QED
      BY <1>2, <2>12, <3>1 DEF RequestInv, Own, BeforeLink, Sealing, history, MakeDay, Requests
  <2> QED
    BY <1>2, <2>11, <2>12, <2>13, QuietStep DEF Name
<1> QED
  BY <1>3, <1>4

LEMMA SyncParentKeeps ==
  ASSUME TypeOK, Inductive, NEW w \in Workers, SyncParent(w)
  PROVE  Inductive'
<1>1. At(w, "mkdirSync") /\ "mkdirSync" \in PCs \ {"body", "cleanup"}
  BY DEF SyncParent, PCs
<1>2. Working(w) /\ req[w] \in Requests /\ RequestInv(w) /\ req[w].pc = "mkdirSync"
      /\ Data(w) \in Contents /\ File(w) \in survive[Name(w)] /\ NameInv(Name(w))
  BY <1>1, Ready
<1>3. CASE Fail(w)
  BY <1>1, <1>3, FailedStep
<1>4. CASE ~Fail(w)
  <2> DEFINE r == [req[w] EXCEPT !.pc = "look"]
  <2>11. r \in Requests /\ r.pc = "look" /\ r.name = req[w].name /\ r.data = req[w].data
    BY <1>2 DEF Requests, PCs, Name, Data
  <2>12. req' = [req EXCEPT ![w] = r] /\ UNCHANGED <<disk, survive, holder, history>>
        /\ (day = "durable" => day' = "durable")
    BY <1>4, <1>2 DEF SyncParent, Goto, storeVars, At
  <2>13. RequestInv(w)'
    <3>1. req'[w] = r /\ File(w)' = File(w) /\ Data(w)' = Data(w) /\ Name(w)' = Name(w)
      BY <1>2, <2>11, <2>12 DEF TypeOK, File, Name, Data
    <3> QED
      BY <1>2, <2>12, <3>1 DEF RequestInv, Own, BeforeLink, Sealing, history, SyncParent, Requests
  <2> QED
    BY <1>2, <2>11, <2>12, <2>13, QuietStep DEF Name
<1> QED
  BY <1>3, <1>4

LEMMA LookHeldKeeps ==
  ASSUME TypeOK, Inductive, NEW w \in Workers, LookHeld(w)
  PROVE  Inductive'
<1>1. At(w, "look") /\ "look" \in PCs \ {"body", "cleanup"}
  BY DEF LookHeld, PCs
<1>2. Working(w) /\ req[w] \in Requests /\ RequestInv(w) /\ req[w].pc = "look"
      /\ Data(w) \in Contents /\ File(w) \in survive[Name(w)] /\ NameInv(Name(w))
  BY <1>1, Ready
<1> DEFINE r == [req[w] EXCEPT !.pc = "heldSide", !.sound = TRUE]
<1>11. r \in Requests /\ r.pc = "heldSide" /\ r.name = req[w].name /\ r.data = req[w].data
  BY <1>2 DEF Requests, PCs, Name, Data
<1>12. req' = [req EXCEPT ![w] = r] /\ UNCHANGED <<disk, survive, holder, history>>
      /\ (day = "durable" => day' = "durable")
  BY <1>2 DEF LookHeld, Goto, storeVars, At
<1>13. RequestInv(w)'
  <2>1. req'[w] = r /\ File(w)' = File(w) /\ Data(w)' = Data(w) /\ Name(w)' = Name(w)
    BY <1>2, <1>11, <1>12 DEF TypeOK, File, Name, Data
  <2>2. File(w).audio = Data(w) /\ File(w).side \in Own(w) /\ File(w).proof \in Own(w)
    BY <1>2 DEF LookHeld, NameInv, Matches, Own
  <2>3. ~req[w].linked /\ ~req[w].ok /\ (req[w].keep => File(w).proof = Data(w))
    BY <1>2 DEF RequestInv
  <2>4. r.linked = req[w].linked /\ r.ok = req[w].ok /\ r.keep = req[w].keep /\ r.pc = "heldSide"
    BY <1>2 DEF Requests
  <2> QED
    BY <2>1, <2>2, <2>3, <2>4 DEF RequestInv, Own, BeforeLink, Sealing
<1> QED
  BY <1>2, <1>11, <1>12, <1>13, QuietStep DEF Name

LEMMA LookNoneKeeps ==
  ASSUME TypeOK, Inductive, NEW w \in Workers, LookNone(w)
  PROVE  Inductive'
<1>1. At(w, "look") /\ "look" \in PCs \ {"body", "cleanup"}
  BY DEF LookNone, PCs
<1>2. Working(w) /\ req[w] \in Requests /\ RequestInv(w) /\ req[w].pc = "look"
      /\ Data(w) \in Contents /\ File(w) \in survive[Name(w)] /\ NameInv(Name(w))
  BY <1>1, Ready
<1> DEFINE r == [req[w] EXCEPT !.pc = "stale", !.keep = (File(w).proof = Data(w))]
<1>11. r \in Requests /\ r.pc = "stale" /\ r.name = req[w].name /\ r.data = req[w].data
  BY <1>2 DEF Requests, PCs, Name, Data
<1>12. req' = [req EXCEPT ![w] = r] /\ UNCHANGED <<disk, survive, holder, history>>
      /\ (day = "durable" => day' = "durable")
  BY <1>2 DEF LookNone, Goto, storeVars, At
<1>13. RequestInv(w)'
  <2>1. req'[w] = r /\ File(w)' = File(w) /\ Data(w)' = Data(w) /\ Name(w)' = Name(w)
    BY <1>2, <1>11, <1>12 DEF TypeOK, File, Name, Data
  <2> QED
    BY <1>2, <1>12, <2>1 DEF RequestInv, Own, BeforeLink, Sealing, history, LookNone, Requests
<1> QED
  BY <1>2, <1>11, <1>12, <1>13, QuietStep DEF Name

LEMMA WriteTempKeeps ==
  ASSUME TypeOK, Inductive, NEW w \in Workers, WriteTemp(w)
  PROVE  Inductive'
<1>1. At(w, "temp") /\ "temp" \in PCs \ {"body", "cleanup"}
  BY DEF WriteTemp, PCs
<1>2. Working(w) /\ req[w] \in Requests /\ RequestInv(w) /\ req[w].pc = "temp"
      /\ Data(w) \in Contents /\ File(w) \in survive[Name(w)] /\ NameInv(Name(w))
  BY <1>1, Ready
<1>3. CASE Fail(w)
  BY <1>1, <1>3, FailedStep
<1>4. CASE ~Fail(w)
  <2> DEFINE r == [req[w] EXCEPT !.pc = "link", !.flushed = TRUE]
  <2>11. r \in Requests /\ r.pc = "link" /\ r.name = req[w].name /\ r.data = req[w].data /\ r.flushed
    BY <1>2 DEF Requests, PCs, Name, Data
  <2>12. req' = [req EXCEPT ![w] = r] /\ UNCHANGED <<disk, survive, holder, history>>
        /\ (day = "durable" => day' = "durable")
    BY <1>4, <1>2 DEF WriteTemp, Goto, storeVars, At
  <2>13. RequestInv(w)'
    <3>1. req'[w] = r /\ File(w)' = File(w) /\ Data(w)' = Data(w) /\ Name(w)' = Name(w)
      BY <1>2, <2>11, <2>12 DEF TypeOK, File, Name, Data
    <3> QED
      BY <1>2, <2>12, <3>1 DEF RequestInv, Own, BeforeLink, Sealing, history, WriteTemp, Requests
  <2> QED
    BY <1>2, <2>11, <2>12, <2>13, QuietStep DEF Name
<1> QED
  BY <1>3, <1>4

LEMMA LookFailsKeeps ==
  ASSUME TypeOK, Inductive, NEW w \in Workers, LookFails(w)
  PROVE  Inductive'
BY FailedStep DEF LookFails, PCs

LEMMA AbandonKeeps ==
  ASSUME TypeOK, Inductive, NEW w \in Workers, Abandon(w)
  PROVE  Inductive'
<1>1. Working(w) /\ req[w] \in Requests /\ RequestInv(w)
  BY DEF Abandon, Working, At, TypeOK, Inductive, ReqInv
<1> DEFINE r == [req[w] EXCEPT !.gone = TRUE]
<1>2. /\ r \in Requests /\ r.pc = req[w].pc /\ r.name = Name(w) /\ r.data = Data(w)
      /\ r.keep = req[w].keep /\ r.linked = req[w].linked /\ r.ok = req[w].ok
      /\ r.proven = req[w].proven /\ r.sound = req[w].sound /\ r.meta = req[w].meta
  BY <1>1 DEF Requests, Name, Data
<1>3. req' = [req EXCEPT ![w] = r] /\ UNCHANGED <<storeVars, holder, history>>
  BY DEF Abandon
<1>4. req'[w] = r /\ File(w)' = File(w) /\ Data(w)' = Data(w) /\ Name(w)' = Name(w)
  BY <1>2, <1>3 DEF TypeOK, File, Name, Data, storeVars
<1>5. RequestInv(w)'
  BY <1>1, <1>2, <1>3, <1>4 DEF RequestInv, Own, storeVars, history
<1> QED
  BY <1>1, <1>2, <1>3, <1>5, QuietStep DEF storeVars, Working

LEMMA LookOtherKeeps ==
  ASSUME TypeOK, Inductive, NEW w \in Workers, LookOther(w)
  PROVE  Inductive'
<1>1. At(w, "look") /\ "look" \in PCs \ {"body", "cleanup"}
  BY DEF LookOther, PCs
<1>2. Working(w) /\ req[w] \in Requests /\ RequestInv(w) /\ req[w].pc = "look"
      /\ Data(w) \in Contents /\ File(w) \in survive[Name(w)] /\ NameInv(Name(w))
  BY <1>1, Ready
<1>3. CASE File(w).proof # Data(w)
  BY <1>2, <1>3, RefusedStep DEF LookOther
<1>4. CASE File(w).proof = Data(w)
  <2> DEFINE r == [req[w] EXCEPT !.pc = "quarantine"]
  <2>1. /\ r \in Requests /\ r.pc = "quarantine" /\ r.name = req[w].name /\ r.data = req[w].data
        /\ r.linked = req[w].linked /\ r.ok = req[w].ok
    BY <1>2 DEF Requests, PCs
  <2>2. req' = [req EXCEPT ![w] = r] /\ UNCHANGED <<storeVars, holder, history>>
    BY <1>4, <1>2 DEF LookOther, Goto
  <2>3. req'[w] = r /\ File(w)' = File(w) /\ Data(w)' = Data(w) /\ Name(w)' = Name(w)
    BY <2>1, <2>2 DEF TypeOK, File, Name, Data, storeVars
  <2>4. File(w).audio \notin Contents
    BY <1>2, <1>4, ConstantsAssumption DEF LookOther, NameInv, Matches
  <2>5. ~req[w].linked /\ ~req[w].ok
    BY <1>2 DEF RequestInv
  <2>6. RequestInv(w)'
    BY <1>4, <2>1, <2>3, <2>4, <2>5 DEF RequestInv, BeforeLink, Sealing
  <2> QED
    BY <1>2, <2>1, <2>2, <2>6, QuietStep DEF storeVars, Name
<1> QED
  BY <1>3, <1>4
-----------------------------------------------------------------------------
(* The steps that change files *)

LEMMA PutStep ==
  ASSUME TypeOK, Inductive, NEW w \in Workers, Working(w),
         NEW r \in Requests, req' = [req EXCEPT ![w] = r], r.pc # "body",
         NEW n \in Names, n = Name(w), r.name = n, UNCHANGED <<holder, history>>,
         NEW f \in Files, Put(n, f),
         Matches(f), SameSource(f), f.audio # Torn, promise[n] # None => Keeps(n, f),
         RequestInv(w)'
  PROVE  Inductive'
<1>1. disk' = [disk EXCEPT ![n] = f] /\ survive' = [survive EXCEPT ![n] = @ \cup {f}] /\ day' = day
  BY DEF Put
<1>2. disk'[n] = f /\ survive'[n] = survive[n] \cup {f}
  BY <1>1 DEF TypeOK
<1>3. NameInv(n)
  BY DEF Inductive, DiskInv
<1>4. NameInv(n)'
  BY <1>1, <1>2, <1>3 DEF NameInv, Matches, SameSource, Keeps, history
<1>5. \A m \in Names \ {n} : disk'[m] = disk[m] /\ survive'[m] = survive[m]
  BY <1>1 DEF TypeOK
<1> QED
  BY <1>1, <1>4, <1>5, OwnStep

LEMMA SyncStep ==
  ASSUME TypeOK, Inductive, NEW w \in Workers, Working(w),
         NEW r \in Requests, req' = [req EXCEPT ![w] = r], r.pc # "body", r.name = Name(w),
         UNCHANGED <<disk, holder, history>>, SyncDay,
         day = "durable" => day' = "durable",
         RequestInv(w)'
  PROVE  Inductive'
<1>1. Name(w) \in Names
  BY Parts DEF Working, TypeOK
<1>2. PICK n \in Names : n = Name(w) /\ NameInv(n)
  BY <1>1 DEF Inductive, DiskInv
<1>3. \A m \in Names : disk'[m] = disk[m] /\ survive'[m] = {disk[m]}
  BY DEF SyncDay
<1>4. NameInv(n)'
  BY <1>2, <1>3, NameKept DEF history
<1> QED
  BY <1>2, <1>3, <1>4, OwnStep

LEMMA HeldSideKeeps ==
  ASSUME TypeOK, Inductive, NEW w \in Workers, HeldSide(w)
  PROVE  Inductive'
<1>1. At(w, "heldSide") /\ "heldSide" \in PCs \ {"body", "cleanup"}
  BY DEF HeldSide, PCs
<1>2. /\ Working(w) /\ req[w] \in Requests /\ RequestInv(w) /\ req[w].pc = "heldSide"
      /\ Name(w) \in Names /\ Data(w) \in Contents /\ File(w) \in Files
      /\ File(w) \in survive[Name(w)] /\ NameInv(Name(w)) /\ File(w) = disk[Name(w)]
  BY <1>1, Ready
<1>3. CASE Fail(w)
  BY <1>1, <1>3, FailedStep
<1>4. CASE ~Fail(w)
  <2> DEFINE new == req[w].meta /\ File(w).side = None
  <2> DEFINE f == IF new THEN [File(w) EXCEPT !.side = Data(w)] ELSE File(w)
  <2> DEFINE r == [req[w] EXCEPT !.pc = IF File(w).proof = Data(w) THEN "persist" ELSE "proof"]
  <2>1. /\ r \in Requests /\ r.pc = (IF File(w).proof = Data(w) THEN "persist" ELSE "proof")
        /\ r.pc # "body"
        /\ r.name = Name(w) /\ r.data = Data(w) /\ r.meta = req[w].meta /\ r.sound = req[w].sound
        /\ r.keep = req[w].keep /\ r.linked = req[w].linked /\ r.ok = req[w].ok
    BY <1>2 DEF Requests, PCs, Name, Data
  <2>2. req' = [req EXCEPT ![w] = r] /\ UNCHANGED <<holder, history>>
    BY <1>4 DEF HeldSide, Goto
  <2>3. f \in Files /\ f.audio = File(w).audio /\ f.proof = File(w).proof
        /\ f.side = (IF new THEN Data(w) ELSE File(w).side)
    BY <1>2 DEF Files
  <2>4. Put(Name(w), f) \/ (~new /\ UNCHANGED storeVars)
    BY <1>4 DEF HeldSide
  <2>5. File(w)' = f /\ req'[w] = r /\ Data(w)' = Data(w) /\ Name(w)' = Name(w)
    BY <1>2, <2>1, <2>2, <2>4 DEF Put, File, Name, Data, TypeOK, storeVars
  <2>6. /\ File(w).side \in Own(w) /\ File(w).proof \in Own(w)
        /\ File(w).audio \in {Data(w), Rot, None} /\ (req[w].sound => File(w).audio = Data(w))
        /\ ~req[w].linked /\ ~req[w].ok /\ (req[w].keep => File(w).proof = Data(w))
    BY <1>2 DEF RequestInv, Sealing
  <2>7. RequestInv(w)'
    BY <2>1, <2>3, <2>5, <2>6 DEF RequestInv, Own, BeforeLink, Sealing
  <2>8. CASE Put(Name(w), f)
    <3>1. Matches(f) /\ SameSource(f) /\ f.audio # Torn
      BY <1>2, <2>3, <2>6, ConstantsAssumption DEF Matches, SameSource, Own, NameInv
    <3>2. promise[Name(w)] # None => Keeps(Name(w), f)
      BY <1>2, <2>3, <2>6, ConstantsAssumption DEF Keeps, Own, NameInv, TypeOK
    <3> QED
      BY <1>2, <2>1, <2>2, <2>3, <2>7, <2>8, <3>1, <3>2, PutStep
  <2>9. CASE UNCHANGED storeVars
    BY <1>2, <2>1, <2>2, <2>7, <2>9, QuietStep DEF storeVars
  <2> QED
    BY <2>4, <2>8, <2>9
<1> QED
  BY <1>3, <1>4

LEMMA QuarantineKeeps ==
  ASSUME TypeOK, Inductive, NEW w \in Workers, Quarantine(w)
  PROVE  Inductive'
<1>1. At(w, "quarantine") /\ "quarantine" \in PCs \ {"body", "cleanup"}
  BY DEF Quarantine, PCs
<1>2. /\ Working(w) /\ req[w] \in Requests /\ RequestInv(w) /\ req[w].pc = "quarantine"
      /\ Name(w) \in Names /\ Data(w) \in Contents /\ File(w) \in Files
      /\ File(w) \in survive[Name(w)] /\ NameInv(Name(w)) /\ File(w) = disk[Name(w)]
  BY <1>1, Ready
<1>3. CASE Fail(w)
  BY <1>1, <1>3, FailedStep
<1>4. CASE ~Fail(w) /\ File(w).audio = None
  BY <1>2, <1>4, RefusedStep DEF Quarantine
<1>5. CASE ~Fail(w) /\ File(w).audio # None
  <2> DEFINE f == [File(w) EXCEPT !.audio = None, !.aside = @ \cup {File(w).audio}]
  <2> DEFINE r == [req[w] EXCEPT !.pc = "asideSync"]
  <2>1. /\ r \in Requests /\ r.pc = "asideSync" /\ r.name = Name(w) /\ r.data = Data(w)
        /\ r.linked = req[w].linked /\ r.ok = req[w].ok
    BY <1>2 DEF Requests, PCs, Name, Data
  <2>2. /\ req' = [req EXCEPT ![w] = r] /\ Put(Name(w), f) /\ Renounce(Name(w))
        /\ UNCHANGED holder
    BY <1>5 DEF Quarantine, Goto
  <2>3. f.audio = None /\ f.side = File(w).side /\ f.proof = File(w).proof
    BY <1>2 DEF Files
  <2>4. req'[w] = r /\ File(w)' = f /\ Data(w)' = Data(w) /\ Name(w)' = Name(w)
    BY <1>2, <2>1, <2>2 DEF Put, File, Name, Data, TypeOK
  <2>5. File(w).audio \notin Contents /\ File(w).proof = Data(w) /\ ~req[w].linked /\ ~req[w].ok
    BY <1>2 DEF RequestInv
  <2>6. RequestInv(w)'
    BY <2>1, <2>3, <2>4, <2>5 DEF RequestInv, BeforeLink, Sealing
  <2>7. promise'[Name(w)] = None
    BY <1>2, <2>2, <2>5 DEF Renounce, NameInv, Keeps, TypeOK
  <2>8. disk'[Name(w)] = f /\ survive'[Name(w)] = survive[Name(w)] \cup {f}
    BY <1>2, <2>2 DEF Put, TypeOK
  <2>9. PICK n \in Names : n = Name(w)
    BY <1>2
  <2>10. NameInv(n)'
    BY <1>2, <2>3, <2>7, <2>8, <2>9, ConstantsAssumption DEF NameInv, Matches, SameSource
  <2>11. Frame(w)
    BY <2>2 DEF Frame, Put, Renounce, TypeOK
  <2>12. Working(w)' /\ holder'[n] = holder[n]
    BY <1>2, <2>1, <2>2, <2>4 DEF Working, Requests, Idle, PCs
  <2> QED
    BY <1>2, <2>4, <2>6, <2>9, <2>10, <2>11, <2>12, StepOf
<1> QED
  BY <1>3, <1>4, <1>5

LEMMA SyncAsideKeeps ==
  ASSUME TypeOK, Inductive, NEW w \in Workers, SyncAside(w)
  PROVE  Inductive'
<1>1. At(w, "asideSync") /\ "asideSync" \in PCs \ {"body", "cleanup"}
  BY DEF SyncAside, PCs
<1>2. /\ Working(w) /\ req[w] \in Requests /\ RequestInv(w) /\ req[w].pc = "asideSync"
      /\ Name(w) \in Names /\ Data(w) \in Contents /\ File(w) \in Files
      /\ File(w) \in survive[Name(w)] /\ NameInv(Name(w)) /\ File(w) = disk[Name(w)]
  BY <1>1, Ready
<1>3. CASE Fail(w)
  BY <1>1, <1>3, FailedStep
<1>4. CASE ~Fail(w)
  <2> DEFINE r == [req[w] EXCEPT !.pc = "stale", !.keep = TRUE]
  <2>1. /\ r \in Requests /\ r.pc = "stale" /\ r.name = Name(w) /\ r.data = Data(w)
        /\ r.linked = req[w].linked /\ r.ok = req[w].ok
    BY <1>2 DEF Requests, PCs, Name, Data
  <2>2. req' = [req EXCEPT ![w] = r] /\ UNCHANGED <<disk, day, holder, history>> /\ SyncDay
    BY <1>4 DEF SyncAside
  <2>3. req'[w] = r /\ File(w)' = File(w) /\ Data(w)' = Data(w) /\ Name(w)' = Name(w)
    BY <2>1, <2>2 DEF TypeOK, File, Name, Data
  <2>4. File(w).audio = None /\ File(w).proof = Data(w) /\ ~req[w].linked /\ ~req[w].ok
    BY <1>2 DEF RequestInv, BeforeLink
  <2>5. RequestInv(w)'
    BY <2>1, <2>3, <2>4 DEF RequestInv, BeforeLink, Sealing
  <2> QED
    BY <1>2, <2>1, <2>2, <2>5, SyncStep
<1> QED
  BY <1>3, <1>4

\* While a name has no file there is no promise for it.
LEMMA NoFileNoPromise ==
  ASSUME TypeOK, NEW n \in Names, NameInv(n), disk[n].audio = None
  PROVE  promise[n] = None
BY ConstantsAssumption DEF NameInv, Keeps, TypeOK

LEMMA RemoveStaleKeeps ==
  ASSUME TypeOK, Inductive, NEW w \in Workers, RemoveStale(w)
  PROVE  Inductive'
<1>1. At(w, "stale") /\ "stale" \in PCs \ {"body", "cleanup"}
  BY DEF RemoveStale, PCs
<1>2. /\ Working(w) /\ req[w] \in Requests /\ RequestInv(w) /\ req[w].pc = "stale"
      /\ Name(w) \in Names /\ Data(w) \in Contents /\ File(w) \in Files
      /\ File(w) \in survive[Name(w)] /\ NameInv(Name(w)) /\ File(w) = disk[Name(w)]
  BY <1>1, Ready
<1>3. CASE Fail(w)
  BY <1>1, <1>3, FailedStep
<1>4. File(w).audio = None /\ promise[Name(w)] = None /\ ~req[w].linked /\ ~req[w].ok
      /\ (req[w].keep => File(w).proof = Data(w))
  BY <1>2, NoFileNoPromise DEF RequestInv, BeforeLink
<1>5. ASSUME NEW f \in Files, Put(Name(w), f), UNCHANGED <<req, holder, history>>, ~req[w].keep,
             f.audio = None, f.side = None \/ f.proof = None
      PROVE  Inductive'
  <2>1. req' = [req EXCEPT ![w] = req[w]] /\ req'[w] = req[w]
    BY <1>2, <1>5 DEF TypeOK
  <2>2. File(w)' = f /\ Data(w)' = Data(w) /\ Name(w)' = Name(w)
    BY <1>2, <1>5, <2>1 DEF Put, TypeOK, File, Name, Data
  <2>3. RequestInv(w)'
    BY <1>2, <1>4, <1>5, <2>1, <2>2 DEF RequestInv, BeforeLink, Sealing
  <2>4. Matches(f) /\ SameSource(f) /\ f.audio # Torn
    BY <1>5, ConstantsAssumption DEF Matches, SameSource
  <2> QED
    BY <1>2, <1>4, <1>5, <2>1, <2>3, <2>4, PutStep DEF Name
<1>6. CASE ~req[w].keep /\ File(w).side # None /\ Put(Name(w), [File(w) EXCEPT !.side = None])
           /\ UNCHANGED <<req, holder, history>>
  <2>1. /\ [File(w) EXCEPT !.side = None] \in Files
        /\ [File(w) EXCEPT !.side = None].audio = None /\ [File(w) EXCEPT !.side = None].side = None
    BY <1>2, <1>4 DEF Files
  <2> QED
    BY <1>5, <1>6, <2>1
<1>7. CASE ~req[w].keep /\ File(w).side = None /\ Put(Name(w), [File(w) EXCEPT !.proof = None])
           /\ UNCHANGED <<req, holder, history>>
  <2>1. /\ [File(w) EXCEPT !.proof = None] \in Files
        /\ [File(w) EXCEPT !.proof = None].audio = None /\ [File(w) EXCEPT !.proof = None].proof = None
    BY <1>2, <1>4 DEF Files
  <2> QED
    BY <1>5, <1>7, <2>1
<1>8. CASE /\ req[w].keep \/ (File(w).side = None /\ File(w).proof = None)
           /\ Goto(w, "side")
           /\ UNCHANGED <<storeVars, holder, history, errors>>
  <2> DEFINE r == [req[w] EXCEPT !.pc = "side"]
  <2>1. /\ r \in Requests /\ r.pc = "side" /\ r.name = Name(w) /\ r.data = Data(w)
        /\ r.linked = req[w].linked /\ r.ok = req[w].ok /\ r.keep = req[w].keep
    BY <1>2 DEF Requests, PCs, Name, Data
  <2>2. req' = [req EXCEPT ![w] = r] /\ UNCHANGED <<storeVars, holder, history>>
    BY <1>8 DEF Goto
  <2>3. req'[w] = r /\ File(w)' = File(w) /\ Data(w)' = Data(w) /\ Name(w)' = Name(w)
    BY <2>1, <2>2 DEF TypeOK, File, Name, Data, storeVars
  <2>4. File(w).side \in Own(w) /\ File(w).proof \in Own(w)
    BY <1>2, <1>4, <1>8, ConstantsAssumption DEF NameInv, SameSource, Own
  <2>5. RequestInv(w)'
    BY <1>4, <2>1, <2>3, <2>4 DEF RequestInv, BeforeLink, Sealing, Own
  <2> QED
    BY <1>2, <2>1, <2>2, <2>5, QuietStep DEF storeVars
<1> QED
  BY <1>3, <1>6, <1>7, <1>8 DEF RemoveStale

LEMMA WriteSideKeeps ==
  ASSUME TypeOK, Inductive, NEW w \in Workers, WriteSide(w)
  PROVE  Inductive'
<1>1. At(w, "side") /\ "side" \in PCs \ {"body", "cleanup"}
  BY DEF WriteSide, PCs
<1>2. /\ Working(w) /\ req[w] \in Requests /\ RequestInv(w) /\ req[w].pc = "side"
      /\ Name(w) \in Names /\ Data(w) \in Contents /\ File(w) \in Files
      /\ File(w) \in survive[Name(w)] /\ NameInv(Name(w)) /\ File(w) = disk[Name(w)]
  BY <1>1, Ready
<1>3. CASE Fail(w)
  BY <1>1, <1>3, FailedStep
<1>4. CASE ~Fail(w)
  <2> DEFINE new == req[w].meta /\ ~(req[w].keep /\ File(w).side # None)
  <2> DEFINE f == IF new THEN [File(w) EXCEPT !.side = Data(w)] ELSE File(w)
  <2> DEFINE r == IF new THEN [req[w] EXCEPT !.pc = "temp", !.wrote = TRUE, !.trying = TRUE]
                         ELSE [req[w] EXCEPT !.pc = "temp", !.trying = TRUE]
  <2>1. /\ r \in Requests /\ r.pc = "temp" /\ r.name = Name(w) /\ r.data = Data(w)
        /\ r.linked = req[w].linked /\ r.ok = req[w].ok /\ r.keep = req[w].keep
        /\ r.meta = req[w].meta
    BY <1>2 DEF Requests, PCs, Name, Data
  <2>2. /\ req' = [req EXCEPT ![w] = r] /\ UNCHANGED <<holder, history>>
        /\ Put(Name(w), f) \/ UNCHANGED storeVars
        /\ ~new => UNCHANGED storeVars
        /\ new => Put(Name(w), f)
    BY <1>4 DEF WriteSide
  <2>3. f \in Files /\ f.audio = File(w).audio /\ f.proof = File(w).proof
        /\ f.side = (IF new THEN Data(w) ELSE File(w).side)
    BY <1>2 DEF Files
  <2>4. File(w)' = f /\ req'[w] = r /\ Data(w)' = Data(w) /\ Name(w)' = Name(w)
    BY <1>2, <2>1, <2>2 DEF Put, File, Name, Data, TypeOK, storeVars
  <2>5. /\ File(w).audio = None /\ promise[Name(w)] = None /\ ~req[w].linked /\ ~req[w].ok
        /\ req[w].keep => File(w).proof = Data(w)
        /\ File(w).side \in Own(w) /\ File(w).proof \in Own(w)
    BY <1>2, NoFileNoPromise DEF RequestInv, BeforeLink
  <2>6. RequestInv(w)'
    BY <2>1, <2>3, <2>4, <2>5 DEF RequestInv, Own, BeforeLink, Sealing
  <2>7. CASE new
    <3>1. Matches(f) /\ SameSource(f) /\ f.audio # Torn
      BY <2>3, <2>5, ConstantsAssumption DEF Matches, SameSource, Own
    <3> QED
      BY <1>2, <2>1, <2>2, <2>3, <2>5, <2>6, <2>7, <3>1, PutStep
  <2>8. CASE ~new
    BY <1>2, <2>1, <2>2, <2>6, <2>8, QuietStep DEF storeVars
  <2> QED
    BY <2>7, <2>8
<1> QED
  BY <1>3, <1>4

LEMMA LinkKeeps ==
  ASSUME TypeOK, Inductive, NEW w \in Workers, Link(w)
  PROVE  Inductive'
<1>1. At(w, "link") /\ "link" \in PCs \ {"body", "cleanup"}
  BY DEF Link, PCs
<1>2. /\ Working(w) /\ req[w] \in Requests /\ RequestInv(w) /\ req[w].pc = "link"
      /\ Name(w) \in Names /\ Data(w) \in Contents /\ File(w) \in Files
      /\ File(w) \in survive[Name(w)] /\ NameInv(Name(w)) /\ File(w) = disk[Name(w)]
  BY <1>1, Ready
<1>3. CASE Fail(w)
  BY <1>1, <1>3, FailedStep
<1>4. CASE ~Fail(w)
  <2> DEFINE f == [File(w) EXCEPT !.audio = Data(w)]
  <2> DEFINE r == [req[w] EXCEPT !.pc = "sync", !.linked = TRUE]
  <2>1. /\ r \in Requests /\ r.pc = "sync" /\ r.name = Name(w) /\ r.data = Data(w)
        /\ r.linked = TRUE /\ r.ok = req[w].ok /\ r.keep = req[w].keep /\ r.meta = req[w].meta
    BY <1>2 DEF Requests, PCs, Name, Data
  <2>2. req' = [req EXCEPT ![w] = r] /\ UNCHANGED <<holder, history>> /\ Put(Name(w), f)
    <3>3. AfterPowerLoss(w) = {Data(w)}
      BY <1>2 DEF RequestInv, AfterPowerLoss
    <3>1. {[File(w) EXCEPT !.audio = a] : a \in {Data(w)}} = {f}
      OBVIOUS
    <3>2. /\ disk' = [disk EXCEPT ![Name(w)] = f] /\ UNCHANGED <<day, holder, history>>
          /\ survive' = [survive EXCEPT ![Name(w)] =
                           @ \cup {[File(w) EXCEPT !.audio = a] : a \in {Data(w)}}]
          /\ req' = [req EXCEPT ![w] = r]
      BY <1>4, <3>3 DEF Link
    <3> QED
      BY <3>1, <3>2 DEF Put
  <2>3. f \in Files /\ f.audio = Data(w) /\ f.proof = File(w).proof /\ f.side = File(w).side
    BY <1>2 DEF Files, Audio
  <2>4. File(w)' = f /\ req'[w] = r /\ Data(w)' = Data(w) /\ Name(w)' = Name(w)
    BY <1>2, <2>1, <2>2 DEF Put, File, Name, Data, TypeOK
  <2>5. /\ File(w).audio = None /\ promise[Name(w)] = None /\ ~req[w].ok
        /\ req[w].keep => File(w).proof = Data(w)
        /\ req[w].meta => File(w).side = Data(w)
        /\ File(w).side \in Own(w) /\ File(w).proof \in Own(w)
    BY <1>2, NoFileNoPromise DEF RequestInv, BeforeLink
  <2>6. promise'[Name(w)] = None
    BY <2>2, <2>5 DEF history
  <2>7. RequestInv(w)'
    BY <2>1, <2>3, <2>4, <2>5, <2>6 DEF RequestInv, Own, BeforeLink, Sealing
  <2>8. Matches(f) /\ SameSource(f) /\ f.audio # Torn
    BY <1>2, <2>3, <2>5, ConstantsAssumption DEF Matches, SameSource, Own
  <2> QED
    BY <1>2, <2>1, <2>2, <2>3, <2>5, <2>7, <2>8, PutStep
<1> QED
  BY <1>3, <1>4

\* Under the lock no other writer can have linked the name.
LEMMA LinkLostKeeps ==
  ASSUME TypeOK, Inductive, NEW w \in Workers, LinkLost(w)
  PROVE  Inductive'
<1>1. At(w, "link") /\ "link" \in PCs \ {"body"}
  BY DEF LinkLost, PCs
<1>2. File(w).audio = None
  BY <1>1, Ready DEF RequestInv, BeforeLink
<1> QED
  BY <1>2 DEF LinkLost

LEMMA SyncLinkKeeps ==
  ASSUME TypeOK, Inductive, NEW w \in Workers, SyncLink(w)
  PROVE  Inductive'
<1>1. At(w, "sync") /\ "sync" \in PCs \ {"body", "cleanup"}
  BY DEF SyncLink, PCs
<1>2. /\ Working(w) /\ req[w] \in Requests /\ RequestInv(w) /\ req[w].pc = "sync"
      /\ Name(w) \in Names /\ Data(w) \in Contents /\ File(w) \in Files
      /\ File(w) \in survive[Name(w)] /\ NameInv(Name(w)) /\ File(w) = disk[Name(w)]
  BY <1>1, Ready
<1>3. CASE Fail(w)
  BY <1>1, <1>3, FailedStep
<1>4. CASE ~Fail(w)
  <2> DEFINE r == [req[w] EXCEPT !.pc = "readback"]
  <2>1. /\ r \in Requests /\ r.pc = "readback" /\ r.name = Name(w) /\ r.data = Data(w)
        /\ r.linked = req[w].linked /\ r.ok = req[w].ok /\ r.keep = req[w].keep
        /\ r.meta = req[w].meta
    BY <1>2 DEF Requests, PCs, Name, Data
  <2>2. req' = [req EXCEPT ![w] = r] /\ UNCHANGED <<disk, day, holder, history>> /\ SyncDay
    BY <1>4 DEF SyncLink, Goto
  <2>3. /\ req'[w] = r /\ File(w)' = File(w) /\ Data(w)' = Data(w) /\ Name(w)' = Name(w)
        /\ promise' = promise
    BY <2>1, <2>2 DEF TypeOK, File, Name, Data, history
  <2>4. /\ ~req[w].ok /\ (req[w].keep => File(w).proof = Data(w))
        /\ req[w].meta => File(w).side = Data(w)
        /\ File(w).side \in Own(w) /\ File(w).proof \in Own(w)
        /\ req[w].linked => promise[Name(w)] = None
    BY <1>2 DEF RequestInv
  <2>5. RequestInv(w)'
    BY <2>1, <2>3, <2>4 DEF RequestInv, BeforeLink, Sealing, Own
  <2> QED
    BY <1>2, <2>1, <2>2, <2>5, SyncStep
<1> QED
  BY <1>3, <1>4

LEMMA ReadBackKeeps ==
  ASSUME TypeOK, Inductive, NEW w \in Workers, ReadBack(w)
  PROVE  Inductive'
<1>1. At(w, "readback") /\ "readback" \in PCs \ {"body", "cleanup"}
  BY DEF ReadBack, PCs
<1>2. /\ Working(w) /\ req[w] \in Requests /\ RequestInv(w) /\ req[w].pc = "readback"
      /\ Name(w) \in Names /\ Data(w) \in Contents /\ File(w) \in Files
      /\ File(w) \in survive[Name(w)] /\ NameInv(Name(w)) /\ File(w) = disk[Name(w)]
  BY <1>1, Ready
<1>3. CASE Fail(w)
  BY <1>1, <1>3, FailedStep
<1>4. CASE ~Fail(w) /\ File(w).audio = Data(w)
  <2> DEFINE r == [req[w] EXCEPT !.pc = "proof", !.linked = FALSE, !.proven = TRUE, !.sound = TRUE]
  <2>1. /\ r \in Requests /\ r.pc = "proof" /\ r.name = Name(w) /\ r.data = Data(w)
        /\ r.linked = FALSE /\ r.ok = req[w].ok /\ r.keep = req[w].keep /\ r.meta = req[w].meta
    BY <1>2 DEF Requests, PCs, Name, Data
  <2>2. req' = [req EXCEPT ![w] = r] /\ UNCHANGED <<storeVars, holder, history>>
    BY <1>4 DEF ReadBack, Goto
  <2>3. req'[w] = r /\ File(w)' = File(w) /\ Data(w)' = Data(w) /\ Name(w)' = Name(w)
    BY <2>1, <2>2 DEF TypeOK, File, Name, Data, storeVars
  <2>4. /\ ~req[w].ok /\ (req[w].keep => File(w).proof = Data(w))
        /\ req[w].meta => File(w).side = Data(w)
        /\ File(w).side \in Own(w) /\ File(w).proof \in Own(w)
    BY <1>2 DEF RequestInv
  <2>5. RequestInv(w)'
    BY <1>4, <2>1, <2>3, <2>4 DEF RequestInv, BeforeLink, Sealing, Own
  <2> QED
    BY <1>2, <2>1, <2>2, <2>5, QuietStep DEF storeVars
<1>5. CASE ~Fail(w) /\ File(w).audio # Data(w)
  <2> DEFINE r == [req[w] EXCEPT !.pc = "cleanup"]
  <2>1. /\ r \in Requests /\ r.pc = "cleanup" /\ r.name = Name(w) /\ r.data = Data(w)
        /\ r.linked = req[w].linked /\ r.ok = req[w].ok /\ r.keep = req[w].keep
    BY <1>2 DEF Requests, PCs, Name, Data
  <2>2. req' = [req EXCEPT ![w] = r] /\ UNCHANGED <<storeVars, holder, history>>
    BY <1>5 DEF ReadBack, Goto
  <2>3. /\ req'[w] = r /\ File(w)' = File(w) /\ Data(w)' = Data(w) /\ Name(w)' = Name(w)
        /\ promise' = promise
    BY <2>1, <2>2 DEF TypeOK, File, Name, Data, storeVars, history
  <2>4. /\ ~req[w].ok /\ (req[w].keep => File(w).proof = Data(w))
        /\ req[w].linked => promise[Name(w)] = None
    BY <1>2 DEF RequestInv
  <2>5. RequestInv(w)'
    BY <2>1, <2>3, <2>4 DEF RequestInv, BeforeLink, Sealing
  <2> QED
    BY <1>2, <2>1, <2>2, <2>5, QuietStep DEF storeVars
<1> QED
  BY <1>3, <1>4, <1>5

LEMMA WriteProofKeeps ==
  ASSUME TypeOK, Inductive, NEW w \in Workers, WriteProof(w)
  PROVE  Inductive'
<1>1. At(w, "proof") /\ "proof" \in PCs \ {"body", "cleanup"}
  BY DEF WriteProof, PCs
<1>2. /\ Working(w) /\ req[w] \in Requests /\ RequestInv(w) /\ req[w].pc = "proof"
      /\ Name(w) \in Names /\ Data(w) \in Contents /\ File(w) \in Files
      /\ File(w) \in survive[Name(w)] /\ NameInv(Name(w)) /\ File(w) = disk[Name(w)]
  BY <1>1, Ready
<1>3. CASE Fail(w)
  BY <1>1, <1>3, FailedStep
<1>4. CASE ~Fail(w)
  <2> DEFINE f == [File(w) EXCEPT !.proof = Data(w)]
  <2> DEFINE r == [req[w] EXCEPT !.pc = "proofSync"]
  <2>1. /\ r \in Requests /\ r.pc = "proofSync" /\ r.name = Name(w) /\ r.data = Data(w)
        /\ r.linked = req[w].linked /\ r.ok = req[w].ok /\ r.keep = req[w].keep
        /\ r.meta = req[w].meta /\ r.sound = req[w].sound
    BY <1>2 DEF Requests, PCs, Name, Data
  <2>2. req' = [req EXCEPT ![w] = r] /\ UNCHANGED <<holder, history>> /\ Put(Name(w), f)
    BY <1>4 DEF WriteProof, Goto
  <2>3. f \in Files /\ f.audio = File(w).audio /\ f.proof = Data(w) /\ f.side = File(w).side
    BY <1>2 DEF Files
  <2>4. File(w)' = f /\ req'[w] = r /\ Data(w)' = Data(w) /\ Name(w)' = Name(w)
    BY <1>2, <2>1, <2>2 DEF Put, File, Name, Data, TypeOK
  <2>5. /\ ~req[w].ok /\ ~req[w].linked
        /\ req[w].meta => File(w).side = Data(w)
        /\ File(w).side \in Own(w) /\ File(w).proof \in Own(w)
        /\ File(w).audio \in {Data(w), Rot, None} /\ (req[w].sound => File(w).audio = Data(w))
    BY <1>2 DEF RequestInv, Sealing
  <2>6. RequestInv(w)'
    BY <2>1, <2>3, <2>4, <2>5 DEF RequestInv, Own, BeforeLink, Sealing
  <2>7. Matches(f) /\ SameSource(f) /\ f.audio # Torn
    BY <1>2, <2>3, <2>5, ConstantsAssumption DEF Matches, SameSource, Own
  <2>8. promise[Name(w)] # None => Keeps(Name(w), f)
    BY <1>2, <2>3, <2>5, ConstantsAssumption DEF Keeps, Own, NameInv, TypeOK
  <2> QED
    BY <1>2, <2>1, <2>2, <2>3, <2>6, <2>7, <2>8, PutStep
<1> QED
  BY <1>3, <1>4

LEMMA SyncProofKeeps ==
  ASSUME TypeOK, Inductive, NEW w \in Workers, SyncProof(w)
  PROVE  Inductive'
<1>1. At(w, "proofSync") /\ "proofSync" \in PCs \ {"body", "cleanup"}
  BY DEF SyncProof, PCs
<1>2. /\ Working(w) /\ req[w] \in Requests /\ RequestInv(w) /\ req[w].pc = "proofSync"
      /\ Name(w) \in Names /\ Data(w) \in Contents /\ File(w) \in Files
      /\ File(w) \in survive[Name(w)] /\ NameInv(Name(w)) /\ File(w) = disk[Name(w)]
  BY <1>1, Ready
<1>3. CASE Fail(w)
  BY <1>1, <1>3, FailedStep
<1>4. CASE ~Fail(w)
  <2> DEFINE r == [req[w] EXCEPT !.pc = "persist"]
  <2>1. /\ r \in Requests /\ r.pc = "persist" /\ r.name = Name(w) /\ r.data = Data(w)
        /\ r.linked = req[w].linked /\ r.ok = req[w].ok /\ r.keep = req[w].keep
        /\ r.meta = req[w].meta /\ r.sound = req[w].sound
    BY <1>2 DEF Requests, PCs, Name, Data
  <2>2. req' = [req EXCEPT ![w] = r] /\ UNCHANGED <<disk, day, holder, history>> /\ SyncDay
    BY <1>4 DEF SyncProof, Goto
  <2>3. req'[w] = r /\ File(w)' = File(w) /\ Data(w)' = Data(w) /\ Name(w)' = Name(w)
    BY <2>1, <2>2 DEF TypeOK, File, Name, Data
  <2>4. /\ ~req[w].ok /\ ~req[w].linked
        /\ req[w].meta => File(w).side = Data(w)
        /\ File(w).side \in Own(w) /\ File(w).proof = Data(w)
        /\ File(w).audio \in {Data(w), Rot, None} /\ (req[w].sound => File(w).audio = Data(w))
    BY <1>2 DEF RequestInv, Sealing
  <2>5. RequestInv(w)'
    BY <2>1, <2>3, <2>4 DEF RequestInv, BeforeLink, Sealing, Own
  <2> QED
    BY <1>2, <2>1, <2>2, <2>5, SyncStep
<1> QED
  BY <1>3, <1>4
-----------------------------------------------------------------------------
(* The answer *)

\* What must hold of the files when the answer of w goes out.
LEMMA AnswerKeeps ==
  ASSUME TypeOK, Inductive, NEW w \in Workers, Working(w), AnswerStored(w),
         NEW n \in Names, n = Name(w),
         \A m \in Names \ {n} :
           disk'[m] = disk[m] /\ (survive'[m] = survive[m] \/ survive'[m] = {disk[m]}),
         day' = "durable", disk'[n] \in survive'[n],
         \A f \in survive'[n] : /\ Matches(f) /\ SameSource(f) /\ f.audio # Torn
                                /\ f.audio = File(w).audio /\ f.audio \in {Data(w), Rot, None}
                                /\ f.proof = Data(w)
                                /\ req[w].sound => f.audio = Data(w)
                                /\ req[w].meta => f.side = Data(w),
         \A f \in survive'[n] : f \in survive[n]
  PROVE  Inductive'
<1>1. req' = [req EXCEPT ![w] = Idle] /\ holder' = HolderAfter(w)
  BY DEF AnswerStored
<1>2. Frame(w) /\ req'[w] = Idle
  <2>1. \A m \in Names \ {n} :
          promise'[m] = promise[m] /\ timed'[m] = timed[m] /\ spoiled'[m] = spoiled[m]
    BY DEF AnswerStored, TypeOK
  <2>2. \A m \in Names \ {n} : holder'[m] = holder[m]
    BY <1>1 DEF HolderAfter, TypeOK
  <2>3. \A v \in Workers \ {w} : req'[v] = req[v]
    BY <1>1 DEF TypeOK
  <2> QED
    BY <1>1, <2>1, <2>2, <2>3 DEF Frame, TypeOK
<1>3. NameInv(n)'
  <2>1. CASE req[w].gone \/ File(w).audio = None
    <3>1. promise'[n] = promise[n] /\ timed'[n] = timed[n] /\ spoiled'[n] = spoiled[n]
      BY <2>1 DEF AnswerStored
    <3> QED
      BY <3>1 DEF NameInv, Keeps, Matches, SameSource, Inductive, DiskInv
  <2>2. CASE ~req[w].gone /\ File(w).audio # None
    <3>1. promise'[n] = Data(w) /\ timed'[n] = req[w].meta /\ spoiled'[n] = ~req[w].sound
      BY <2>2 DEF AnswerStored, TypeOK
    <3> QED
      BY <2>2, <3>1 DEF NameInv, Keeps, Matches, SameSource
  <2> QED
    BY <2>1, <2>2
<1> QED
  BY <1>2, <1>3, StepOf

LEMMA PersistChainKeeps ==
  ASSUME TypeOK, Inductive, NEW w \in Workers, PersistChain(w)
  PROVE  Inductive'
<1>1. At(w, "persist") /\ "persist" \in PCs \ {"body", "cleanup"}
  BY DEF PersistChain, PCs
<1>2. /\ Working(w) /\ req[w] \in Requests /\ RequestInv(w) /\ req[w].pc = "persist"
      /\ Name(w) \in Names /\ Data(w) \in Contents /\ File(w) \in Files
      /\ File(w) \in survive[Name(w)] /\ NameInv(Name(w)) /\ File(w) = disk[Name(w)]
  BY <1>1, Ready
<1>3. CASE Fail(w)
  BY <1>1, <1>3, FailedStep
<1>4. /\ ~req[w].ok /\ ~req[w].linked /\ (req[w].keep => File(w).proof = Data(w))
      /\ req[w].meta => File(w).side = Data(w)
      /\ File(w).side \in Own(w) /\ File(w).proof = Data(w)
      /\ File(w).audio \in {Data(w), Rot, None} /\ (req[w].sound => File(w).audio = Data(w))
  BY <1>2 DEF RequestInv, Sealing
<1>5. CASE ~Fail(w) /\ req[w].trying
  <2> DEFINE r == [req[w] EXCEPT !.pc = "cleanup", !.proven = TRUE, !.ok = TRUE]
  <2>1. /\ r \in Requests /\ r.pc = "cleanup" /\ r.name = Name(w) /\ r.data = Data(w)
        /\ r.linked = req[w].linked /\ r.ok = TRUE /\ r.proven = TRUE /\ r.keep = req[w].keep
        /\ r.meta = req[w].meta /\ r.sound = req[w].sound
    BY <1>2 DEF Requests, PCs, Name, Data
  <2>2. /\ req' = [req EXCEPT ![w] = r] /\ UNCHANGED <<disk, holder, history>>
        /\ SyncDay /\ day' = "durable"
    BY <1>5 DEF PersistChain, PersistEffect
  <2>3. /\ req'[w] = r /\ File(w)' = File(w) /\ Data(w)' = Data(w) /\ Name(w)' = Name(w)
        /\ survive'[Name(w)] = {File(w)}
    BY <1>2, <2>1, <2>2 DEF TypeOK, File, Name, Data, SyncDay
  <2>4. RequestInv(w)'
    BY <1>4, <2>1, <2>2, <2>3 DEF RequestInv, BeforeLink, Sealing, Own
  <2> QED
    BY <1>2, <2>1, <2>2, <2>4, SyncStep
<1>6. CASE ~Fail(w) /\ ~req[w].trying
  <2>1. AnswerStored(w) /\ SyncDay /\ day' = "durable" /\ UNCHANGED disk
    BY <1>6 DEF PersistChain, PersistEffect
  <2>2. \A m \in Names : disk'[m] = disk[m] /\ survive'[m] = {disk[m]}
    BY <2>1 DEF SyncDay
  <2>3. survive'[Name(w)] = {File(w)}
    BY <1>2, <2>2
  <2>4. Matches(File(w)) /\ SameSource(File(w)) /\ File(w).audio # Torn
    BY <1>2 DEF NameInv
  <2> QED
    BY <1>2, <1>4, <2>1, <2>2, <2>3, <2>4, AnswerKeeps
<1> QED
  BY <1>3, <1>5, <1>6

LEMMA CleanupFailsKeeps ==
  ASSUME TypeOK, Inductive, NEW w \in Workers, CleanupFails(w)
  PROVE  Inductive'
<1>1. Working(w)
  BY Ready DEF CleanupFails, PCs
<1> QED
  BY <1>1, RefusedStep DEF CleanupFails

LEMMA CleanupKeeps ==
  ASSUME TypeOK, Inductive, NEW w \in Workers, Cleanup(w)
  PROVE  Inductive'
<1>1. At(w, "cleanup") /\ "cleanup" \in PCs \ {"body"}
  BY DEF Cleanup, PCs
<1>2. /\ Working(w) /\ req[w] \in Requests /\ RequestInv(w) /\ req[w].pc = "cleanup"
      /\ Name(w) \in Names /\ Data(w) \in Contents /\ File(w) \in Files
      /\ File(w) \in survive[Name(w)] /\ NameInv(Name(w)) /\ File(w) = disk[Name(w)]
  BY <1>1, Ready
<1>3. PICK n \in Names : n = Name(w)
  BY <1>2
<1>4. PICK f \in Unlinked(w) : \E g \in SideDropped(w, f) :
        /\ disk' = [disk EXCEPT ![Name(w)] = g]
        /\ \/ survive' = [survive EXCEPT ![Name(w)] = @ \cup {f, g}]
           \/ /\ f # File(w)
              /\ survive' = [m \in Names |-> IF m = Name(w) THEN {f, g} ELSE {disk[m]}]
  BY DEF Cleanup
<1>5. PICK g \in SideDropped(w, f) :
        /\ disk' = [disk EXCEPT ![n] = g]
        /\ \/ survive' = [survive EXCEPT ![n] = @ \cup {f, g}]
           \/ /\ f # File(w)
              /\ survive' = [m \in Names |-> IF m = n THEN {f, g} ELSE {disk[m]}]
  BY <1>3, <1>4
<1>6. /\ day' = day /\ disk'[n] = g
      /\ \A m \in Names \ {n} : disk'[m] = disk[m] /\ (survive'[m] = survive[m] \/ survive'[m] = {disk[m]})
  BY <1>5 DEF Cleanup, TypeOK
<1>7. survive'[n] = survive[n] \cup {f, g} \/ (f # File(w) /\ survive'[n] = {f, g})
  BY <1>5 DEF TypeOK
<1>8. CASE req[w].ok
  <2>1. /\ req[w].proven /\ ~req[w].linked /\ day = "durable"
        /\ \A h \in survive[n] :
             /\ h.audio = File(w).audio /\ h.audio \in {Data(w), Rot, None} /\ h.proof = Data(w)
             /\ req[w].sound => h.audio = Data(w)
             /\ req[w].meta => h.side = Data(w)
    BY <1>2, <1>3, <1>8 DEF RequestInv
  <2>2. f = File(w) /\ g = File(w)
    BY <1>4, <1>5, <2>1 DEF Unlinked, SideDropped
  <2>3. survive'[n] = survive[n] /\ disk'[n] \in survive'[n]
    BY <1>2, <1>3, <1>6, <1>7, <2>2
  <2>4. \A h \in survive[n] : Matches(h) /\ SameSource(h) /\ h.audio # Torn
    BY <1>2, <1>3 DEF NameInv
  <2>5. AnswerStored(w)
    BY <1>8 DEF Cleanup
  <2> QED
    BY <1>2, <1>3, <1>6, <2>1, <2>3, <2>4, <2>5, AnswerKeeps
<1>9. CASE ~req[w].ok
  <2>1. Refuse(w)
    BY <1>9 DEF Cleanup
  <2>2. req[w].linked => promise[n] = None
    BY <1>2, <1>3 DEF RequestInv
  <2>3. /\ f \in Files /\ g \in Files
        /\ f.audio \in {File(w).audio, None} /\ f.side = File(w).side /\ f.proof = File(w).proof
        /\ g.audio = f.audio /\ g.side \in {f.side, None} /\ g.proof = f.proof
        /\ g.side # f.side => f.audio = None
        /\ f # File(w) => req[w].linked
    BY <1>2, <1>4, <1>5 DEF Unlinked, SideDropped, Files, Audio
  <2>4. Matches(f) /\ SameSource(f) /\ f.audio # Torn /\ Matches(g) /\ SameSource(g) /\ g.audio # Torn
    BY <1>2, <2>3, ConstantsAssumption DEF NameInv, Matches, SameSource
  <2>5. promise[n] # None => f = File(w) /\ g = f
    <3> SUFFICES ASSUME promise[n] # None PROVE f = File(w) /\ g = f
      OBVIOUS
    <3>1. f = File(w) /\ f.audio # None
      BY <1>2, <1>3, <2>2, <2>3, NoFileNoPromise
    <3> QED
      BY <1>5, <3>1 DEF SideDropped
  <2>6. promise' = promise /\ timed' = timed /\ spoiled' = spoiled
    BY <2>1 DEF Refuse, history
  <2>7. NameInv(n)'
    BY <1>2, <1>3, <1>6, <1>7, <2>4, <2>5, <2>6 DEF NameInv, Matches, SameSource, Keeps
  <2>8. Frame(w) /\ req'[w] = Idle
    BY <1>3, <1>6, <2>1, <2>6 DEF Frame, Refuse, HolderAfter, TypeOK
  <2> QED
    BY <1>2, <1>3, <2>7, <2>8, StepOf
<1> QED
  BY <1>8, <1>9
-----------------------------------------------------------------------------
(* Possession checks, crashes and damage *)

LEMMA RestartKeeps ==
  ASSUME TypeOK, Inductive, Restarted, DiskInv'
  PROVE  Inductive'
BY DEF Restarted, Inductive, LockInv, ReqInv, Working

LEMMA HaveKeeps ==
  ASSUME TypeOK, Inductive, NEW n \in Names, NEW c \in Contents, Have(n, c)
  PROVE  Inductive'
<1>1. DiskInv'
  BY NameKept DEF Inductive, DiskInv, Have, storeVars
<1>2. \A w \in Workers : Working(w) => RequestInv(w)'
  <2> SUFFICES ASSUME NEW w \in Workers, Working(w) PROVE RequestInv(w)'
    OBVIOUS
  <2>1. Name(w) \in Names
    BY Parts DEF Working, TypeOK
  <2> QED
    BY <2>1, RequestKept DEF Inductive, ReqInv, DiskInv, Have, storeVars
<1> QED
  BY <1>1, <1>2 DEF Inductive, LockInv, ReqInv, Working, Fresh, Name, Have

LEMMA KillKeeps ==
  ASSUME TypeOK, Inductive, Kill
  PROVE  Inductive'
<1>1. DiskInv'
  BY NameKept DEF Inductive, DiskInv, Kill, Restarted, storeVars
<1> QED
  BY <1>1, RestartKeeps DEF Kill

LEMMA PowerLossKeeps ==
  ASSUME TypeOK, Inductive, PowerLoss
  PROVE  Inductive'
<1>1. UNCHANGED <<promise, timed, spoiled>>
  BY DEF PowerLoss, Restarted
<1>2. CASE \E left \in [Names -> UNION {survive[n] : n \in Names}] :
             /\ \A n \in Names : left[n] \in survive[n]
             /\ disk' = left
             /\ survive' = [n \in Names |-> {left[n]}]
             /\ day' = IF day = "made" THEN "durable" ELSE day
  <2>1. \A n \in Names : disk'[n] \in survive[n] /\ survive'[n] = {disk'[n]}
    BY <1>2
  <2>2. day = "durable" => day' = "durable"
    BY <1>2
  <2>3. DiskInv'
    BY <1>1, <2>1, <2>2 DEF Inductive, DiskInv, NameInv, Keeps, Matches, SameSource
  <2> QED
    BY <2>3, RestartKeeps DEF PowerLoss
<1>3. CASE /\ day = "made"
           /\ disk' = [n \in Names |-> NoFiles]
           /\ survive' = [n \in Names |-> {NoFiles}]
  <2>1. \A n \in Names : promise'[n] = None
    BY <1>1, <1>3 DEF Inductive, DiskInv, NameInv
  <2>2. \A n \in Names : disk'[n] = NoFiles /\ survive'[n] = {NoFiles}
    BY <1>3
  <2>3. DiskInv'
    BY <2>1, <2>2, ConstantsAssumption DEF DiskInv, NameInv, Matches, SameSource, NoFiles
  <2> QED
    BY <2>3, RestartKeeps DEF PowerLoss
<1> QED
  BY <1>2, <1>3 DEF PowerLoss

\* The bytes of n change or go; n's promise, if any, is spoiled or over.
LEMMA DamageKeeps ==
  ASSUME TypeOK, Inductive, NEW n \in Names, NEW a \in {None, Rot}, DamageTo(n, a),
         timed' = timed,
         \A m \in Names \ {n} : promise'[m] = promise[m] /\ spoiled'[m] = spoiled[m],
         promise'[n] = None \/ (a = Rot /\ promise'[n] = promise[n] /\ spoiled'[n])
  PROVE  Inductive'
<1> DEFINE hit(f) == IF f.audio = disk[n].audio THEN [f EXCEPT !.audio = a] ELSE f
<1>1. /\ disk' = [disk EXCEPT ![n] = [disk[n] EXCEPT !.audio = a]]
      /\ survive' = [survive EXCEPT ![n] = {hit(f) : f \in @}]
      /\ disk[n].audio \in Contents /\ UNCHANGED <<day, holder>>
  BY DEF DamageTo
<1>2. /\ disk'[n] = hit(disk[n]) /\ survive'[n] = {hit(f) : f \in survive[n]}
      /\ \A m \in Names \ {n} : disk'[m] = disk[m] /\ survive'[m] = survive[m]
  BY <1>1 DEF TypeOK
<1>3. \A f \in survive[n] :
        /\ f \in Files
        /\ hit(f).side = f.side /\ hit(f).proof = f.proof
        /\ hit(f).audio = IF f.audio = disk[n].audio THEN a ELSE f.audio
  BY DEF TypeOK, Files
<1> HIDE DEF hit
<1>4. a \notin Contents /\ a # Torn
  BY ConstantsAssumption
<1>5. NameInv(n) /\ disk[n] \in survive[n]
  BY DEF Inductive, DiskInv, NameInv
<1>6. NameInv(n)'
  <2>1. disk'[n] \in survive'[n]
    BY <1>2, <1>5 DEF NameInv
  <2>2. \A f \in survive'[n] : Matches(f) /\ SameSource(f) /\ f.audio # Torn
    <3> SUFFICES ASSUME NEW f \in survive[n]
                 PROVE  Matches(hit(f)) /\ SameSource(hit(f)) /\ hit(f).audio # Torn
      BY <1>2
    <3>1. Matches(f) /\ SameSource(f) /\ f.audio # Torn
      BY <1>5 DEF NameInv
    <3> QED
      BY <1>3, <1>4, <3>1 DEF Matches, SameSource
  <2>3. ASSUME promise'[n] # None
        PROVE  /\ day' = "durable" /\ spoiled'[n]
               /\ \A f \in survive'[n] : /\ f.audio \in {promise'[n], Rot}
                                         /\ f.proof = promise'[n]
                                         /\ timed'[n] => f.side = promise'[n]
    <3>1. a = Rot /\ promise'[n] = promise[n] /\ spoiled'[n] /\ timed'[n] = timed[n]
      BY <2>3
    <3>2. day = "durable" /\ \A f \in survive[n] : Keeps(n, f)
      BY <1>5, <2>3, <3>1 DEF NameInv
    <3>3. ASSUME NEW f \in survive[n]
          PROVE  /\ hit(f).audio \in {promise[n], Rot} /\ hit(f).proof = promise[n]
                 /\ timed[n] => hit(f).side = promise[n]
      BY <1>3, <3>1, <3>2 DEF Keeps
    <3> QED
      BY <1>1, <1>2, <3>1, <3>2, <3>3
  <2>4. promise'[n] # None => \A f \in survive'[n] : Keeps(n, f)'
    BY <2>3 DEF Keeps
  <2> QED
    BY <2>1, <2>2, <2>3, <2>4 DEF NameInv, Matches, SameSource
<1>7. DiskInv'
  <2> SUFFICES ASSUME NEW m \in Names, m # n PROVE NameInv(m)'
    BY <1>6 DEF DiskInv
  <2> QED
    BY <1>1, <1>2, NameKept DEF Inductive, DiskInv
<1>8. \A w \in Workers : \/ req'[w] = req[w] /\ (req[w] = Idle \/ Name(w) # n)
                         \/ req[w] \in Requests /\ Name(w) = n /\ req'[w] = [req[w] EXCEPT !.sound = FALSE]
  BY DEF DamageTo, TypeOK, Name
<1>9. \A w \in Workers : Working(w)' => Working(w) /\ Name(w)' = Name(w)
  BY <1>8 DEF Working, Name, Requests, Idle
<1>10. LockInv'
  BY <1>1, <1>9 DEF Inductive, LockInv
<1>11. ASSUME NEW w \in Workers, Working(w)'
       PROVE  RequestInv(w)'
  <2>1. RequestInv(w) /\ Working(w) /\ Name(w) \in Names
    BY <1>9, <1>11, Parts DEF Inductive, ReqInv, Working, TypeOK
  <2>2. CASE req'[w] = req[w] /\ Name(w) # n
    BY <1>1, <1>2, <2>1, <2>2, RequestKept DEF Inductive, DiskInv
  <2>3. CASE req[w] \in Requests /\ Name(w) = n /\ req'[w] = [req[w] EXCEPT !.sound = FALSE]
    <3>1. /\ req'[w].pc = req[w].pc /\ req'[w].keep = req[w].keep /\ req'[w].linked = req[w].linked
          /\ req'[w].ok = req[w].ok /\ req'[w].proven = req[w].proven /\ req'[w].meta = req[w].meta
          /\ req'[w].sound = FALSE /\ Name(w)' = n /\ Data(w)' = Data(w)
          /\ req'[w].flushed = req[w].flushed
      BY <2>3 DEF Requests, Name, Data
    <3>2. /\ File(w) = disk[n] /\ File(w) \in survive[n] /\ File(w)' = hit(disk[n])
      BY <1>2, <1>5, <2>3, <3>1 DEF File
    <3>6. /\ File(w)'.side = File(w).side /\ File(w)'.proof = File(w).proof /\ File(w)'.audio = a
      BY <1>3, <3>2
    <3>3. req[w].pc \notin BeforeLink /\ req[w].pc # "quarantine"
      BY <1>1, <2>1, <3>2, ConstantsAssumption DEF RequestInv, BeforeLink
    <3>4. req[w].linked => promise'[n] = None
      BY <2>1, <2>3 DEF RequestInv
    <3>5. req[w].ok => \A g \in survive'[n] :
                         /\ g.audio = a /\ g.proof = Data(w) /\ (req[w].meta => g.side = Data(w))
      <4> SUFFICES ASSUME req[w].ok, NEW f \in survive[n]
                   PROVE  /\ hit(f).audio = a /\ hit(f).proof = Data(w)
                          /\ req[w].meta => hit(f).side = Data(w)
        BY <1>2
      <4>1. f.audio = disk[n].audio /\ f.proof = Data(w) /\ (req[w].meta => f.side = Data(w))
        BY <2>1, <2>3, <3>2 DEF RequestInv
      <4> QED
        BY <1>3, <4>1
    <3> QED
      BY <1>1, <2>1, <3>1, <3>3, <3>4, <3>5, <3>6 DEF RequestInv, Own
  <2> QED
    BY <1>8, <2>1, <2>2, <2>3 DEF Working
<1>12. ASSUME NEW w \in Workers, req'[w] # Idle, req'[w].pc = "body"
       PROVE  Fresh(w)'
  <2>1. CASE req'[w] = req[w]
    BY <1>12, <2>1 DEF Inductive, ReqInv, Fresh
  <2>2. CASE req[w] \in Requests /\ req'[w] = [req[w] EXCEPT !.sound = FALSE]
    <3>1. /\ req'[w].pc = req[w].pc /\ req'[w].keep = req[w].keep
          /\ req'[w].linked = req[w].linked /\ req'[w].ok = req[w].ok
      BY <2>2 DEF Requests
    <3>2. req[w] # Idle /\ req[w].pc = "body"
      BY <1>12, <3>1 DEF Idle
    <3> QED
      BY <3>1, <3>2 DEF Inductive, ReqInv, Fresh
  <2> QED
    BY <1>8, <2>1, <2>2
<1> QED
  BY <1>7, <1>10, <1>11, <1>12 DEF Inductive, ReqInv
-----------------------------------------------------------------------------
LEMMA InitInductive == Init => Inductive
<1> SUFFICES ASSUME Init PROVE Inductive
  OBVIOUS
<1>1. DiskInv
  <2>1. \A n \in Names : disk[n] = NoFiles /\ survive[n] = {NoFiles} /\ promise[n] = None
    BY DEF Init
  <2>2. None \notin Contents /\ None # Torn
    BY ConstantsAssumption
  <2>3. NoFiles.audio = None /\ NoFiles.side = None
    BY DEF NoFiles
  <2>4. ASSUME NEW n \in Names PROVE NameInv(n)
    BY <2>1, <2>2, <2>3 DEF NameInv, Matches, SameSource
  <2> QED
    BY <2>4 DEF DiskInv
<1>2. \A w \in Workers : req[w] = Idle
  BY DEF Init
<1> QED
  BY <1>1, <1>2 DEF Inductive, LockInv, ReqInv, Working

\* With one lock per name every step keeps Inductive.
LEMMA InductiveStays ==
  ASSUME Exclusive, TypeOK, Inductive, [Next]_vars
  PROVE  Inductive'
<1>1. CASE RequestStep
  <2>1. \A w \in Workers, n \in Names, c \in Contents, m \in Sidecars : Start(w, n, c, m) => Inductive'
    BY StartKeeps, ConstantsAssumption
  <2>2. ASSUME NEW w \in Workers,
               BodyRejected(w) \/ Lock(w) \/ FloorRejected(w) \/ Floor(w) \/ Abandon(w) \/
               MakeDay(w) \/ SyncParent(w) \/ LookHeld(w) \/ LookOther(w) \/
               LookNone(w) \/ LookFails(w) \/ HeldSide(w) \/ Quarantine(w)
               \/ SyncAside(w) \/ RemoveStale(w) \/ WriteSide(w) \/
               WriteTemp(w) \/ Link(w) \/ LinkLost(w) \/ SyncLink(w) \/
               ReadBack(w) \/ WriteProof(w) \/ SyncProof(w) \/
               PersistChain(w) \/ Cleanup(w) \/ CleanupFails(w)
        PROVE  Inductive'
    BY <2>2, BodyRejectedKeeps, LockKeeps, FloorRejectedKeeps, FloorKeeps,
       AbandonKeeps, MakeDayKeeps, SyncParentKeeps, LookHeldKeeps, LookOtherKeeps,
       LookNoneKeeps, LookFailsKeeps, HeldSideKeeps, QuarantineKeeps, SyncAsideKeeps,
       RemoveStaleKeeps, WriteSideKeeps, WriteTempKeeps, LinkKeeps, LinkLostKeeps,
       SyncLinkKeeps, ReadBackKeeps, WriteProofKeeps, SyncProofKeeps,
       PersistChainKeeps, CleanupKeeps, CleanupFailsKeeps
  <2> QED
    BY <1>1, <2>1, <2>2 DEF RequestStep
<1>2. CASE HaveStep
  BY <1>2, HaveKeeps DEF HaveStep
<1>3. CASE Kill \/ PowerLoss
  BY <1>3, KillKeeps, PowerLossKeeps
<1>4. ASSUME NEW n \in Names, Decay(n)
      PROVE  Inductive'
  <2>1. timed' = timed /\ promise' = promise /\ spoiled'[n]
        /\ \A m \in Names \ {n} : spoiled'[m] = spoiled[m]
    BY <1>4 DEF Decay, TypeOK
  <2> QED
    BY <1>4, <2>1, DamageKeeps DEF Decay
<1>5. ASSUME NEW n \in Names, TakeAway(n)
      PROVE  Inductive'
  <2>1. timed' = timed /\ spoiled' = spoiled /\ promise'[n] = None
        /\ \A m \in Names \ {n} : promise'[m] = promise[m]
    BY <1>5 DEF TakeAway, TypeOK
  <2> QED
    BY <1>5, <2>1, DamageKeeps DEF TakeAway
<1>6. CASE UNCHANGED vars
  <2>1. DiskInv' = DiskInv
    BY <1>6 DEF vars, DiskInv, NameInv, Keeps, Matches, SameSource
  <2>2. LockInv' = LockInv /\ ReqInv' = ReqInv
    BY <1>6 DEF vars, LockInv, ReqInv, Working, Fresh, RequestInv, Name, Data, File, Own
  <2> QED
    BY <2>1, <2>2 DEF Inductive
<1> QED
  BY <1>1, <1>2, <1>3, <1>4, <1>5, <1>6 DEF Next

(***************************************************************************)
(* With one lock per name, Inductive holds in every reachable state.       *)
(***************************************************************************)
THEOREM InductiveHolds ==
  ASSUME Exclusive
  PROVE  Spec => []Inductive
<1>1. Init => Inductive
  BY InitInductive
<1>2. TypeOK /\ Inductive /\ [Next]_vars => Inductive'
  BY InductiveStays
<1>3. QED
  BY <1>1, <1>2, TypeCorrect, PTL DEF Spec

(***************************************************************************)
(* A "stored" answer is a promise no crash or power loss breaks            *)
(* (upload_store.py:1-16): the promised bytes are in every version of the  *)
(* disk a power loss may leave, until the disk itself is damaged.          *)
(***************************************************************************)
THEOREM ReceiptKept ==
  ASSUME Exclusive
  PROVE  Spec => []ReceiptSurvives
<1>1. Inductive => ReceiptSurvives
  BY DEF Inductive, DiskInv, NameInv, Keeps, ReceiptSurvives, Promised
<1> QED
  BY <1>1, InductiveHolds, PTL

(***************************************************************************)
(* The timing an upload brought with it is kept as long as its audio.      *)
(***************************************************************************)
THEOREM TimingKept ==
  ASSUME Exclusive
  PROVE  Spec => []TimingSurvives
<1>1. Inductive => TimingSurvives
  BY DEF Inductive, DiskInv, NameInv, Keeps, TimingSurvives, Promised
<1> QED
  BY <1>1, InductiveHolds, PTL

(***************************************************************************)
(* Leftovers of failed attempts and repairs never describe other audio     *)
(* (upload_store.py:281-284).                                              *)
(***************************************************************************)
THEOREM LeftoversKept ==
  ASSUME Exclusive
  PROVE  Spec => []LeftoversMatch
<1>1. Inductive => LeftoversMatch
  BY DEF Inductive, DiskInv, NameInv, Matches, LeftoversMatch
<1> QED
  BY <1>1, InductiveHolds, PTL

(***************************************************************************)
(* A decayed copy still has the proof that lets the phone's copy replace   *)
(* it (upload_store.py:16-20).                                             *)
(***************************************************************************)
THEOREM RepairKept ==
  ASSUME Exclusive
  PROVE  Spec => []RepairPossible
<1>1. Inductive => RepairPossible
  BY DEF Inductive, DiskInv, NameInv, Keeps, RepairPossible
<1> QED
  BY <1>1, InductiveHolds, PTL

(***************************************************************************)
(* All that "stored" promises holds together: the bytes, their timing and  *)
(* the license to repair them.                                             *)
(***************************************************************************)
THEOREM PromiseHolds ==
  ASSUME Exclusive
  PROVE  Spec => []PromiseKept
<1>1. ReceiptSurvives /\ TimingSurvives /\ RepairPossible => PromiseKept
  BY DEF PromiseKept
<1> QED
  BY <1>1, ReceiptKept, TimingKept, RepairKept, PTL
-----------------------------------------------------------------------------
(***************************************************************************)
(* The bytes under a name                                                  *)
(***************************************************************************)
\* A request that may take back its link finds its own bytes, decayed ones or none.
LinkedOwn ==
  \A w \in Workers : req[w] # Idle /\ req[w].linked => File(w).audio \in {Data(w), Rot, None}

\* What a possession check vouched for is there, and no request may take it back.
VouchedHeld ==
  \A n \in Names : vouched[n] # None =>
    /\ disk[n].audio = vouched[n]
    /\ \A w \in Workers : req[w] # Idle /\ Name(w) = n => ~req[w].linked

\* A name whose audio changed without an fsync since was empty in between.
Gapped ==
  \A n \in Names : \A f \in survive[n] :
    disk[n].audio \notin {f.audio, None} => \E g \in survive[n] : g.audio = None

AudioInv == LinkedOwn /\ VouchedHeld /\ Gapped

\* How a step of the request in slot w may change the audio under n.
Touches(w, n) ==
  \/ disk'[n].audio = disk[n].audio
  \/ /\ n = Name(w) /\ At(w, "quarantine") /\ disk[n].audio # None
     /\ disk'[n].audio = None /\ disk[n].audio \in disk'[n].aside
  \/ n = Name(w) /\ At(w, "link") /\ disk[n].audio = None /\ disk'[n].audio = Data(w)
  \/ /\ n = Name(w) /\ At(w, "cleanup") /\ req[w].linked
     /\ disk'[n].audio = None /\ req'[w] = Idle

\* Versions are added to those a power loss may leave, or only the last one stays.
Grows(n) ==
  survive[n] \subseteq survive'[n] /\ \A g \in survive'[n] \ survive[n] : g.audio = disk'[n].audio
Settles(n) == \A g \in survive'[n] : g.audio = disk'[n].audio

\* w goes on as r: the same upload, and it may take back no more than before.
GoesOn(w, r) ==
  r = Idle \/ /\ r \in Requests /\ r.name = req[w].name /\ r.data = req[w].data
              /\ r.linked => req[w].linked

AudioStep(w) ==
  /\ req[w] \in Requests
  /\ \A n \in Names : Touches(w, n) /\ (Grows(n) \/ Settles(n))
  /\ \A v \in Workers \ {w} : req'[v] = req[v]
  /\ GoesOn(w, req'[w]) \/ (At(w, "link") /\ Name(w)' = Name(w) /\ Data(w)' = Data(w)
                             /\ File(w).audio = None /\ File(w)'.audio = Data(w))
  /\ vouched' = vouched

LEMMA QuietAudio ==
  ASSUME TypeOK, NEW w \in Workers, req[w] \in Requests,
         UNCHANGED <<disk, survive>>, vouched' = vouched,
         NEW r, req' = [req EXCEPT ![w] = r], GoesOn(w, r)
  PROVE  AudioStep(w)
<1>1. req'[w] = r /\ \A v \in Workers \ {w} : req'[v] = req[v]
  BY DEF TypeOK
<1>2. \A n \in Names : Touches(w, n) /\ Grows(n)
  BY DEF Touches, Grows
<1> QED
  BY <1>1, <1>2 DEF AudioStep

LEMMA GotoOn ==
  ASSUME NEW w \in Workers, req[w] \in Requests, NEW pc \in PCs
  PROVE  /\ GoesOn(w, [req[w] EXCEPT !.pc = pc])
         /\ GoesOn(w, [req[w] EXCEPT !.pc = pc, !.ok = FALSE])
BY DEF GoesOn, Requests

LEMMA RefuseAudio ==
  ASSUME TypeOK, NEW w \in Workers, req[w] \in Requests, Refuse(w), UNCHANGED <<disk, survive>>
  PROVE  AudioStep(w)
<1>1. req' = [req EXCEPT ![w] = Idle] /\ vouched' = vouched /\ GoesOn(w, Idle)
  BY DEF Refuse, history, GoesOn
<1> QED
  BY <1>1, QuietAudio

LEMMA FailAudio ==
  ASSUME TypeOK, NEW w \in Workers, req[w] \in Requests, Fail(w)
  PROVE  AudioStep(w)
<1>1. UNCHANGED <<disk, survive>>
  BY DEF Fail, storeVars
<1>2. CASE ~req[w].trying
  BY <1>1, <1>2, RefuseAudio DEF Fail
<1>3. CASE req[w].trying
  <2> DEFINE r == [req[w] EXCEPT !.pc = "cleanup", !.ok = FALSE]
  <2>1. req' = [req EXCEPT ![w] = r] /\ vouched' = vouched
    BY <1>3 DEF Fail, history
  <2>2. GoesOn(w, r)
    BY GotoOn DEF PCs
  <2> HIDE DEF r
  <2> QED
    BY <1>1, <2>1, <2>2, QuietAudio
<1> QED
  BY <1>2, <1>3

\* A change of the sidecar or the proof.
LEMMA PutAudio ==
  ASSUME TypeOK, NEW w \in Workers, req[w] \in Requests, NEW n \in Names,
         NEW f \in Files, Put(n, f), f.audio = disk[n].audio, vouched' = vouched,
         NEW r, req' = [req EXCEPT ![w] = r], GoesOn(w, r)
  PROVE  AudioStep(w)
<1>1. req'[w] = r /\ \A v \in Workers \ {w} : req'[v] = req[v]
  BY DEF TypeOK
<1>2. /\ disk'[n] = f /\ survive'[n] = survive[n] \cup {f}
      /\ \A m \in Names \ {n} : disk'[m] = disk[m] /\ survive'[m] = survive[m]
  BY DEF Put, TypeOK
<1>3. \A m \in Names : Touches(w, m) /\ Grows(m)
  BY <1>2 DEF Touches, Grows
<1> QED
  BY <1>1, <1>3 DEF AudioStep

LEMMA SyncAudio ==
  ASSUME TypeOK, NEW w \in Workers, req[w] \in Requests, SyncDay, UNCHANGED disk,
         vouched' = vouched, NEW r, req' = [req EXCEPT ![w] = r], GoesOn(w, r)
  PROVE  AudioStep(w)
<1>1. req'[w] = r /\ \A v \in Workers \ {w} : req'[v] = req[v]
  BY DEF TypeOK
<1>2. \A n \in Names : Touches(w, n) /\ Settles(n)
  BY DEF Touches, Settles, SyncDay
<1> QED
  BY <1>1, <1>2 DEF AudioStep

(***************************************************************************)
(* Every step of a request beyond its start is such a step.                *)
(***************************************************************************)
LEMMA QuietSteps ==
  ASSUME TypeOK, NEW w \in Workers,
         \/ BodyRejected(w) \/ Lock(w) \/ FloorRejected(w) \/ Floor(w) \/ Abandon(w)
         \/ MakeDay(w) \/ SyncParent(w) \/ LookHeld(w) \/ LookOther(w) \/ LookNone(w)
         \/ LookFails(w) \/ WriteTemp(w) \/ LinkLost(w) \/ ReadBack(w) \/ CleanupFails(w)
  PROVE  AudioStep(w)
<1>1. req[w] \in Requests
  <2>1. req[w] # Idle
    BY Active DEF BodyRejected, Lock, FloorRejected, Floor, Abandon, MakeDay, SyncParent, LookHeld,
       LookOther, LookNone, LookFails, WriteTemp, LinkLost, ReadBack, CleanupFails, At, Idle
  <2> QED
    BY <2>1 DEF TypeOK
<1>2. CASE Fail(w)
  BY <1>1, <1>2, FailAudio
<1>3. CASE Refuse(w) /\ UNCHANGED <<disk, survive>>
  BY <1>1, <1>3, RefuseAudio
<1>4. CASE ~Fail(w) /\ ~(Refuse(w) /\ UNCHANGED <<disk, survive>>)
  <2>1. UNCHANGED <<disk, survive>> /\ vouched' = vouched
    BY <1>4 DEF BodyRejected, Lock, FloorRejected, Floor, Abandon, MakeDay, SyncParent, LookHeld,
       LookOther, LookNone, LookFails, WriteTemp, LinkLost, ReadBack, CleanupFails, storeVars, history
  <2>2. \E r : req' = [req EXCEPT ![w] = r] /\ GoesOn(w, r)
    <3>1. CASE BodyRejected(w)
      BY <3>1 DEF BodyRejected, GoesOn
    <3>2. CASE Lock(w) \/ Floor(w) \/ MakeDay(w) \/ SyncParent(w) \/ LookOther(w)
      <4>1. \E pc \in PCs : Goto(w, pc)
        BY <1>4, <3>2 DEF Lock, Floor, MakeDay, SyncParent, LookOther, PCs, storeVars
      <4> QED
        BY <1>1, <4>1, GotoOn DEF Goto
    <3>9. CASE WriteTemp(w)
      <4>1. GoesOn(w, [req[w] EXCEPT !.pc = "link", !.flushed = TRUE])
        BY <1>1 DEF GoesOn, Requests, PCs
      <4> QED
        BY <1>4, <3>9, <4>1 DEF WriteTemp
    <3>3. CASE Abandon(w)
      <4>1. GoesOn(w, [req[w] EXCEPT !.gone = TRUE])
        BY <1>1 DEF GoesOn, Requests
      <4> QED
        BY <3>3, <4>1 DEF Abandon
    <3>4. CASE LookHeld(w)
      <4>1. GoesOn(w, [req[w] EXCEPT !.pc = "heldSide", !.sound = TRUE])
        BY <1>1 DEF GoesOn, Requests, PCs
      <4> QED
        BY <3>4, <4>1 DEF LookHeld
    <3>5. CASE LookNone(w)
      <4>1. GoesOn(w, [req[w] EXCEPT !.pc = "stale", !.keep = File(w).proof = Data(w)])
        BY <1>1 DEF GoesOn, Requests, PCs
      <4> QED
        BY <3>5, <4>1 DEF LookNone
    <3>6. CASE LinkLost(w)
      <4>1. \A pc \in PCs, b \in BOOLEAN : GoesOn(w, [req[w] EXCEPT !.pc = pc, !.sound = b])
        BY <1>1 DEF GoesOn, Requests
      <4>2. \E pc \in PCs, b \in BOOLEAN : req' = [req EXCEPT ![w] = [req[w] EXCEPT !.pc = pc, !.sound = b]]
        BY <3>6 DEF LinkLost, PCs
      <4> QED
        BY <4>1, <4>2
    <3>7. CASE ReadBack(w)
      <4>1. GoesOn(w, [req[w] EXCEPT !.pc = "proof", !.linked = FALSE, !.proven = TRUE, !.sound = TRUE])
        BY <1>1 DEF GoesOn, Requests, PCs
      <4>2. GoesOn(w, [req[w] EXCEPT !.pc = "cleanup"])
        BY <1>1, GotoOn DEF PCs
      <4> QED
        BY ZenonT(40), <1>4, <3>7, <4>1, <4>2 DEF ReadBack, Goto
    <3> QED
      BY <1>4, <3>1, <3>2, <3>3, <3>4, <3>5, <3>6, <3>7, <3>9 DEF FloorRejected, LookFails, CleanupFails, storeVars
  <2> QED
    BY <1>1, <2>1, <2>2, QuietAudio
<1> QED
  BY <1>2, <1>3, <1>4

LEMMA SyncSteps ==
  ASSUME TypeOK, NEW w \in Workers,
         SyncAside(w) \/ SyncLink(w) \/ SyncProof(w) \/ PersistChain(w)
  PROVE  AudioStep(w)
<1>1. req[w] \in Requests
  <2>1. req[w] # Idle
    BY Active DEF SyncAside, SyncLink, SyncProof, PersistChain, At, Idle
  <2> QED
    BY <2>1 DEF TypeOK
<1>2. CASE Fail(w)
  BY <1>1, <1>2, FailAudio
<1>3. CASE ~Fail(w)
  <2>1. SyncDay /\ UNCHANGED disk /\ vouched' = vouched
    BY <1>3 DEF SyncAside, SyncLink, SyncProof, PersistChain, PersistEffect, AnswerStored, history
  <2>2. \E r : req' = [req EXCEPT ![w] = r] /\ GoesOn(w, r)
    <3>1. CASE SyncAside(w)
      <4>1. GoesOn(w, [req[w] EXCEPT !.pc = "stale", !.keep = TRUE])
        BY <1>1 DEF GoesOn, Requests, PCs
      <4> QED
        BY <1>3, <3>1, <4>1 DEF SyncAside
    <3>2. CASE SyncLink(w) \/ SyncProof(w)
      <4>1. \E pc \in PCs : Goto(w, pc)
        BY <1>3, <3>2 DEF SyncLink, SyncProof, PCs
      <4> QED
        BY <1>1, <4>1, GotoOn DEF Goto
    <3>3. CASE PersistChain(w)
      <4>1. GoesOn(w, [req[w] EXCEPT !.pc = "cleanup", !.proven = TRUE, !.ok = TRUE]) /\ GoesOn(w, Idle)
        BY <1>1 DEF GoesOn, Requests, PCs
      <4> QED
        BY ZenonT(40), <1>3, <3>3, <4>1 DEF PersistChain, AnswerStored
    <3> QED
      BY <3>1, <3>2, <3>3
  <2> QED
    BY <1>1, <2>1, <2>2, SyncAudio
<1> QED
  BY <1>2, <1>3

LEMMA PutSteps ==
  ASSUME TypeOK, NEW w \in Workers,
         HeldSide(w) \/ RemoveStale(w) \/ WriteSide(w) \/ WriteProof(w)
  PROVE  AudioStep(w)
<1>1. req[w] \in Requests
  <2>1. req[w] # Idle
    BY Active DEF HeldSide, RemoveStale, WriteSide, WriteProof, At, Idle
  <2> QED
    BY <2>1 DEF TypeOK
<1>2. CASE Fail(w)
  BY <1>1, <1>2, FailAudio
<1>3. CASE ~Fail(w)
  <2>1. PICK n \in Names : n = Name(w)
    BY <1>1, Parts
  <2>2. disk[n] \in Files /\ Data(w) \in Contents /\ File(w) = disk[n]
    BY <1>1, <2>1, Parts DEF File
  <2>3. \A c \in Contents \cup {None} :
          /\ [disk[n] EXCEPT !.side = c] \in Files /\ [disk[n] EXCEPT !.side = c].audio = disk[n].audio
          /\ [disk[n] EXCEPT !.proof = c] \in Files /\ [disk[n] EXCEPT !.proof = c].audio = disk[n].audio
    BY <2>2 DEF Files
  <2>4. vouched' = vouched
    BY <1>3 DEF HeldSide, RemoveStale, WriteSide, WriteProof, history
  <2>5. \/ UNCHANGED <<disk, survive>>
        \/ \E f \in Files : Put(n, f) /\ f.audio = disk[n].audio
    BY <1>3, <2>1, <2>2, <2>3 DEF HeldSide, RemoveStale, WriteSide, WriteProof, storeVars
  <2>6. \E r : req' = [req EXCEPT ![w] = r] /\ GoesOn(w, r)
    <3>1. CASE HeldSide(w) \/ WriteProof(w)
      <4>1. \E pc \in PCs : Goto(w, pc)
        BY <1>3, <3>1 DEF HeldSide, WriteProof, PCs
      <4> QED
        BY <1>1, <4>1, GotoOn DEF Goto
    <3>2. CASE RemoveStale(w)
      <4>1. (\E pc \in PCs : Goto(w, pc)) \/ req' = req
        BY <1>3, <3>2 DEF RemoveStale, PCs
      <4>2. req' = req => req' = [req EXCEPT ![w] = req[w]]
        BY DEF TypeOK
      <4>3. GoesOn(w, req[w])
        BY <1>1 DEF GoesOn
      <4> QED
        BY <1>1, <4>1, <4>2, <4>3, GotoOn DEF Goto
    <3>3. CASE WriteSide(w)
      <4>1. /\ GoesOn(w, [req[w] EXCEPT !.pc = "temp", !.wrote = TRUE, !.trying = TRUE])
            /\ GoesOn(w, [req[w] EXCEPT !.pc = "temp", !.trying = TRUE])
        BY <1>1 DEF GoesOn, Requests, PCs
      <4> QED
        BY ZenonT(40), <1>3, <3>3, <4>1 DEF WriteSide
    <3> QED
      BY <3>1, <3>2, <3>3
  <2> QED
    BY <1>1, <2>4, <2>5, <2>6, QuietAudio, PutAudio
<1> QED
  BY <1>2, <1>3

LEMMA QuarantineAudio ==
  ASSUME TypeOK, NEW w \in Workers, Quarantine(w)
  PROVE  AudioStep(w)
<1>1. req[w] \in Requests /\ At(w, "quarantine")
  <2>1. At(w, "quarantine") /\ "quarantine" \in PCs
    BY DEF Quarantine, PCs
  <2> QED
    BY <2>1, Active
<1>2. CASE Fail(w)
  BY <1>1, <1>2, FailAudio
<1>3. CASE Refuse(w) /\ UNCHANGED <<disk, survive>>
  BY <1>1, <1>3, RefuseAudio
<1>4. CASE ~Fail(w) /\ ~(Refuse(w) /\ UNCHANGED <<disk, survive>>)
  <2>1. PICK n \in Names : n = Name(w)
    BY <1>1, Parts
  <2> DEFINE f == [disk[n] EXCEPT !.audio = None, !.aside = @ \cup {disk[n].audio}]
  <2>2. /\ disk[n].audio # None /\ Put(n, f) /\ Goto(w, "asideSync") /\ vouched' = vouched
        /\ disk[n] \in Files
    BY <1>4, <2>1 DEF Quarantine, File, Renounce, storeVars, TypeOK
  <2>3. f.audio = None /\ disk[n].audio \in f.aside
    BY <2>2 DEF Files
  <2>4. /\ disk'[n] = f /\ survive'[n] = survive[n] \cup {f}
        /\ \A m \in Names \ {n} : disk'[m] = disk[m] /\ survive'[m] = survive[m]
    BY <2>2 DEF Put, TypeOK
  <2>5. \A m \in Names : Touches(w, m) /\ Grows(m)
    BY ZenonT(40), <1>1, <2>1, <2>2, <2>3, <2>4 DEF Touches, Grows
  <2>6. GoesOn(w, req'[w]) /\ \A v \in Workers \ {w} : req'[v] = req[v]
    BY <1>1, <2>2, GotoOn DEF Goto, TypeOK, PCs
  <2> QED
    BY <1>1, <2>2, <2>5, <2>6 DEF AudioStep
<1> QED
  BY <1>2, <1>3, <1>4

LEMMA LinkAudio ==
  ASSUME TypeOK, FlushedFirst, NEW w \in Workers, Link(w)
  PROVE  AudioStep(w)
<1>1. req[w] \in Requests /\ At(w, "link")
  <2>1. At(w, "link") /\ "link" \in PCs
    BY DEF Link, PCs
  <2> QED
    BY <2>1, Active
<1>2. CASE Fail(w)
  BY <1>1, <1>2, FailAudio
<1>3. CASE ~Fail(w)
  <2>1. PICK n \in Names : n = Name(w)
    BY <1>1, Parts
  <2> DEFINE f == [disk[n] EXCEPT !.audio = Data(w)]
  <2>2. /\ disk[n].audio = None /\ disk' = [disk EXCEPT ![n] = f] /\ vouched' = vouched
        /\ survive' = [survive EXCEPT ![n] = @ \cup {f}]
        /\ req' = [req EXCEPT ![w] = [req[w] EXCEPT !.pc = "sync", !.linked = TRUE]]
        /\ disk[n] \in Files
    <3>1. /\ File(w) = disk[n] /\ disk[n] \in Files
          /\ {[File(w) EXCEPT !.audio = a] : a \in AfterPowerLoss(w)} = {f}
      <4>1. AfterPowerLoss(w) = {Data(w)}
        BY <1>1 DEF FlushedFirst, AfterPowerLoss, At
      <4> QED
        BY <2>1, <4>1 DEF File, TypeOK
    <3>2. req' = [req EXCEPT ![w].pc = "sync", ![w].linked = TRUE] /\ vouched' = vouched
      BY <1>3 DEF Link, history
    <3> QED
      BY <1>3, <2>1, <3>1, <3>2 DEF Link
  <2>3. f.audio = Data(w)
    BY <2>2 DEF Files
  <2>4. /\ disk'[n] = f /\ survive'[n] = survive[n] \cup {f}
        /\ \A m \in Names \ {n} : disk'[m] = disk[m] /\ survive'[m] = survive[m]
    BY <2>2 DEF TypeOK
  <2>5. \A m \in Names : Touches(w, m) /\ Grows(m)
    BY <1>1, <2>1, <2>2, <2>3, <2>4 DEF Touches, Grows
  <2>6. /\ Name(w)' = Name(w) /\ Data(w)' = Data(w)
        /\ \A v \in Workers \ {w} : req'[v] = req[v]
    BY <1>1, <2>2 DEF TypeOK, Name, Data, Requests
  <2>7. File(w).audio = None /\ File(w)'.audio = Data(w)
    BY <2>1, <2>2, <2>3, <2>4, <2>6 DEF File
  <2> QED
    BY <1>1, <2>2, <2>5, <2>6, <2>7 DEF AudioStep
<1> QED
  BY <1>2, <1>3

LEMMA CleanupAudio ==
  ASSUME TypeOK, NEW w \in Workers, Cleanup(w)
  PROVE  AudioStep(w)
<1>1. req[w] \in Requests /\ At(w, "cleanup")
  <2>1. At(w, "cleanup") /\ "cleanup" \in PCs
    BY DEF Cleanup, PCs
  <2> QED
    BY <2>1, Active
<1>2. PICK n \in Names : n = Name(w)
  BY <1>1, Parts
<1>3. disk[n] \in Files /\ File(w) = disk[n]
  BY <1>2 DEF TypeOK, File
<1>4. PICK f \in Unlinked(w) : \E g \in SideDropped(w, f) :
        /\ disk' = [disk EXCEPT ![n] = g]
        /\ \/ survive' = [survive EXCEPT ![n] = @ \cup {f, g}]
           \/ survive' = [m \in Names |-> IF m = n THEN {f, g} ELSE {disk[m]}]
  <2>1. PICK f \in Unlinked(w) : \E g \in SideDropped(w, f) :
          /\ disk' = [disk EXCEPT ![Name(w)] = g]
          /\ \/ survive' = [survive EXCEPT ![Name(w)] = @ \cup {f, g}]
             \/ /\ f # File(w)
                /\ survive' = [m \in Names |-> IF m = Name(w) THEN {f, g} ELSE {disk[m]}]
    BY DEF Cleanup
  <2> QED
    BY ZenonT(40), <1>2, <2>1
<1>5. PICK g \in SideDropped(w, f) :
        /\ disk' = [disk EXCEPT ![n] = g]
        /\ \/ survive' = [survive EXCEPT ![n] = @ \cup {f, g}]
           \/ survive' = [m \in Names |-> IF m = n THEN {f, g} ELSE {disk[m]}]
  BY <1>4
<1>6. /\ f.audio = disk[n].audio \/ (f.audio = None /\ req[w].linked)
      /\ g.audio = f.audio
  BY <1>3, <1>4, <1>5 DEF Unlinked, SideDropped, Files
<1>7. disk'[n] = g /\ \A m \in Names \ {n} : disk'[m] = disk[m]
  BY <1>5 DEF TypeOK
<1>8. req' = [req EXCEPT ![w] = Idle] /\ vouched' = vouched
  BY DEF Cleanup, AnswerStored, Refuse, history
<1>9. req'[w] = Idle /\ \A v \in Workers \ {w} : req'[v] = req[v]
  BY <1>8 DEF TypeOK
<1>10. \A m \in Names : Touches(w, m)
  BY <1>1, <1>2, <1>6, <1>7, <1>9 DEF Touches
<1>11. \A m \in Names : Grows(m) \/ Settles(m)
  BY <1>5, <1>6, <1>7 DEF Grows, Settles, TypeOK
<1> QED
  BY <1>1, <1>8, <1>9, <1>10, <1>11 DEF AudioStep, GoesOn

(***************************************************************************)
(* With one lock per name, what the audio steps rely on holds in every     *)
(* reachable state.                                                        *)
(***************************************************************************)
\* A request past its body that may take back its link is at work.
LEMMA LinkedWorks ==
  ASSUME TypeOK, Inductive, NEW w \in Workers, req[w] # Idle, req[w].linked
  PROVE  /\ Working(w) /\ req[w] \in Requests /\ Name(w) \in Names
         /\ req[w].pc \in {"sync", "readback", "cleanup"}
<1>1. req[w] \in Requests /\ Working(w)
  BY DEF TypeOK, Inductive, ReqInv, Working, Fresh
<1> QED
  BY <1>1, Parts DEF Inductive, ReqInv, RequestInv

\* Only the request at work on a name may change its audio.
LEMMA ChangeWorks ==
  ASSUME TypeOK, Inductive, NEW w \in Workers, NEW n \in Names, Touches(w, n),
         disk'[n].audio # disk[n].audio
  PROVE  Working(w) /\ n = Name(w) /\ req[w] \in Requests
<1>1. n = Name(w) /\ (At(w, "quarantine") \/ At(w, "link") \/ At(w, "cleanup"))
  BY DEF Touches
<1>2. {"quarantine", "link", "cleanup"} \subseteq PCs
  BY DEF PCs
<1>3. req[w] # Idle /\ req[w] \in Requests
  BY <1>1, <1>2, Active
<1> QED
  BY <1>1, <1>3 DEF Working, At

LEMMA GappedStep ==
  ASSUME TypeOK, Inductive, Gapped, NEW w \in Workers, NEW n \in Names, Touches(w, n),
         Grows(n) \/ Settles(n)
  PROVE  \A f \in survive'[n] :
           disk'[n].audio \notin {f.audio, None} => \E g \in survive'[n] : g.audio = None
<1> SUFFICES ASSUME NEW f \in survive'[n], disk'[n].audio \notin {f.audio, None}
             PROVE  \E g \in survive'[n] : g.audio = None
  OBVIOUS
<1>1. Grows(n) /\ f \in survive[n]
  BY DEF Grows, Settles
<1>2. CASE disk'[n].audio = disk[n].audio
  BY <1>1, <1>2 DEF Gapped, Grows
<1>3. CASE disk[n].audio = None
  BY <1>1, <1>3 DEF Grows, Inductive, DiskInv, NameInv
<1> QED
  BY <1>2, <1>3 DEF Touches

LEMMA AudioKept ==
  ASSUME TypeOK, Inductive, AudioInv, NEW w \in Workers, AudioStep(w)
  PROVE  AudioInv'
<1>1. Gapped'
  BY GappedStep DEF Gapped, AudioInv, AudioStep
<1>2. ASSUME NEW v \in Workers, req'[v] # Idle, req'[v].linked
      PROVE  /\ File(v)'.audio \in {Data(v)', Rot, None}
             /\ Name(v)' \in Names
             /\ vouched[Name(v)'] = None
  <2>1. CASE v # w \/ GoesOn(w, req'[w])
    <3>1. req[v] # Idle /\ req[v].linked /\ Name(v)' = Name(v) /\ Data(v)' = Data(v)
      BY <1>2, <2>1 DEF AudioStep, GoesOn, Name, Data, Idle, Requests
    <3>2. Working(v) /\ Name(v) \in Names /\ req[v].pc \in {"sync", "readback", "cleanup"}
      BY <3>1, LinkedWorks
    <3>3. File(v).audio \in {Data(v), Rot, None} /\ vouched[Name(v)] = None
      BY <3>1, <3>2 DEF AudioInv, LinkedOwn, VouchedHeld
    <3>4. PICK n \in Names : n = Name(v)
      BY <3>2
    <3>5. Touches(w, n)
      BY <3>4 DEF AudioStep
    <3>6. disk'[n].audio \in {disk[n].audio, None}
      <4> SUFFICES ASSUME disk'[n].audio # disk[n].audio
                   PROVE  disk'[n].audio = None
        OBVIOUS
      <4>1. Working(w) /\ n = Name(w)
        BY <3>5, ChangeWorks
      <4>2. v = w
        BY <3>2, <3>4, <4>1, Alone DEF Inductive
      <4>3. ~At(w, "link")
        BY <3>2, <4>2 DEF At
      <4> QED
        BY <3>5, <4>3 DEF Touches
    <3> QED
      BY <3>1, <3>3, <3>4, <3>6 DEF File
  <2>2. CASE v = w /\ ~GoesOn(w, req'[w])
    <3>1. /\ At(w, "link") /\ Name(w)' = Name(w) /\ Data(w)' = Data(w)
          /\ File(w).audio = None /\ File(w)'.audio = Data(w)
      BY <2>2 DEF AudioStep
    <3>2. "link" \in PCs
      BY DEF PCs
    <3>3. req[w] \in Requests /\ Name(w) \in Names
      BY <3>1, <3>2, Active, Parts
    <3>4. vouched[Name(w)] = None
      BY <3>1, <3>3 DEF AudioInv, VouchedHeld, File
    <3> QED
      BY <2>2, <3>1, <3>3, <3>4
  <2> QED
    BY <2>1, <2>2
<1>3. LinkedOwn'
  BY <1>2 DEF LinkedOwn
<1>4. ASSUME NEW n \in Names, vouched[n] # None
      PROVE  disk'[n].audio = vouched[n]
  <2>1. disk[n].audio = vouched[n] /\ vouched[n] \in Contents
    BY <1>4 DEF AudioInv, VouchedHeld, TypeOK
  <2>2. Touches(w, n)
    BY DEF AudioStep
  <2> SUFFICES ASSUME disk'[n].audio # disk[n].audio PROVE FALSE
    BY <2>1
  <2>3. Working(w) /\ n = Name(w) /\ req[w] \in Requests
    BY <2>2, ChangeWorks
  <2>4. ~req[w].linked /\ RequestInv(w)
    BY <1>4, <2>3 DEF AudioInv, VouchedHeld, Working, Inductive, ReqInv
  <2>5. ~At(w, "quarantine")
    BY <2>1, <2>3, <2>4 DEF At, RequestInv, File
  <2> QED
    BY <1>4, <2>1, <2>2, <2>4, <2>5 DEF Touches
<1>5. VouchedHeld'
  <2>1. vouched' = vouched
    BY DEF AudioStep
  <2> QED
    BY <1>2, <1>4, <2>1 DEF VouchedHeld
<1> QED
  BY <1>1, <1>3, <1>5 DEF AudioInv

LEMMA StartAudio ==
  ASSUME TypeOK, AudioInv, NEW w \in Workers, NEW n \in Names, NEW c \in Contents,
         NEW m \in Sidecars, Start(w, n, c, m)
  PROVE  /\ AudioInv' /\ UNCHANGED <<disk, vouched>>
<1>1. UNCHANGED <<disk, survive, vouched>>
  BY DEF Start, storeVars, history
<1>2. \A v \in Workers : req'[v] # Idle /\ req'[v].linked => req'[v] = req[v]
  BY DEF Start, TypeOK
<1>3. \A v \in Workers : req'[v] = req[v] => Name(v)' = Name(v) /\ Data(v)' = Data(v) /\ File(v)' = File(v)
  BY <1>1 DEF Name, Data, File
<1>4. LinkedOwn'
  BY <1>2, <1>3 DEF AudioInv, LinkedOwn
<1>5. \A v \in Workers, k \in Names : vouched[k] # None /\ req'[v] # Idle /\ Name(v)' = k => ~req'[v].linked
  BY <1>2, <1>3 DEF AudioInv, VouchedHeld
<1>6. VouchedHeld'
  BY <1>1, <1>5 DEF AudioInv, VouchedHeld
<1>7. Gapped'
  BY <1>1 DEF AudioInv, Gapped
<1> QED
  BY <1>1, <1>4, <1>6, <1>7 DEF AudioInv

\* A step of a request starts it or is an audio step.
LEMMA RequestAudio ==
  ASSUME TypeOK, FlushedFirst, RequestStep
  PROVE  \E w \in Workers :
           AudioStep(w) \/ \E n \in Names, c \in Contents, m \in Sidecars : Start(w, n, c, m)
<1>1. PICK w \in Workers :
        \/ \E n \in Names, c \in Contents, m \in Sidecars : Start(w, n, c, m)
        \/ BodyRejected(w) \/ Lock(w) \/ FloorRejected(w) \/ Floor(w) \/ Abandon(w)
        \/ MakeDay(w) \/ SyncParent(w)
        \/ LookHeld(w) \/ LookOther(w) \/ LookNone(w) \/ LookFails(w)
        \/ HeldSide(w) \/ Quarantine(w) \/ SyncAside(w) \/ RemoveStale(w)
        \/ WriteSide(w) \/ WriteTemp(w) \/ Link(w) \/ LinkLost(w) \/ SyncLink(w) \/ ReadBack(w)
        \/ WriteProof(w) \/ SyncProof(w) \/ PersistChain(w) \/ Cleanup(w) \/ CleanupFails(w)
  BY DEF RequestStep
<1>2. ASSUME ~\E n \in Names, c \in Contents, m \in Sidecars : Start(w, n, c, m)
      PROVE  AudioStep(w)
  BY <1>1, <1>2, QuietSteps, SyncSteps, PutSteps, QuarantineAudio, LinkAudio, CleanupAudio
<1> QED
  BY <1>2

LEMMA FaultAudio ==
  ASSUME TypeOK, Inductive, AudioInv, NEW n \in Names, Decay(n) \/ TakeAway(n)
  PROVE  AudioInv'
<1>1. PICK a \in {Rot, None} : DamageTo(n, a)
  BY DEF Decay, TakeAway
<1> DEFINE hit(f) == IF f.audio = disk[n].audio THEN [f EXCEPT !.audio = a] ELSE f
<1>2. /\ disk[n].audio \in Contents /\ vouched' = [vouched EXCEPT ![n] = None]
      /\ disk' = [disk EXCEPT ![n] = [disk[n] EXCEPT !.audio = a]]
      /\ survive' = [survive EXCEPT ![n] = {hit(f) : f \in @}]
      /\ req' = [w \in Workers |-> IF req[w] # Idle /\ req[w].name = n
                                   THEN [req[w] EXCEPT !.sound = FALSE] ELSE req[w]]
  BY <1>1 DEF DamageTo
<1>3. /\ disk'[n].audio = a /\ survive'[n] = {hit(f) : f \in survive[n]} /\ vouched'[n] = None
      /\ \A m \in Names \ {n} : disk'[m] = disk[m] /\ survive'[m] = survive[m] /\ vouched'[m] = vouched[m]
  BY <1>2 DEF TypeOK, Files
<1>4. ASSUME NEW w \in Workers, req'[w] # Idle, req'[w].linked
      PROVE  /\ req[w] # Idle /\ req[w].linked
             /\ Name(w)' = Name(w) /\ Data(w)' = Data(w) /\ Name(w) \in Names
  <2>1. \/ req'[w] = req[w]
        \/ req[w] # Idle /\ req'[w] = [req[w] EXCEPT !.sound = FALSE]
    BY <1>2
  <2>2. req[w] \in Requests \cup {Idle}
    BY DEF TypeOK
  <2> QED
    BY <1>4, <2>1, <2>2, Parts DEF Requests, Name, Data
<1>5. LinkedOwn'
  <2> SUFFICES ASSUME NEW w \in Workers, req'[w] # Idle, req'[w].linked
               PROVE  File(w)'.audio \in {Data(w)', Rot, None}
    BY DEF LinkedOwn
  <2>1. File(w).audio \in {Data(w), Rot, None}
    BY <1>4 DEF AudioInv, LinkedOwn
  <2> QED
    BY <1>3, <1>4, <2>1 DEF File
<1>6. VouchedHeld'
  <2> SUFFICES ASSUME NEW m \in Names \ {n}, vouched[m] # None
               PROVE  /\ disk'[m].audio = vouched[m]
                      /\ \A w \in Workers : req'[w] # Idle /\ Name(w)' = m => ~req'[w].linked
    BY <1>3 DEF VouchedHeld
  <2> QED
    BY <1>3, <1>4 DEF AudioInv, VouchedHeld
<1>7. ASSUME NEW g \in survive'[n], disk'[n].audio \notin {g.audio, None}
      PROVE  \E h \in survive'[n] : h.audio = None
  <2>1. PICK f \in survive[n] : g = hit(f)
    BY <1>3, <1>7
  <2>2. f \in Files
    BY <2>1 DEF TypeOK
  <2>3. disk[n].audio # f.audio
    BY <1>3, <1>7, <2>1, <2>2 DEF Files
  <2>4. PICK h \in survive[n] : h.audio = None
    BY <1>2, <2>1, <2>3, ConstantsAssumption DEF AudioInv, Gapped
  <2>5. hit(h) = h
    BY <1>2, <2>4, ConstantsAssumption
  <2> QED
    BY <1>3, <2>4, <2>5
<1>8. Gapped'
  <2>1. \A m \in Names \ {n} : disk'[m] = disk[m] /\ survive'[m] = survive[m]
    BY <1>3
  <2> QED
    BY <1>7, <2>1 DEF Gapped, AudioInv
<1> QED
  BY <1>5, <1>6, <1>8 DEF AudioInv

LEMMA RestAudio ==
  ASSUME TypeOK, Inductive, AudioInv, HaveStep \/ Kill \/ PowerLoss \/ UNCHANGED vars
  PROVE  AudioInv'
<1>1. CASE HaveStep
  <2>1. PICK n \in Names, c \in Contents : Have(n, c)
    BY <1>1 DEF HaveStep
  <2>2. /\ UNCHANGED <<disk, survive, req>> /\ holder[n] = None /\ disk[n].audio = c
        /\ vouched'[n] = c /\ \A m \in Names \ {n} : vouched'[m] = vouched[m]
    BY <2>1 DEF Have, Verify, storeVars, TypeOK
  <2>3. \A w \in Workers : req[w] # Idle /\ Name(w) = n => ~req[w].linked
    BY <2>2, LinkedWorks, ConstantsAssumption DEF Inductive, LockInv
  <2>4. VouchedHeld'
    BY <2>2, <2>3 DEF AudioInv, VouchedHeld, Name
  <2>5. LinkedOwn' /\ Gapped'
    BY <2>2 DEF AudioInv, LinkedOwn, Gapped, File, Data, Name
  <2> QED
    BY <2>4, <2>5 DEF AudioInv
<1>2. CASE Kill
  <2>1. UNCHANGED <<disk, survive, vouched>> /\ \A w \in Workers : req'[w] = Idle
    BY <1>2 DEF Kill, Restarted, storeVars
  <2> QED
    BY <2>1 DEF AudioInv, LinkedOwn, VouchedHeld, Gapped
<1>3. CASE PowerLoss
  <2>1. \A w \in Workers : req'[w] = Idle
    BY <1>3 DEF PowerLoss, Restarted
  <2>2. \A n \in Names : vouched'[n] = None
    BY <1>3 DEF PowerLoss
  <2>3. \A n \in Names : survive'[n] = {disk'[n]}
    BY <1>3 DEF PowerLoss
  <2> QED
    BY <2>1, <2>2, <2>3 DEF AudioInv, LinkedOwn, VouchedHeld, Gapped
<1>4. CASE UNCHANGED vars
  BY <1>4 DEF vars, AudioInv, LinkedOwn, VouchedHeld, Gapped, File, Name, Data
<1> QED
  BY <1>1, <1>2, <1>3, <1>4

LEMMA InductiveFlushed ==
  ASSUME TypeOK, Inductive
  PROVE  FlushedFirst
BY DEF Inductive, ReqInv, RequestInv, Working, FlushedFirst, Idle

LEMMA AudioStays ==
  ASSUME TypeOK, Inductive, AudioInv, [Next]_vars
  PROVE  AudioInv'
<1>1. CASE RequestStep
  BY <1>1, InductiveFlushed, RequestAudio, StartAudio, AudioKept
<1>2. CASE \E n \in Names : Decay(n) \/ TakeAway(n)
  BY <1>2, FaultAudio
<1>3. CASE HaveStep \/ Kill \/ PowerLoss \/ UNCHANGED vars
  BY <1>3, RestAudio
<1> QED
  BY <1>1, <1>2, <1>3 DEF Next

LEMMA InitAudio == ASSUME Init PROVE AudioInv
<1>1. /\ \A w \in Workers : req[w] = Idle
      /\ \A n \in Names : vouched[n] = None /\ disk[n] = NoFiles /\ survive[n] = {NoFiles}
  BY DEF Init
<1> QED
  BY <1>1 DEF AudioInv, LinkedOwn, VouchedHeld, Gapped

\* AudioInv holds in every reachable state.
LEMMA AudioHolds ==
  ASSUME Exclusive
  PROVE  Spec => []AudioInv
<1>1. Init => AudioInv
  BY InitAudio
<1>2. TypeOK /\ Inductive /\ AudioInv /\ [Next]_vars => AudioInv'
  BY AudioStays
<1> QED
  BY <1>1, <1>2, TypeCorrect, InductiveHolds, PTL DEF Spec

\* A step without a crash or damage is a step of a request, or changes no audio.
LEMMA NoFaultStep ==
  ASSUME TypeOK, FlushedFirst, AudioInv, [Next]_vars, NoFault
  PROVE  \/ \E w \in Workers : AudioStep(w)
         \/ \A n \in Names : disk'[n] = disk[n]
<1>1. CASE RequestStep
  BY <1>1, RequestAudio, StartAudio
<1>2. CASE HaveStep \/ UNCHANGED vars
  BY <1>2 DEF HaveStep, Have, storeVars, vars
<1>3. ~(Kill \/ PowerLoss)
  BY DEF Kill, PowerLoss, Restarted, NoFault, TypeOK
<1>4. ~\E n \in Names : Decay(n) \/ TakeAway(n)
  BY DEF Decay, TakeAway, DamageTo, NoFault, TypeOK
<1> QED
  BY <1>1, <1>2, <1>3, <1>4 DEF Next

\* A step takes held audio away only as a request may.
LEMMA RemovalIsOwn ==
  ASSUME TypeOK, Inductive, AudioInv, [Next]_vars
  PROVE  RemovalStep
<1> SUFFICES ASSUME NoFault, NEW n \in Names,
                    disk[n].audio # None, disk'[n].audio # disk[n].audio
             PROVE  /\ disk'[n].audio = None
                    /\ \/ disk[n].audio \in disk'[n].aside
                       \/ \E w \in Workers : /\ At(w, "cleanup") /\ Name(w) = n /\ req[w].linked
                                             /\ disk[n].audio \in {Data(w), Rot}
  BY DEF RemovalStep
<1>1. PICK w \in Workers : AudioStep(w)
  BY InductiveFlushed, NoFaultStep
<1>2. Touches(w, n)
  BY <1>1 DEF AudioStep
<1>3. ASSUME n = Name(w), At(w, "cleanup"), req[w].linked
      PROVE  disk[n].audio \in {Data(w), Rot}
  <2>1. req[w] # Idle
    BY <1>3, Active DEF PCs
  <2> QED
    BY <1>3, <2>1 DEF AudioInv, LinkedOwn, File
<1> QED
  BY <1>2, <1>3 DEF Touches

(***************************************************************************)
(* With one lock per name held audio is never replaced: it goes only into  *)
(* damaged/, or when a failed attempt takes back the bytes it linked       *)
(* itself (upload_store.py:12, 14-20, 301-305).                            *)
(***************************************************************************)
THEOREM RemovalsOwn ==
  ASSUME Exclusive
  PROVE  Spec => RemovesOnlyItsOwn
<1>1. TypeOK /\ Inductive /\ AudioInv /\ [Next]_vars => RemovalStep
  BY RemovalIsOwn
<1> QED
  BY <1>1, TypeCorrect, InductiveHolds, AudioHolds, PTL DEF Spec, RemovesOnlyItsOwn

\* A step takes away nothing that a possession check vouched for.
LEMMA VouchIsKept ==
  ASSUME TypeOK, Inductive, AudioInv, [Next]_vars
  PROVE  VouchStep
<1> SUFFICES ASSUME NoFault, NEW n \in Names,
                    vouched[n] # None, disk[n].audio = vouched[n]
             PROVE  disk'[n].audio = vouched[n]
  BY DEF VouchStep
<1>1. CASE \E w \in Workers : AudioStep(w)
  <2>1. PICK w \in Workers : AudioStep(w)
    BY <1>1
  <2>2. AudioInv' /\ vouched' = vouched
    BY <2>1, AudioKept DEF AudioStep
  <2> QED
    BY <2>2 DEF AudioInv, VouchedHeld
<1>2. CASE \A m \in Names : disk'[m] = disk[m]
  BY <1>2
<1> QED
  BY <1>1, <1>2, InductiveFlushed, NoFaultStep

(***************************************************************************)
(* With one lock per name a possession check never vouches for a file that *)
(* is then taken back: what it said is held stays held (server.py:58-61,   *)
(* 575-576).                                                               *)
(***************************************************************************)
THEOREM VouchHolds ==
  ASSUME Exclusive
  PROVE  Spec => VouchedStays
<1>1. TypeOK /\ Inductive /\ AudioInv /\ [Next]_vars => VouchStep
  BY VouchIsKept
<1> QED
  BY <1>1, TypeCorrect, InductiveHolds, AudioHolds, PTL DEF Spec, VouchedStays

-----------------------------------------------------------------------------
(***************************************************************************)
(* EdgeStore implements EdgeArchive                                        *)
(***************************************************************************)
\* What is settled for n, in a state.
Bytes == Contents \cup {None, Rot}
SettledRight ==
  \A n \in Names : Settled(n) \in Bytes /\ (Promised(n) => Settled(n) = promise[n])

LEMMA SettledFacts ==
  ASSUME TypeOK, Inductive
  PROVE  SettledRight
<1> SUFFICES ASSUME NEW n \in Names
             PROVE  Settled(n) \in Bytes /\ (Promised(n) => Settled(n) = promise[n])
  BY DEF SettledRight
<1>1. NameInv(n) /\ disk[n] \in Files
  BY DEF Inductive, DiskInv, TypeOK
<1>2. disk[n] \in survive[n] /\ disk[n].audio # Torn /\ disk[n].audio \in Audio
  BY <1>1 DEF NameInv, Files
<1>3. Settled(n) \in Bytes
  BY <1>2 DEF Settled, Bytes, Audio
<1>4. ASSUME Promised(n) PROVE Settled(n) = promise[n]
  <2>1. day = "durable" /\ \A f \in survive[n] : f.audio = promise[n]
    BY <1>1, <1>4 DEF Promised, NameInv, Keeps
  <2>2. promise[n] \in Audio /\ disk[n].audio = promise[n]
    BY <1>2, <2>1
  <2> QED
    BY <2>1, <2>2 DEF Settled
<1> QED
  BY <1>3, <1>4

\* The steps of a request that neither answer nor renounce.
LEMMA NoAnswer ==
  ASSUME NEW w \in Workers,
         \/ \E n \in Names, c \in Contents, m \in Sidecars : Start(w, n, c, m)
         \/ BodyRejected(w) \/ Lock(w) \/ FloorRejected(w) \/ Floor(w) \/ Abandon(w)
         \/ MakeDay(w) \/ SyncParent(w)
         \/ LookHeld(w) \/ LookOther(w) \/ LookNone(w) \/ LookFails(w)
         \/ HeldSide(w) \/ SyncAside(w) \/ RemoveStale(w)
         \/ WriteSide(w) \/ WriteTemp(w) \/ Link(w) \/ LinkLost(w) \/ SyncLink(w) \/ ReadBack(w)
         \/ WriteProof(w) \/ SyncProof(w) \/ CleanupFails(w)
  PROVE  UNCHANGED <<promise, spoiled>>
<1>1. Fail(w) \/ Refuse(w) \/ UNCHANGED history => UNCHANGED <<promise, spoiled>>
  BY DEF Fail, Refuse, history
<1>2. CASE \/ \E n \in Names, c \in Contents, m \in Sidecars : Start(w, n, c, m)
           \/ BodyRejected(w) \/ Lock(w) \/ FloorRejected(w) \/ Floor(w) \/ Abandon(w)
           \/ MakeDay(w) \/ SyncParent(w) \/ LookHeld(w) \/ LookOther(w) \/ LookNone(w)
  BY <1>1, <1>2 DEF Start, BodyRejected, Lock, FloorRejected, Floor, Abandon, MakeDay, SyncParent,
     LookHeld, LookOther, LookNone
<1>3. CASE LookFails(w) \/ HeldSide(w) \/ SyncAside(w) \/ RemoveStale(w) \/ WriteSide(w) \/ WriteTemp(w)
  BY <1>1, <1>3 DEF LookFails, HeldSide, SyncAside, RemoveStale, WriteSide, WriteTemp
<1>4. CASE Link(w) \/ LinkLost(w) \/ SyncLink(w) \/ ReadBack(w) \/ WriteProof(w) \/ SyncProof(w)
           \/ CleanupFails(w)
  BY <1>1, <1>4 DEF Link, LinkLost, SyncLink, ReadBack, WriteProof, SyncProof, CleanupFails
<1> QED
  BY <1>2, <1>3, <1>4

\* An answer "stored" for n: the bytes are settled, and were hashed or have been damaged since.
AnswerOf(n) ==
  \E c \in Contents, s \in BOOLEAN :
    /\ promise' = [promise EXCEPT ![n] = c]
    /\ spoiled' = [spoiled EXCEPT ![n] = s]
    /\ Settled(n)' = disk[n].audio
    /\ s \/ disk[n].audio = c

\* AnswerStored after a step that leaves the bytes of this name in place for good.
LEMMA AnswerSettles ==
  ASSUME TypeOK, Inductive, NEW w \in Workers, req[w] \in Requests, AnswerStored(w),
         disk'[Name(w)].audio = File(w).audio, day' = "durable",
         \A g \in survive'[Name(w)] : g.audio = File(w).audio,
         req[w].sound => File(w).audio = Data(w)
  PROVE  UNCHANGED <<promise, spoiled>> \/ \E n \in Names : AnswerOf(n)
<1>1. PICK n \in Names : n = Name(w)
  BY Parts
<1>2. Data(w) \in Contents /\ req[w].sound \in BOOLEAN /\ File(w) = disk[n] /\ File(w) \in Files
  BY <1>1, Parts DEF File
<1>3. CASE req[w].gone \/ File(w).audio = None
  BY <1>3 DEF AnswerStored
<1>4. CASE ~(req[w].gone \/ File(w).audio = None)
  <2>1. /\ promise' = [promise EXCEPT ![n] = Data(w)]
        /\ spoiled' = [spoiled EXCEPT ![n] = ~req[w].sound]
    BY <1>1, <1>4 DEF AnswerStored
  <2>2. disk[n].audio \in Audio
    BY <1>2 DEF Files
  <2>3. Settled(n)' = disk[n].audio
    BY <1>1, <1>2, <2>2 DEF Settled
  <2>4. PICK c \in Contents : c = Data(w)
    BY <1>2
  <2>5. PICK s \in BOOLEAN : s = ~req[w].sound
    BY <1>2
  <2>6. s \/ disk[n].audio = c
    BY <1>2, <2>4, <2>5
  <2>7. AnswerOf(n)
    BY <2>1, <2>3, <2>4, <2>5, <2>6 DEF AnswerOf
  <2> QED
    BY <2>7
<1> QED
  BY <1>3, <1>4

LEMMA PersistAnswers ==
  ASSUME TypeOK, Inductive, NEW w \in Workers, PersistChain(w)
  PROVE  UNCHANGED <<promise, spoiled>> \/ \E n \in Names : AnswerOf(n)
<1>1. At(w, "persist") /\ "persist" \in PCs \ {"body"}
  BY DEF PersistChain, PCs
<1>2. /\ req[w] \in Requests /\ RequestInv(w) /\ req[w].pc = "persist" /\ Name(w) \in Names
      /\ File(w) = disk[Name(w)]
  BY <1>1, Ready
<1>3. CASE Fail(w) \/ req[w].trying
  BY <1>3 DEF PersistChain, Fail, Refuse, history
<1>4. CASE ~(Fail(w) \/ req[w].trying)
  <2>1. PersistEffect /\ AnswerStored(w)
    BY <1>4 DEF PersistChain
  <2>2. /\ disk' = disk /\ day' = "durable" /\ survive'[Name(w)] = {disk[Name(w)]}
    BY <1>2, <2>1 DEF PersistEffect, SyncDay
  <2>3. req[w].sound => File(w).audio = Data(w)
    BY <1>2 DEF RequestInv, Sealing
  <2> QED
    BY <1>2, <2>1, <2>2, <2>3, AnswerSettles
<1> QED
  BY <1>3, <1>4

LEMMA CleanupAnswers ==
  ASSUME TypeOK, Inductive, NEW w \in Workers, Cleanup(w)
  PROVE  UNCHANGED <<promise, spoiled>> \/ \E n \in Names : AnswerOf(n)
<1>1. At(w, "cleanup") /\ "cleanup" \in PCs \ {"body"}
  BY DEF Cleanup, PCs
<1>2. /\ req[w] \in Requests /\ RequestInv(w) /\ Name(w) \in Names
      /\ File(w) = disk[Name(w)] /\ File(w) \in survive[Name(w)]
  BY <1>1, Ready
<1>3. CASE ~req[w].ok
  BY <1>3 DEF Cleanup, Refuse, history
<1>4. CASE req[w].ok
  <2>1. /\ ~req[w].linked /\ req[w].proven /\ day = "durable"
        /\ \A g \in survive[Name(w)] : g.audio = File(w).audio /\ (req[w].sound => g.audio = Data(w))
    BY <1>2, <1>4 DEF RequestInv
  <2>2. Unlinked(w) = {File(w)} /\ SideDropped(w, File(w)) = {File(w)}
    BY <2>1 DEF Unlinked, SideDropped
  <2>3. /\ disk' = [disk EXCEPT ![Name(w)] = File(w)]
        /\ survive' = [survive EXCEPT ![Name(w)] = @ \cup {File(w)}]
    BY <2>2 DEF Cleanup
  <2>4. disk'[Name(w)] = File(w) /\ survive'[Name(w)] = survive[Name(w)]
    BY <1>2, <2>3 DEF TypeOK
  <2>5. AnswerStored(w) /\ day' = "durable"
    BY <1>4, <2>1 DEF Cleanup
  <2> QED
    BY <1>2, <2>1, <2>4, <2>5, AnswerSettles
<1> QED
  BY <1>3, <1>4

\* Any step that leaves the promises alone settles or unsettles only what is not promised.
LEMMA SettleStep ==
  ASSUME SettledRight, SettledRight', UNCHANGED <<promise, spoiled>>
  PROVE  Archive!Settle
<1>1. \A n \in Names : Settled(n)' \in Bytes
  BY DEF SettledRight
<1>2. \A n \in Names : Archive!Promised(n) => Settled(n)' = Settled(n)
  BY DEF SettledRight, Promised, Archive!Promised
<1> QED
  BY <1>1, <1>2 DEF Archive!Settle, Archive!Unsettled, Archive!Bytes, Bytes

LEMMA AnswerStep ==
  ASSUME TypeOK, SettledRight, SettledRight', Inductive, NEW n \in Names, AnswerOf(n)
  PROVE  \E c \in Contents, s \in BOOLEAN : Archive!Answer(n, c, s)
<1>1. PICK c \in Contents, s \in BOOLEAN :
        /\ promise' = [promise EXCEPT ![n] = c]
        /\ spoiled' = [spoiled EXCEPT ![n] = s]
        /\ Settled(n)' = disk[n].audio
        /\ s \/ disk[n].audio = c
  BY DEF AnswerOf
<1>2. \A m \in Names : Settled(m)' \in Bytes
  BY DEF SettledRight
<1>3. ASSUME NEW m \in Names, Promised(m) PROVE Settled(m)' = Settled(m)
  <2>1. CASE m = n
    <3>1. promise[n] = Settled(n) /\ promise[n] # None /\ ~spoiled[n]
      BY <1>3, <2>1 DEF SettledRight, Promised
    <3>2. disk[n].audio = promise[n]
      BY <3>1 DEF Inductive, DiskInv, NameInv, Keeps
    <3> QED
      BY <1>1, <2>1, <3>1, <3>2
  <2>2. CASE m # n
    BY <1>1, <1>3, <2>2 DEF SettledRight, Promised, TypeOK
  <2> QED
    BY <2>1, <2>2
<1>4. Archive!Unsettled
  BY <1>2, <1>3 DEF Archive!Unsettled, Archive!Bytes, Bytes, Archive!Promised, Promised
<1>5. Archive!Answer(n, c, s)
  BY <1>1, <1>4 DEF Archive!Answer
<1> QED
  BY <1>5

LEMMA RenounceStep ==
  ASSUME TypeOK, SettledRight, SettledRight', NEW w \in Workers, Quarantine(w)
  PROVE  Archive!Settle \/ \E n \in Names : Archive!Renounce(n)
<1>1. At(w, "quarantine") /\ "quarantine" \in PCs
  BY DEF Quarantine, PCs
<1>2. PICK n \in Names : n = Name(w)
  BY <1>1, Active, Parts
<1>3. CASE UNCHANGED <<promise, spoiled>>
  BY <1>3, SettleStep
<1>4. CASE ~UNCHANGED <<promise, spoiled>>
  <2>1. Renounce(n)
    BY <1>2, <1>4 DEF Quarantine, Refuse, Fail, history
  <2>2. spoiled[n] /\ promise' = [promise EXCEPT ![n] = None] /\ spoiled' = spoiled
    BY <1>4, <2>1 DEF Renounce
  <2>3. \A m \in Names : Settled(m)' \in Bytes /\ (Promised(m) => Settled(m)' = Settled(m))
    BY <2>2 DEF SettledRight, Promised, TypeOK
  <2>4. Archive!Unsettled
    BY <2>3 DEF Archive!Unsettled, Archive!Bytes, Bytes, Archive!Promised, Promised
  <2>5. Archive!Renounce(n)
    BY <2>2, <2>4 DEF Archive!Renounce
  <2> QED
    BY <2>5
<1> QED
  BY <1>3, <1>4

\* Damage to n leaves the other names alone; copies of n that held other bytes stay apart.
LEMMA DamageSettles ==
  ASSUME TypeOK, Inductive, AudioInv, NEW n \in Names, NEW a \in {Rot, None}, DamageTo(n, a)
  PROVE  /\ \A m \in Names \ {n} : Settled(m)' = Settled(m)
         /\ a = None => Settled(n)' = None
         /\ a = Rot => Settled(n)' = IF Settled(n) \in Contents THEN Rot ELSE Settled(n)
<1> DEFINE hit(f) == IF f.audio = disk[n].audio THEN [f EXCEPT !.audio = a] ELSE f
<1>1. /\ disk[n].audio \in Contents /\ day' = day
      /\ disk'[n].audio = a /\ survive'[n] = {hit(f) : f \in survive[n]}
      /\ \A m \in Names \ {n} : disk'[m] = disk[m] /\ survive'[m] = survive[m]
  BY DEF DamageTo, TypeOK, Files
<1>2. disk[n] \in survive[n] /\ survive[n] \subseteq Files
  BY DEF Inductive, DiskInv, NameInv, TypeOK
<1>3. \A m \in Names \ {n} : Settled(m)' = Settled(m)
  BY <1>1 DEF Settled
<1>4. a = None => Settled(n)' = None
  BY <1>1 DEF Settled
<1>5. CASE day # "durable"
  BY <1>1, <1>3, <1>4, <1>5, ConstantsAssumption DEF Settled
<1>6. CASE day = "durable" /\ \A f \in survive[n] : f.audio = disk[n].audio
  <2>1. \A g \in survive'[n] : g.audio = a
    BY <1>1, <1>2, <1>6 DEF Files
  <2>2. a \in Audio
    BY DEF Audio
  <2>3. Settled(n)' = a
    BY <1>1, <1>6, <2>1, <2>2 DEF Settled
  <2>4. Settled(n) = disk[n].audio
    BY <1>1, <1>6 DEF Settled, Audio
  <2> QED
    BY <1>1, <1>3, <2>3, <2>4
<1>7. CASE ~\A f \in survive[n] : f.audio = disk[n].audio
  <2>1. Settled(n) = None
    BY <1>2, <1>7 DEF Settled
  <2>2. PICK g \in survive[n] : g.audio = None
    BY <1>1, <1>7, ConstantsAssumption DEF AudioInv, Gapped
  <2>3. g \in survive'[n]
    BY <1>1, <2>2, ConstantsAssumption
  <2>4. hit(disk[n]) \in survive'[n] /\ hit(disk[n]).audio = a
    BY <1>1, <1>2 DEF Files
  <2>5. a = Rot => Settled(n)' = None
    BY <2>2, <2>3, <2>4, ConstantsAssumption DEF Settled
  <2> QED
    BY <1>3, <1>4, <2>1, <2>5, ConstantsAssumption
<1> QED
  BY <1>5, <1>6, <1>7

LEMMA DecayStep ==
  ASSUME TypeOK, Inductive, AudioInv, NEW n \in Names, Decay(n)
  PROVE  Archive!Decay(n)
<1>1. /\ DamageTo(n, Rot) /\ spoiled' = [spoiled EXCEPT ![n] = TRUE] /\ UNCHANGED promise
  BY DEF Decay
<1> DEFINE H == [m \in Names |-> Settled(m)]
<1>2. [m \in Names |-> Settled(m)'] =
        [H EXCEPT ![n] = IF @ \in Contents THEN Rot ELSE @]
  BY <1>1, DamageSettles, ConstantsAssumption
<1> QED
  BY <1>1, <1>2 DEF Archive!Decay

LEMMA TakeAwayStep ==
  ASSUME TypeOK, Inductive, AudioInv, NEW n \in Names, TakeAway(n)
  PROVE  Archive!TakeAway(n)
<1>1. /\ DamageTo(n, None) /\ promise' = [promise EXCEPT ![n] = None] /\ UNCHANGED spoiled
  BY DEF TakeAway
<1> DEFINE H == [m \in Names |-> Settled(m)]
<1>2. [m \in Names |-> Settled(m)'] = [H EXCEPT ![n] = None]
  BY <1>1, DamageSettles
<1> QED
  BY <1>1, <1>2 DEF Archive!TakeAway

(***************************************************************************)
(* With one lock per name the edge implements the archive the phones rely  *)
(* on: every file-system step, crash, power loss and answer of the store   *)
(* is a step of EdgeArchive or leaves what it promised alone               *)
(* (upload_store.py:1-20, server.py:491-501).                              *)
(***************************************************************************)
THEOREM ArchiveImplemented ==
  ASSUME Exclusive
  PROVE  Spec => ArchiveSpec
<1>1. Init => Archive!Init
  <2> SUFFICES ASSUME Init PROVE Archive!Init
    OBVIOUS
  <2>1. [n \in Names |-> Settled(n)] = [n \in Names |-> None]
    BY DEF Init, Settled
  <2> QED
    BY <2>1 DEF Init, Archive!Init
<1>2. TypeOK /\ Inductive => SettledRight
  BY SettledFacts
<1>3. TypeOK /\ Inductive /\ AudioInv /\ SettledRight /\ SettledRight' /\ [Next]_vars
        => [Archive!Next]_Archive!vars
  <2> SUFFICES ASSUME TypeOK, Inductive, AudioInv, SettledRight, SettledRight', [Next]_vars
               PROVE  Archive!Next
    OBVIOUS
  <2>1. UNCHANGED <<promise, spoiled>> => Archive!Next
    BY SettleStep DEF Archive!Next
  <2>2. CASE RequestStep
    <3>1. PICK w \in Workers :
            \/ \E n \in Names, c \in Contents, m \in Sidecars : Start(w, n, c, m)
            \/ BodyRejected(w) \/ Lock(w) \/ FloorRejected(w) \/ Floor(w) \/ Abandon(w)
            \/ MakeDay(w) \/ SyncParent(w)
            \/ LookHeld(w) \/ LookOther(w) \/ LookNone(w) \/ LookFails(w)
            \/ HeldSide(w) \/ Quarantine(w) \/ SyncAside(w) \/ RemoveStale(w)
            \/ WriteSide(w) \/ WriteTemp(w) \/ Link(w) \/ LinkLost(w) \/ SyncLink(w) \/ ReadBack(w)
            \/ WriteProof(w) \/ SyncProof(w) \/ PersistChain(w) \/ Cleanup(w) \/ CleanupFails(w)
      BY <2>2 DEF RequestStep
    <3>2. CASE Quarantine(w)
      BY <3>2, RenounceStep DEF Archive!Next
    <3>3. CASE PersistChain(w) \/ Cleanup(w)
      <4>1. UNCHANGED <<promise, spoiled>> \/ \E n \in Names : AnswerOf(n)
        BY <3>3, PersistAnswers, CleanupAnswers
      <4>2. (\E n \in Names : AnswerOf(n)) => Archive!Next
        BY AnswerStep DEF Archive!Next
      <4> QED
        BY <2>1, <4>1, <4>2
    <3>4. CASE ~(Quarantine(w) \/ PersistChain(w) \/ Cleanup(w))
      BY <2>1, <3>1, <3>4, NoAnswer
    <3> QED
      BY <3>2, <3>3, <3>4
  <2>3. CASE HaveStep \/ Kill \/ PowerLoss \/ UNCHANGED vars
    <3>1. UNCHANGED <<promise, spoiled>>
      BY <2>3 DEF HaveStep, Have, Kill, PowerLoss, Restarted, vars
    <3> QED
      BY <2>1, <3>1
  <2>4. CASE \E n \in Names : Decay(n) \/ TakeAway(n)
    BY <2>4, DecayStep, TakeAwayStep DEF Archive!Next
  <2> QED
    BY <2>2, <2>3, <2>4 DEF Next
<1> QED
  BY <1>1, <1>2, <1>3, TypeCorrect, InductiveHolds, AudioHolds, PTL
     DEF Spec, ArchiveSpec, Archive!Spec

-----------------------------------------------------------------------------
(***************************************************************************)
(* No final file is ever half-written, with the lock or without            *)
(***************************************************************************)
Untorn ==
  \A n \in Names : disk[n].audio # Torn /\ \A f \in survive[n] : f.audio # Torn

LEMMA UntornStays ==
  ASSUME TypeOK, FlushedFirst, Untorn, [Next]_vars
  PROVE  Untorn'
<1>1. ASSUME NEW w \in Workers, AudioStep(w)
      PROVE  Untorn'
  <2> SUFFICES ASSUME NEW n \in Names
               PROVE  disk'[n].audio # Torn /\ \A f \in survive'[n] : f.audio # Torn
    BY DEF Untorn
  <2>1. Touches(w, n) /\ (Grows(n) \/ Settles(n)) /\ Data(w) \in Contents
    BY <1>1, Parts DEF AudioStep
  <2>2. disk'[n].audio # Torn
    BY <2>1, ConstantsAssumption DEF Touches, Untorn
  <2> QED
    BY <2>1, <2>2 DEF Grows, Settles, Untorn
<1>2. CASE RequestStep
  <2>1. ASSUME NEW w \in Workers, NEW n \in Names, NEW c \in Contents, NEW m \in Sidecars,
               Start(w, n, c, m)
        PROVE  Untorn'
    BY <2>1 DEF Start, storeVars, Untorn
  <2> QED
    BY <1>1, <1>2, <2>1, RequestAudio
<1>3. CASE HaveStep \/ Kill \/ UNCHANGED vars
  BY <1>3 DEF HaveStep, Have, Kill, storeVars, vars, Untorn
<1>4. CASE PowerLoss
  <2>1. \/ \A n \in Names : disk'[n] \in survive[n] /\ survive'[n] = {disk'[n]}
        \/ \A n \in Names : disk'[n] = NoFiles /\ survive'[n] = {NoFiles}
    BY <1>4 DEF PowerLoss
  <2>2. NoFiles.audio # Torn
    BY ConstantsAssumption DEF NoFiles
  <2> QED
    BY <2>1, <2>2 DEF Untorn
<1>5. ASSUME NEW n \in Names, Decay(n) \/ TakeAway(n)
      PROVE  Untorn'
  <2>1. PICK a \in {Rot, None} : DamageTo(n, a)
    BY <1>5 DEF Decay, TakeAway
  <2>2. a # Torn
    BY ConstantsAssumption
  <2>3. /\ disk'[n].audio = a
        /\ \A g \in survive'[n] : g.audio = a \/ g \in survive[n]
        /\ \A m \in Names \ {n} : disk'[m] = disk[m] /\ survive'[m] = survive[m]
    <3>1. survive'[n] = {IF f.audio = disk[n].audio THEN [f EXCEPT !.audio = a] ELSE f : f \in survive[n]}
      BY <2>1 DEF DamageTo, TypeOK
    <3>2. \A f \in survive[n] : f \in Files
      BY DEF TypeOK
    <3>3. \A g \in survive'[n] : g.audio = a \/ g \in survive[n]
      BY <3>1, <3>2 DEF Files
    <3> QED
      BY <2>1, <3>3 DEF DamageTo, TypeOK, Files
  <2> QED
    BY <2>2, <2>3 DEF Untorn
<1> QED
  BY <1>2, <1>3, <1>4, <1>5 DEF Next

(***************************************************************************)
(* Whatever locks writers share, and whenever the power fails: no file     *)
(* under a final name holds audio that was never completely written, since *)
(* it is linked only after its bytes are synced (upload_store.py:297-300). *)
(***************************************************************************)
THEOREM TornKept == Spec => []NothingTorn
<1>1. Init => Untorn
  <2> SUFFICES ASSUME Init PROVE Untorn
    OBVIOUS
  <2>1. NoFiles.audio # Torn
    BY ConstantsAssumption DEF NoFiles
  <2>2. \A n \in Names : disk[n] = NoFiles /\ survive[n] = {NoFiles}
    BY DEF Init
  <2> QED
    BY <2>1, <2>2 DEF Untorn
<1>2. TypeOK /\ FlushedFirst /\ Untorn /\ [Next]_vars => Untorn'
  BY UntornStays
<1>3. Untorn => NothingTorn
  BY DEF Untorn, NothingTorn
<1> QED
  BY <1>1, <1>2, <1>3, TypeCorrect, FlushedHolds, PTL DEF Spec

(***************************************************************************)
(* No disk a crash can leave holds torn audio or leftovers that describe   *)
(* other audio.                                                            *)
(***************************************************************************)
THEOREM DiskStaysClean ==
  ASSUME Exclusive
  PROVE  Spec => []CleanDisk
<1>1. LeftoversMatch /\ NothingTorn => CleanDisk
  BY DEF CleanDisk
<1> QED
  BY <1>1, LeftoversKept, TornKept, PTL

-----------------------------------------------------------------------------
(***************************************************************************)
(* Two writers of one name that share no lock (MCEdgeTwo)                  *)
(***************************************************************************)
Whole == {f \in Files : f.audio # Torn}

\* A request of such a writer, with its data on the disk before it links.
Launched == {r \in Race!Requests : r.pc = "link" => r.flushed}

RaceInv ==
  /\ disk \in [RaceNames -> Whole]
  /\ survive \in [RaceNames -> SUBSET Whole]
  /\ req \in [Workers -> {Idle} \cup Launched]

\* Race's step of the request in slot w.
RaceStep(w) ==
  \/ \E n \in RaceNames, c \in Contents, m \in BOOLEAN : Race!Start(w, n, c, m)
  \/ Race!BodyRejected(w) \/ Race!Lock(w) \/ Race!FloorRejected(w) \/ Race!Floor(w) \/ Race!Abandon(w)
  \/ Race!MakeDay(w) \/ Race!SyncParent(w)
  \/ Race!LookHeld(w) \/ Race!LookOther(w) \/ Race!LookNone(w) \/ Race!LookFails(w)
  \/ Race!HeldSide(w) \/ Race!Quarantine(w) \/ Race!SyncAside(w) \/ Race!RemoveStale(w)
  \/ Race!WriteSide(w) \/ Race!WriteTemp(w) \/ Race!Link(w) \/ Race!LinkLost(w) \/ Race!SyncLink(w)
  \/ Race!ReadBack(w) \/ Race!WriteProof(w) \/ Race!SyncProof(w) \/ Race!PersistChain(w)
  \/ Race!Cleanup(w) \/ Race!CleanupFails(w)

LEMMA RaceParts ==
  ASSUME RaceInv, NEW w \in Workers, NEW pc \in PCs, Race!At(w, pc)
  PROVE  /\ req[w] \in Launched /\ req[w].name \in RaceNames /\ req[w].data \in Contents
         /\ disk[req[w].name] \in Whole /\ req[w].data # Torn
BY ConstantsAssumption DEF RaceInv, Race!At, PCs, Idle, Launched, Race!Requests

\* A file that is changed in one place stays whole.
LEMMA WholeKept ==
  ASSUME NEW f \in Whole
  PROVE  /\ \A a \in Contents \cup {None, Rot} : [f EXCEPT !.audio = a] \in Whole
         /\ \A c \in Contents \cup {None} : [f EXCEPT !.side = c] \in Whole /\ [f EXCEPT !.proof = c] \in Whole
         /\ [f EXCEPT !.audio = None, !.aside = @ \cup {f.audio}] \in Whole
<1>1. f \in Files /\ f.audio # Torn
  BY DEF Whole
<1>2. ASSUME NEW a \in Contents \cup {None, Rot}
      PROVE  [f EXCEPT !.audio = a] \in Whole
  BY <1>1, ConstantsAssumption DEF Whole, Files, Audio
<1>3. ASSUME NEW c \in Contents \cup {None}
      PROVE  [f EXCEPT !.side = c] \in Whole /\ [f EXCEPT !.proof = c] \in Whole
  BY <1>1, ConstantsAssumption DEF Whole, Files
<1>4. [f EXCEPT !.audio = None, !.aside = @ \cup {f.audio}] \in Whole
  BY <1>1, ConstantsAssumption DEF Whole, Files, Audio
<1> QED
  BY <1>2, <1>3, <1>4

\* The request tables its steps lead to.
LEMMA RaceTables ==
  ASSUME RaceInv, NEW w \in Workers, req[w] \in Launched, NEW pc \in PCs \ {"link"}, NEW b \in BOOLEAN
  PROVE  LET T == [Workers -> {Idle} \cup Launched]
         IN /\ [req EXCEPT ![w] = Idle] \in T
            /\ [req EXCEPT ![w].pc = pc] \in T
            /\ [req EXCEPT ![w].gone = TRUE] \in T
            /\ [req EXCEPT ![w].pc = "link", ![w].flushed = TRUE] \in T
            /\ [req EXCEPT ![w].pc = pc, ![w].ok = FALSE] \in T
            /\ [req EXCEPT ![w].pc = pc, ![w].sound = b] \in T
            /\ [req EXCEPT ![w].pc = pc, ![w].keep = b] \in T
            /\ [req EXCEPT ![w].pc = pc, ![w].trying = TRUE] \in T
            /\ [req EXCEPT ![w].pc = pc, ![w].wrote = TRUE, ![w].trying = TRUE] \in T
            /\ [req EXCEPT ![w].pc = pc, ![w].linked = TRUE] \in T
            /\ [req EXCEPT ![w].pc = pc, ![w].linked = FALSE, ![w].proven = TRUE, ![w].sound = TRUE] \in T
            /\ [req EXCEPT ![w].pc = pc, ![w].proven = TRUE, ![w].ok = TRUE] \in T
<1> DEFINE T == [Workers -> {Idle} \cup Launched]
<1>1. req \in T
  BY DEF RaceInv
<1>2. ASSUME NEW r \in {Idle} \cup Launched PROVE [req EXCEPT ![w] = r] \in T
  BY <1>1
<1>3. PCs = Race!PCs
  BY DEF PCs, Race!PCs
<1> HIDE DEF T
<1>4. [req EXCEPT ![w] = Idle] \in T
  BY <1>2
<1>5. [req EXCEPT ![w].pc = pc] \in T
  <2>1. [req[w] EXCEPT !.pc = pc] \in Launched
    BY <1>3 DEF Launched, Race!Requests
  <2> QED
    BY <1>2, <2>1
<1>6. [req EXCEPT ![w].gone = TRUE] \in T
  <2>1. [req[w] EXCEPT !.gone = TRUE] \in Launched
    BY <1>3 DEF Launched, Race!Requests
  <2> QED
    BY <1>2, <2>1
<1>7. [req EXCEPT ![w].pc = pc, ![w].ok = FALSE] \in T
  <2>1. [req[w] EXCEPT !.pc = pc, !.ok = FALSE] \in Launched
    BY <1>3 DEF Launched, Race!Requests
  <2> QED
    BY <1>2, <2>1
<1>8. [req EXCEPT ![w].pc = pc, ![w].sound = b] \in T
  <2>1. [req[w] EXCEPT !.pc = pc, !.sound = b] \in Launched
    BY <1>3 DEF Launched, Race!Requests
  <2> QED
    BY <1>2, <2>1
<1>9. [req EXCEPT ![w].pc = pc, ![w].keep = b] \in T
  <2>1. [req[w] EXCEPT !.pc = pc, !.keep = b] \in Launched
    BY <1>3 DEF Launched, Race!Requests
  <2> QED
    BY <1>2, <2>1
<1>10. [req EXCEPT ![w].pc = pc, ![w].trying = TRUE] \in T
  <2>1. [req[w] EXCEPT !.pc = pc, !.trying = TRUE] \in Launched
    BY <1>3 DEF Launched, Race!Requests
  <2> QED
    BY <1>2, <2>1
<1>11. [req EXCEPT ![w].pc = pc, ![w].wrote = TRUE, ![w].trying = TRUE] \in T
  <2>1. [req[w] EXCEPT !.pc = pc, !.wrote = TRUE, !.trying = TRUE] \in Launched
    BY <1>3 DEF Launched, Race!Requests
  <2> QED
    BY <1>2, <2>1
<1>12. [req EXCEPT ![w].pc = pc, ![w].linked = TRUE] \in T
  <2>1. [req[w] EXCEPT !.pc = pc, !.linked = TRUE] \in Launched
    BY <1>3 DEF Launched, Race!Requests
  <2> QED
    BY <1>2, <2>1
<1>13. [req EXCEPT ![w].pc = pc, ![w].linked = FALSE, ![w].proven = TRUE, ![w].sound = TRUE] \in T
  <2>1. [req[w] EXCEPT !.pc = pc, !.linked = FALSE, !.proven = TRUE, !.sound = TRUE] \in Launched
    BY <1>3 DEF Launched, Race!Requests
  <2> QED
    BY <1>2, <2>1
<1>14. [req EXCEPT ![w].pc = pc, ![w].proven = TRUE, ![w].ok = TRUE] \in T
  <2>1. [req[w] EXCEPT !.pc = pc, !.proven = TRUE, !.ok = TRUE] \in Launched
    BY <1>3 DEF Launched, Race!Requests
  <2> QED
    BY <1>2, <2>1
<1>15. [req EXCEPT ![w].pc = "link", ![w].flushed = TRUE] \in T
  <2>1. [req[w] EXCEPT !.pc = "link", !.flushed = TRUE] \in Launched
    BY <1>3 DEF Launched, Race!Requests, Race!PCs
  <2> QED
    BY <1>2, <2>1
<1> QED
  BY <1>4, <1>5, <1>6, <1>7, <1>8, <1>9, <1>10, <1>11, <1>12, <1>13, <1>14, <1>15 DEF T

LEMMA RaceReqs ==
  ASSUME RaceInv, NEW w \in Workers, RaceStep(w)
  PROVE  req' \in [Workers -> {Idle} \cup Launched]
<1> DEFINE T == [Workers -> {Idle} \cup Launched]
<1> SUFFICES req' \in T
  OBVIOUS
<1>1. CASE \E n \in RaceNames, c \in Contents, m \in BOOLEAN : Race!Start(w, n, c, m)
  BY <1>1 DEF Race!Start, RaceInv, Launched, Race!Requests, Race!PCs
<1>2. CASE req[w] \notin Launched /\ Race!Abandon(w)
  BY <1>2 DEF Race!Abandon, RaceInv, Idle, Race!Idle
<1>3. CASE req[w] \in Launched
  <2> HIDE DEF T
  <2>1. ASSUME NEW pc \in PCs \ {"link"} PROVE [req EXCEPT ![w].pc = pc] \in T
    BY <1>3, RaceTables DEF T
  <2>12. "side" \in PCs \ {"link"} /\ TRUE \in BOOLEAN
    BY DEF PCs
  <2>2. Race!Refuse(w) \/ Race!AnswerStored(w) => req' \in T
    <3>1. [req EXCEPT ![w] = Idle] \in T
      BY <1>3, <2>12, RaceTables DEF T, PCs
    <3> QED
      BY <3>1 DEF Race!Refuse, Race!AnswerStored, Idle, Race!Idle
  <2>3. Race!Fail(w) => req' \in T
    <3>1. [req EXCEPT ![w].pc = "cleanup", ![w].ok = FALSE] \in T
      BY <1>3, RaceTables DEF T, PCs
    <3> QED
      BY <2>2, <3>1 DEF Race!Fail
  <2>4. CASE Race!BodyRejected(w) \/ Race!Lock(w) \/ Race!FloorRejected(w) \/ Race!Floor(w) \/ Race!Abandon(w)
    <3>1. /\ [req EXCEPT ![w] = Idle] \in T
          /\ [req EXCEPT ![w].pc = "floor"] \in T
          /\ [req EXCEPT ![w].pc = "mkdir"] \in T
          /\ [req EXCEPT ![w].pc = "look"] \in T
          /\ [req EXCEPT ![w].gone = TRUE] \in T
      BY <1>3, <2>12, RaceTables DEF T, PCs
    <3> QED
      BY <2>2, <2>3, <2>4, <3>1
         DEF Race!BodyRejected, Race!Lock, Race!FloorRejected, Race!Floor, Race!Abandon, Race!Goto, Race!Name, Race!Data, Race!File, Race!Idle, Idle
  <2>5. CASE Race!MakeDay(w) \/ Race!SyncParent(w) \/ Race!LookFails(w) \/ Race!HeldSide(w)
    <3>1. /\ [req EXCEPT ![w].pc = "mkdirSync"] \in T
          /\ [req EXCEPT ![w].pc = "look"] \in T
          /\ [req EXCEPT ![w].pc = "persist"] \in T
          /\ [req EXCEPT ![w].pc = "proof"] \in T
      BY <1>3, RaceTables DEF T, PCs
    <3> QED
      BY <2>2, <2>3, <2>5, <3>1
         DEF Race!MakeDay, Race!SyncParent, Race!LookFails, Race!HeldSide, Race!Goto, Race!Name, Race!Data, Race!File, Race!Idle, Idle
  <2>6. CASE Race!LookHeld(w) \/ Race!LookOther(w) \/ Race!LookNone(w) \/ Race!CleanupFails(w)
    <3>1. /\ [req EXCEPT ![w].pc = "heldSide", ![w].sound = TRUE] \in T
          /\ [req EXCEPT ![w].pc = "quarantine"] \in T
          /\ [req EXCEPT ![w].pc = "stale", ![w].keep = disk[req[w].name].proof = req[w].data] \in T
      BY <1>3, RaceTables DEF T, PCs
    <3> QED
      BY <2>2, <2>3, <2>6, <3>1
         DEF Race!LookHeld, Race!LookOther, Race!LookNone, Race!CleanupFails, Race!Goto, Race!Name, Race!Data, Race!File, Race!Idle, Idle
  <2>7. CASE Race!Quarantine(w) \/ Race!SyncAside(w)
    <3>1. /\ [req EXCEPT ![w].pc = "asideSync"] \in T
          /\ [req EXCEPT ![w].pc = "stale", ![w].keep = TRUE] \in T
      BY <1>3, RaceTables DEF T, PCs
    <3> QED
      BY <2>2, <2>3, <2>7, <3>1 DEF Race!Quarantine, Race!SyncAside, Race!Goto
  <2>11. CASE Race!RemoveStale(w) \/ Race!WriteTemp(w)
    <3>1. /\ [req EXCEPT ![w].pc = "side"] \in T /\ req \in T
          /\ [req EXCEPT ![w].pc = "link", ![w].flushed = TRUE] \in T
      BY <1>3, <2>12, RaceTables DEF T, PCs, RaceInv
    <3> QED
      BY <2>3, <2>11, <3>1 DEF Race!RemoveStale, Race!WriteTemp, Race!Goto
  <2>8. CASE Race!WriteSide(w) \/ Race!Link(w) \/ Race!SyncLink(w) \/ Race!ReadBack(w)
    <3>1. /\ [req EXCEPT ![w].pc = "temp", ![w].wrote = TRUE, ![w].trying = TRUE] \in T
          /\ [req EXCEPT ![w].pc = "temp", ![w].trying = TRUE] \in T
          /\ [req EXCEPT ![w].pc = "sync", ![w].linked = TRUE] \in T
          /\ [req EXCEPT ![w].pc = "readback"] \in T
          /\ [req EXCEPT ![w].pc = "proof", ![w].linked = FALSE, ![w].proven = TRUE, ![w].sound = TRUE] \in T
          /\ [req EXCEPT ![w].pc = "cleanup"] \in T
      BY <1>3, RaceTables DEF T, PCs
    <3> QED
      BY <2>2, <2>3, <2>8, <3>1
         DEF Race!WriteSide, Race!Link, Race!SyncLink, Race!ReadBack, Race!Goto, Race!Name, Race!Data, Race!File, Race!Idle, Idle
  <2>9. CASE Race!LinkLost(w)
    <3>1. /\ [req EXCEPT ![w].pc = "persist", ![w].sound = TRUE] \in T
          /\ [req EXCEPT ![w].pc = "cleanup", ![w].sound = FALSE] \in T
      BY <1>3, RaceTables DEF T, PCs
    <3> QED
      BY <2>2, <2>3, <2>9, <3>1
         DEF Race!LinkLost, Race!Goto, Race!Name, Race!Data, Race!File, Race!Idle, Idle
  <2>10. CASE Race!WriteProof(w) \/ Race!SyncProof(w) \/ Race!PersistChain(w) \/ Race!Cleanup(w)
    <3>1. /\ [req EXCEPT ![w].pc = "proofSync"] \in T
          /\ [req EXCEPT ![w].pc = "persist"] \in T
          /\ [req EXCEPT ![w].pc = "cleanup", ![w].proven = TRUE, ![w].ok = TRUE] \in T
      BY <1>3, RaceTables DEF T, PCs
    <3> QED
      BY <2>2, <2>3, <2>10, <3>1
         DEF Race!WriteProof, Race!SyncProof, Race!PersistChain, Race!Cleanup, Race!Goto, Race!Name, Race!Data, Race!File, Race!Idle, Idle
  <2> QED
    BY <1>1, <2>4, <2>5, <2>6, <2>7, <2>8, <2>9, <2>10, <2>11 DEF RaceStep, T
<1>4. CASE req[w] \notin Launched /\ ~Race!Abandon(w)
  <2>1. req[w].pc = "idle"
    BY <1>4 DEF RaceInv, Idle
  <2>2. ~(Race!BodyRejected(w) \/ Race!Lock(w) \/ Race!FloorRejected(w) \/ Race!Floor(w) \/ Race!MakeDay(w)
          \/ Race!SyncParent(w) \/ Race!LookFails(w) \/ Race!HeldSide(w) \/ Race!LookHeld(w))
    BY <2>1 DEF Race!BodyRejected, Race!Lock, Race!FloorRejected, Race!Floor, Race!MakeDay,
       Race!SyncParent, Race!LookFails, Race!HeldSide, Race!LookHeld, Race!At
  <2>3. ~(Race!LookOther(w) \/ Race!LookNone(w) \/ Race!CleanupFails(w) \/ Race!Quarantine(w)
          \/ Race!SyncAside(w) \/ Race!RemoveStale(w) \/ Race!WriteTemp(w) \/ Race!WriteSide(w))
    BY <2>1 DEF Race!LookOther, Race!LookNone, Race!CleanupFails, Race!Quarantine, Race!SyncAside,
       Race!RemoveStale, Race!WriteTemp, Race!WriteSide, Race!At
  <2>4. ~(Race!Link(w) \/ Race!LinkLost(w) \/ Race!SyncLink(w) \/ Race!ReadBack(w) \/ Race!WriteProof(w)
          \/ Race!SyncProof(w) \/ Race!PersistChain(w) \/ Race!Cleanup(w))
    BY <2>1 DEF Race!Link, Race!LinkLost, Race!SyncLink, Race!ReadBack, Race!WriteProof,
       Race!SyncProof, Race!PersistChain, Race!Cleanup, Race!At
  <2> QED
    BY <1>1, <1>4, <2>2, <2>3, <2>4 DEF RaceStep
<1> QED
  BY <1>2, <1>3, <1>4

\* What such a step may do to the files.
RaceFiles == disk' \in [RaceNames -> Whole] /\ survive' \in [RaceNames -> SUBSET Whole]

LEMMA RacePut ==
  ASSUME RaceInv, NEW n \in RaceNames, NEW f \in Whole, Race!Put(n, f)
  PROVE  RaceFiles
BY DEF RaceInv, RaceFiles, Race!Put

LEMMA RaceSync ==
  ASSUME RaceInv, Race!SyncDay, disk' = disk
  PROVE  RaceFiles
BY DEF RaceInv, RaceFiles, Race!SyncDay

LEMMA RaceDisk ==
  ASSUME RaceInv, NEW w \in Workers, RaceStep(w)
  PROVE  RaceFiles
<1>1. UNCHANGED Race!storeVars => RaceFiles
  BY DEF Race!storeVars, RaceInv, RaceFiles
<1>2. CASE UNCHANGED Race!storeVars \/ Race!Fail(w)
  BY <1>1, <1>2 DEF Race!Fail
<1>3. CASE ~(UNCHANGED Race!storeVars \/ Race!Fail(w))
  <2>1. \/ Race!MakeDay(w) \/ Race!SyncParent(w) \/ Race!HeldSide(w) \/ Race!Quarantine(w)
        \/ Race!SyncAside(w) \/ Race!RemoveStale(w) \/ Race!WriteSide(w) \/ Race!Link(w)
        \/ Race!SyncLink(w) \/ Race!WriteProof(w) \/ Race!SyncProof(w) \/ Race!PersistChain(w)
        \/ Race!Cleanup(w)
    <3>1. (\E n \in RaceNames, c \in Contents, m \in BOOLEAN : Race!Start(w, n, c, m))
            => UNCHANGED Race!storeVars
      BY DEF Race!Start
    <3>2. Race!BodyRejected(w) \/ Race!Lock(w) \/ Race!FloorRejected(w) \/ Race!Floor(w)
          \/ Race!Abandon(w) \/ Race!LookHeld(w) \/ Race!LookOther(w) \/ Race!LookNone(w)
            => UNCHANGED Race!storeVars
      BY DEF Race!BodyRejected, Race!Lock, Race!FloorRejected, Race!Floor, Race!Abandon,
         Race!LookHeld, Race!LookOther, Race!LookNone
    <3>3. Race!LookFails(w) \/ Race!WriteTemp(w) \/ Race!LinkLost(w) \/ Race!ReadBack(w)
          \/ Race!CleanupFails(w)
            => (UNCHANGED Race!storeVars) \/ Race!Fail(w)
      BY DEF Race!LookFails, Race!WriteTemp, Race!LinkLost, Race!ReadBack, Race!CleanupFails
    <3> QED
      BY <1>3, <3>1, <3>2, <3>3 DEF RaceStep
  <2>2. CASE Race!MakeDay(w) \/ Race!SyncParent(w)
    BY <1>3, <2>2 DEF Race!MakeDay, Race!SyncParent, RaceInv, RaceFiles
  <2>3. CASE Race!SyncAside(w) \/ Race!SyncLink(w) \/ Race!SyncProof(w) \/ Race!PersistChain(w)
    BY <1>3, <2>3, RaceSync DEF Race!SyncAside, Race!SyncLink, Race!SyncProof, Race!PersistChain,
       Race!PersistEffect
  <2>4. ASSUME Race!HeldSide(w) \/ Race!Quarantine(w) \/ Race!RemoveStale(w) \/ Race!WriteSide(w)
               \/ Race!Link(w) \/ Race!WriteProof(w) \/ Race!Cleanup(w)
        PROVE  /\ req[w].name \in RaceNames /\ req[w].data \in Contents
               /\ disk[req[w].name] \in Whole
    <3>1. \E pc \in PCs : Race!At(w, pc)
      BY <2>4 DEF Race!HeldSide, Race!Quarantine, Race!RemoveStale, Race!WriteSide, Race!Link,
         Race!WriteProof, Race!Cleanup, PCs
    <3> QED
      BY <3>1, RaceParts
  <2>5. CASE Race!HeldSide(w) \/ Race!RemoveStale(w) \/ Race!WriteSide(w) \/ Race!WriteProof(w)
    <3>1. PICK n \in RaceNames : n = req[w].name
      BY <2>4, <2>5
    <3>2. \E c \in Contents \cup {None} :
            Race!Put(n, [disk[n] EXCEPT !.side = c]) \/ Race!Put(n, [disk[n] EXCEPT !.proof = c])
      BY <1>3, <2>4, <2>5, <3>1
         DEF Race!HeldSide, Race!RemoveStale, Race!WriteSide, Race!WriteProof, Race!Name,
             Race!File, Race!Data, Race!storeVars
    <3> QED
      BY <2>4, <2>5, <3>1, <3>2, WholeKept, RacePut
  <2>6. CASE Race!Quarantine(w)
    <3>1. PICK n \in RaceNames : n = req[w].name
      BY <2>4, <2>6
    <3>2. Race!Put(n, [disk[n] EXCEPT !.audio = None, !.aside = @ \cup {disk[n].audio}])
      BY <1>3, <2>6, <3>1 DEF Race!Quarantine, Race!Name, Race!File, Race!storeVars
    <3> QED
      BY <2>4, <2>6, <3>1, <3>2, WholeKept, RacePut
  <2>7. CASE Race!Link(w)
    <3>1. PICK n \in RaceNames, c \in Contents : n = req[w].name /\ c = req[w].data
      BY <2>4, <2>7
    <3>2. Race!Put(n, [disk[n] EXCEPT !.audio = c])
      <4>1. {[disk[n] EXCEPT !.audio = a] : a \in {c}} = {[disk[n] EXCEPT !.audio = c]}
        OBVIOUS
      <4>2. req[w].pc = "link" /\ req[w] \in Launched
        BY <2>7, RaceParts DEF Race!Link, Race!At, PCs
      <4>3. Race!AfterPowerLoss(w) = {c}
        BY <3>1, <4>2 DEF Race!AfterPowerLoss, Race!Data, Launched
      <4> QED
        BY <1>3, <2>7, <3>1, <4>1, <4>3
           DEF Race!Link, Race!Put, Race!Name, Race!File, Race!Data
    <3> QED
      BY <2>4, <2>7, <3>1, <3>2, WholeKept, RacePut
  <2>8. CASE Race!Cleanup(w)
    <3>1. PICK n \in RaceNames : n = req[w].name
      BY <2>4, <2>8
    <3>2. PICK f \in Race!Unlinked(w) : \E g \in Race!SideDropped(w, f) :
            /\ disk' = [disk EXCEPT ![n] = g]
            /\ \/ survive' = [survive EXCEPT ![n] = @ \cup {f, g}]
               \/ survive' = [m \in RaceNames |-> IF m = n THEN {f, g} ELSE {disk[m]}]
      <4>1. PICK f \in Race!Unlinked(w) : \E g \in Race!SideDropped(w, f) :
              /\ disk' = [disk EXCEPT ![Race!Name(w)] = g]
              /\ \/ survive' = [survive EXCEPT ![Race!Name(w)] = @ \cup {f, g}]
                 \/ /\ f # Race!File(w)
                    /\ survive' = [m \in RaceNames |-> IF m = Race!Name(w) THEN {f, g} ELSE {disk[m]}]
        BY <2>8 DEF Race!Cleanup
      <4>2. Race!Name(w) = n
        BY <3>1 DEF Race!Name
      <4> QED
        BY ZenonT(40), <4>1, <4>2
    <3>3. PICK g \in Race!SideDropped(w, f) :
            /\ disk' = [disk EXCEPT ![n] = g]
            /\ \/ survive' = [survive EXCEPT ![n] = @ \cup {f, g}]
               \/ survive' = [m \in RaceNames |-> IF m = n THEN {f, g} ELSE {disk[m]}]
      BY <3>2
    <3>4. f \in Whole
      <4>1. disk[n] \in Whole /\ [disk[n] EXCEPT !.audio = None] \in Whole
        BY <2>4, <2>8, <3>1, WholeKept
      <4>2. Race!File(w) = disk[n]
        BY <3>1 DEF Race!File, Race!Name
      <4> QED
        BY <3>2, <4>1, <4>2 DEF Race!Unlinked
    <3>5. g \in Whole
      BY <3>4, WholeKept DEF Race!SideDropped
    <3> QED
      BY <3>3, <3>4, <3>5 DEF RaceInv, RaceFiles
  <2> QED
    BY <2>1, <2>2, <2>3, <2>5, <2>6, <2>7, <2>8
<1> QED
  BY <1>2, <1>3

LEMMA RaceFaults ==
  ASSUME RaceInv, Race!HaveStep \/ Race!Kill \/ Race!PowerLoss \/ UNCHANGED vars
                  \/ \E n \in RaceNames : Race!Decay(n) \/ Race!TakeAway(n)
  PROVE  RaceInv'
<1>1. CASE Race!HaveStep \/ UNCHANGED vars
  BY <1>1 DEF Race!HaveStep, Race!Have, Race!storeVars, vars, RaceInv
<1>2. CASE Race!Kill
  BY <1>2 DEF Race!Kill, Race!Restarted, Race!storeVars, RaceInv, Race!Idle, Idle
<1>3. CASE Race!PowerLoss
  <2>1. req' \in [Workers -> {Idle} \cup Launched]
    BY <1>3 DEF Race!PowerLoss, Race!Restarted, Race!Idle, Idle
  <2>2. CASE \E left \in [RaceNames -> UNION {survive[n] : n \in RaceNames}] :
               /\ \A n \in RaceNames : left[n] \in survive[n]
               /\ disk' = left
               /\ survive' = [n \in RaceNames |-> {left[n]}]
    <3>1. PICK left \in [RaceNames -> UNION {survive[n] : n \in RaceNames}] :
               /\ \A n \in RaceNames : left[n] \in survive[n]
               /\ disk' = left
               /\ survive' = [n \in RaceNames |-> {left[n]}]
      BY <2>2
    <3>2. \A n \in RaceNames : left[n] \in Whole
      BY <3>1 DEF RaceInv
    <3> QED
      BY <2>1, <3>1, <3>2 DEF RaceInv
  <2>3. CASE disk' = [n \in RaceNames |-> NoFiles] /\ survive' = [n \in RaceNames |-> {NoFiles}]
    <3>1. NoFiles \in Whole
      BY ConstantsAssumption DEF NoFiles, Whole, Files, Audio
    <3> QED
      BY <2>1, <2>3, <3>1 DEF RaceInv
  <2> QED
    BY <1>3, <2>2, <2>3 DEF Race!PowerLoss, Race!NoFiles, NoFiles
<1>4. ASSUME NEW n \in RaceNames, Race!Decay(n) \/ Race!TakeAway(n)
      PROVE  RaceInv'
  <2>1. PICK a \in {Rot, None} : Race!DamageTo(n, a)
    BY <1>4 DEF Race!Decay, Race!TakeAway
  <2>2. disk[n] \in Whole /\ \A f \in survive[n] : f \in Whole
    BY DEF RaceInv
  <2>3. [disk[n] EXCEPT !.audio = a] \in Whole
    BY <2>2, WholeKept
  <2>4. {IF f.audio = disk[n].audio THEN [f EXCEPT !.audio = a] ELSE f : f \in survive[n]} \in SUBSET Whole
    <3>1. \A f \in survive[n] : [f EXCEPT !.audio = a] \in Whole
      BY <2>2, WholeKept
    <3> QED
      BY <2>2, <3>1
  <2>5. \A r \in Launched : [r EXCEPT !.sound = FALSE] \in Launched
    BY DEF Launched, Race!Requests
  <2>6. req' \in [Workers -> {Idle} \cup Launched]
    BY <2>1, <2>5 DEF Race!DamageTo, RaceInv, Race!Idle, Idle
  <2> QED
    BY <2>1, <2>3, <2>4, <2>6 DEF Race!DamageTo, RaceInv
<1> QED
  BY <1>1, <1>2, <1>3, <1>4

\* How a step of a writer may change the audio under n.
LEMMA RaceTouches ==
  ASSUME RaceInv, NEW w \in Workers, RaceStep(w), NEW n \in RaceNames,
         disk[n].audio # None, disk'[n].audio # disk[n].audio
  PROVE  /\ disk'[n].audio = None
         /\ \/ disk[n].audio \in disk'[n].aside
            \/ Race!At(w, "cleanup") /\ req[w].name = n /\ req[w].linked
<1>1. disk \in [RaceNames -> Whole] /\ \A f \in Whole : f \in Files
  BY DEF RaceInv, Whole
<1>2. disk' # disk
  OBVIOUS
<1>3. \/ Race!HeldSide(w) \/ Race!Quarantine(w) \/ Race!RemoveStale(w) \/ Race!WriteSide(w)
      \/ Race!Link(w) \/ Race!WriteProof(w) \/ Race!Cleanup(w)
  <2>1. ~UNCHANGED Race!storeVars /\ ~Race!Fail(w)
    BY <1>2 DEF Race!storeVars, Race!Fail
  <2>2. (\E m \in RaceNames, c \in Contents, b \in BOOLEAN : Race!Start(w, m, c, b))
          => UNCHANGED Race!storeVars
    BY DEF Race!Start
  <2>3. Race!BodyRejected(w) \/ Race!Lock(w) \/ Race!FloorRejected(w) \/ Race!Floor(w)
        \/ Race!Abandon(w) \/ Race!LookHeld(w) \/ Race!LookOther(w) \/ Race!LookNone(w)
          => UNCHANGED Race!storeVars
    BY DEF Race!BodyRejected, Race!Lock, Race!FloorRejected, Race!Floor, Race!Abandon,
       Race!LookHeld, Race!LookOther, Race!LookNone
  <2>4. Race!LookFails(w) \/ Race!WriteTemp(w) \/ Race!LinkLost(w) \/ Race!ReadBack(w)
        \/ Race!CleanupFails(w)
          => (UNCHANGED Race!storeVars) \/ Race!Fail(w)
    BY DEF Race!LookFails, Race!WriteTemp, Race!LinkLost, Race!ReadBack, Race!CleanupFails
  <2>5. ~(Race!MakeDay(w) \/ Race!SyncParent(w) \/ Race!SyncAside(w) \/ Race!SyncLink(w)
          \/ Race!SyncProof(w) \/ Race!PersistChain(w))
    BY <1>2, <2>1 DEF Race!MakeDay, Race!SyncParent, Race!SyncAside, Race!SyncLink, Race!SyncProof,
       Race!PersistChain, Race!PersistEffect
  <2> QED
    BY <2>1, <2>2, <2>3, <2>4, <2>5 DEF RaceStep
<1>4. PICK m \in RaceNames : m = req[w].name
  <2>1. \E pc \in PCs : Race!At(w, pc)
    BY <1>3 DEF Race!HeldSide, Race!Quarantine, Race!RemoveStale, Race!WriteSide, Race!Link,
       Race!WriteProof, Race!Cleanup, PCs
  <2> QED
    BY <2>1, RaceParts
<1>5. disk[m] \in Files
  BY <1>1
<1>6. CASE Race!HeldSide(w) \/ Race!RemoveStale(w) \/ Race!WriteSide(w) \/ Race!WriteProof(w)
  <2>1. \E c : disk' = [disk EXCEPT ![m] = [disk[m] EXCEPT !.side = c]]
             \/ disk' = [disk EXCEPT ![m] = [disk[m] EXCEPT !.proof = c]]
    BY <1>2, <1>4, <1>6 DEF Race!HeldSide, Race!RemoveStale, Race!WriteSide, Race!WriteProof, Race!Name,
       Race!File, Race!Data, Race!storeVars, Race!Put, Race!Fail
  <2> QED
    BY <1>1, <1>5, <2>1 DEF Files
<1>7. CASE Race!Quarantine(w)
  <2>1. disk' = [disk EXCEPT ![m] = [disk[m] EXCEPT !.audio = None, !.aside = @ \cup {disk[m].audio}]]
    BY <1>2, <1>4, <1>7 DEF Race!Quarantine, Race!Name, Race!File, Race!storeVars, Race!Put, Race!Fail
  <2> QED
    BY <1>1, <1>5, <2>1 DEF Files
<1>8. CASE Race!Link(w)
  <2>1. disk[m].audio = None /\ \E f : disk' = [disk EXCEPT ![m] = f]
    BY <1>2, <1>4, <1>8 DEF Race!Link, Race!Name, Race!File, Race!storeVars, Race!Fail
  <2> QED
    BY <1>1, <2>1
<1>9. CASE Race!Cleanup(w)
  <2>1. PICK f \in Race!Unlinked(w) : \E g \in Race!SideDropped(w, f) : disk' = [disk EXCEPT ![m] = g]
    BY <1>4, <1>9 DEF Race!Cleanup, Race!Name
  <2>2. PICK g \in Race!SideDropped(w, f) : disk' = [disk EXCEPT ![m] = g]
    BY <2>1
  <2>3. f = disk[m] \/ (req[w].linked /\ f = [disk[m] EXCEPT !.audio = None])
    BY <1>4, <2>1 DEF Race!Unlinked, Race!File, Race!Name
  <2>4. g.audio = f.audio
    BY <1>5, <2>2, <2>3 DEF Race!SideDropped, Files
  <2>5. n = m /\ disk'[n] = g
    BY <1>1, <2>2
  <2> QED
    BY <1>4, <1>5, <1>9, <2>3, <2>4, <2>5 DEF Race!Cleanup, Files
<1> QED
  BY <1>3, <1>6, <1>7, <1>8, <1>9

\* The invariant of either side.
Counted == crashes \in Nat /\ damages \in Nat
Side == IF locked THEN TypeOK /\ Inductive /\ AudioInv ELSE RaceInv /\ Counted

LEMMA RaceStays ==
  ASSUME RaceInv, Counted, Race!Next \/ UNCHANGED vars
  PROVE  RaceInv' /\ Counted'
<1>1. ASSUME NEW w \in Workers, RaceStep(w) PROVE RaceInv'
  BY <1>1, RaceReqs, RaceDisk DEF RaceInv, RaceFiles
<1>2. Race!RequestStep => \E w \in Workers : RaceStep(w)
  BY DEF Race!RequestStep, RaceStep
<1>3. RaceInv'
  BY <1>1, <1>2, RaceFaults DEF Race!Next
<1>4. Counted'
  <2>1. crashes' \in {crashes, crashes + 1} /\ damages' \in {damages, damages + 1}
    BY DEF Race!Next, Race!RequestStep, Race!HaveStep, Race!faults, Race!Kill, Race!PowerLoss, Race!Restarted,
       Race!Decay, Race!TakeAway, Race!DamageTo, vars, faults
  <2> QED
    BY <2>1 DEF Counted
<1> QED
  BY <1>3, <1>4

LEMMA SideStays ==
  ASSUME Exclusive, Side, [MCNext]_<<locked, vars>>
  PROVE  Side'
<1>1. locked' = locked
  BY DEF MCNext
<1>2. CASE locked
  <2>1. TypeOK /\ Inductive /\ AudioInv /\ [Next]_vars
    BY <1>2 DEF MCNext, Side
  <2> QED
    BY <1>1, <1>2, <2>1, TypeStays, InductiveStays, AudioStays DEF Side
<1>3. CASE ~locked
  <2>1. RaceInv /\ Counted /\ (Race!Next \/ UNCHANGED vars)
    BY <1>3 DEF MCNext, Side
  <2> QED
    BY <1>1, <1>3, <2>1, RaceStays DEF Side
<1> QED
  BY <1>2, <1>3

LEMMA SideHolds ==
  ASSUME Exclusive
  PROVE  MCSpec => []Side
<1>1. MCInit => Side
  <2>1. Init => TypeOK /\ Inductive /\ AudioInv
    BY InitTypes, InitInductive, InitAudio
  <2>2. Race!Init => RaceInv
    <3>1. NoFiles \in Whole
      BY ConstantsAssumption DEF NoFiles, Whole, Files, Audio
    <3> QED
      BY <3>1 DEF Race!Init, RaceInv, Race!NoFiles, NoFiles, Race!Idle, Idle
  <2>3. Race!Init => Counted
    BY DEF Race!Init, Counted
  <2> QED
    BY <2>1, <2>2, <2>3 DEF MCInit, Side
<1>2. Side /\ [MCNext]_<<locked, vars>> => Side'
  BY SideStays
<1> QED
  BY <1>1, <1>2, PTL DEF MCSpec

(***************************************************************************)
(* Side by side: under the lock "stored" is kept and leftovers match, and  *)
(* two processes that write one name without a common lock still never     *)
(* leave a torn final file (upload_store.py:1-16, 297-300).                *)
(***************************************************************************)
THEOREM DiskHoldsWithOrWithoutLock ==
  ASSUME Exclusive
  PROVE  MCSpec => []DiskHolds
<1>1. Side => DiskHolds
  <2>1. Inductive => PromiseKept /\ CleanDisk
    <3>1. Inductive => ReceiptSurvives /\ TimingSurvives /\ RepairPossible
      BY DEF Inductive, DiskInv, NameInv, Keeps, Promised, ReceiptSurvives, TimingSurvives, RepairPossible
    <3>2. Inductive => LeftoversMatch /\ NothingTorn
      BY DEF Inductive, DiskInv, NameInv, Matches, LeftoversMatch, NothingTorn
    <3> QED
      BY <3>1, <3>2 DEF PromiseKept, CleanDisk
  <2>2. RaceInv => Race!NothingTorn
    BY DEF RaceInv, Race!NothingTorn, Whole
  <2> QED
    BY <2>1, <2>2 DEF DiskHolds, Side
<1> QED
  BY <1>1, SideHolds, PTL

(***************************************************************************)
(* Side by side, for writers that all send the same bytes: under the lock  *)
(* a check vouches for nothing that is taken back, and with or without it  *)
(* held audio goes only into damaged/ or when a writer takes back what it  *)
(* linked itself (upload_store.py:12, 301-305).                            *)
(***************************************************************************)
THEOREM FilesStayOfSameBytes ==
  ASSUME Exclusive, NEW c, Contents = {c}
  PROVE  MCSpec => FilesStay
<1>1. ASSUME Side, [MCNext]_<<locked, vars>>
      PROVE  [IF locked THEN VouchStep /\ RemovalStep ELSE Race!RemovalStep]_<<locked, vars>>
  <2>1. CASE locked
    <3>1. TypeOK /\ Inductive /\ AudioInv /\ [Next]_vars
      BY <1>1, <2>1 DEF MCNext, Side
    <3> QED
      BY <2>1, <3>1, RemovalIsOwn, VouchIsKept
  <2>2. CASE ~locked
    <3>1. RaceInv /\ Counted /\ (Race!Next \/ UNCHANGED vars)
      BY <1>1, <2>2 DEF MCNext, Side
    <3>2. SUFFICES ASSUME Race!NoFault, NEW n \in RaceNames,
                          disk[n].audio # None, disk'[n].audio # disk[n].audio
                   PROVE  /\ disk'[n].audio = None
                          /\ \/ disk[n].audio \in disk'[n].aside
                             \/ \E w \in Workers : /\ Race!At(w, "cleanup") /\ Race!Name(w) = n
                                                   /\ req[w].linked
                                                   /\ disk[n].audio \in {Race!Data(w), Rot}
      BY <2>2 DEF Race!RemovalStep
    <3>3. ~(Race!Kill \/ Race!PowerLoss \/ Race!HaveStep \/ UNCHANGED vars)
      BY <3>1, <3>2 DEF Race!Kill, Race!PowerLoss, Race!Restarted, Race!HaveStep, Race!Have, Race!NoFault,
         Counted, Race!storeVars, vars
    <3>4. ~\E m \in RaceNames : Race!Decay(m) \/ Race!TakeAway(m)
      BY <3>1, <3>2 DEF Race!Decay, Race!TakeAway, Race!DamageTo, Race!NoFault, Counted
    <3>5. PICK w \in Workers : RaceStep(w)
      BY <3>1, <3>3, <3>4 DEF Race!Next, Race!RequestStep, RaceStep
    <3>6. /\ disk'[n].audio = None
          /\ \/ disk[n].audio \in disk'[n].aside
             \/ Race!At(w, "cleanup") /\ req[w].name = n /\ req[w].linked
      BY <3>1, <3>2, <3>5, RaceTouches
    <3>7. ASSUME Race!At(w, "cleanup")
          PROVE  disk[n].audio \in {Race!Data(w), Rot}
      <4>1. req[w].data = c
        <5>1. "cleanup" \in PCs
          BY DEF PCs
        <5> QED
          BY <3>1, <3>7, <5>1, RaceParts
      <4>2. disk[n] \in Files /\ disk[n].audio # Torn
        BY <3>1 DEF RaceInv, Whole
      <4> QED
        BY <3>2, <4>1, <4>2 DEF Files, Audio, Race!Data
    <3> QED
      BY <3>6, <3>7 DEF Race!Name
  <2> QED
    BY <2>1, <2>2
<1> QED
  BY <1>1, SideHolds, PTL DEF MCSpec, FilesStay
=============================================================================
