---------------------------- MODULE NameLock_proofs ----------------------------
(***************************************************************************)
(* Proof that the table of upload locks is a mutex for each segment name   *)
(* and holds exactly the names in use, for any number of names, handlers   *)
(* and lock objects (bridges/meeting_bridge/server.py, _name_lock).        *)
(***************************************************************************)
EXTENDS NameLock, FiniteSetTheorems, TLAPS

\* The counter of an entry says how many handlers refer to its lock.
UsersExact == \A l \in Locks : users[l] = Cardinality(Using(l))

\* Whoever waits or holds does so on the lock the table has for its name.
Linked == \A h \in Handlers : at[h] # Idle => table[at[h].name] = at[h].lock

\* No lock serves two names.
OwnLock == \A m, n \in Names : (table[m] # None /\ table[m] = table[n]) => m = n

HolderOwns == \A h \in Handlers : at[h].pc = "holding" => owner[at[h].lock] = h

NamesInUse == \A n \in Names : table[n] # None => \E h \in Handlers : at[h].name = n

LockTableInv == TypeOK /\ UsersExact /\ Linked /\ OwnLock /\ HolderOwns /\ NamesInUse

(***************************************************************************)
(* What the invariant is for: it gives the two properties of the block.    *)
(***************************************************************************)
LEMMA InvariantSuffices == LockTableInv => OneHolderPerName /\ EntryIffUsed
BY NoneAssumption
   DEF LockTableInv, TypeOK, Linked, HolderOwns, NamesInUse, OneHolderPerName, EntryIffUsed, Idle

\* A handler that is not idle has a name and a lock of its own.
LEMMA Busy ==
  ASSUME TypeOK, NEW h \in Handlers, at[h] # Idle
  PROVE  /\ at[h].name \in Names /\ at[h].lock \in Locks
         /\ at[h].pc \in {"waiting", "holding"}
BY DEF TypeOK

LEMMA UsingFinite ==
  ASSUME NEW l
  PROVE  IsFiniteSet(Using(l)) /\ Cardinality(Using(l)) \in Nat
BY LocksAssumption, FS_Subset, FS_CardinalityType DEF Using

LEMMA WithoutAtIsSeq ==
  ASSUME NEW S, NEW q \in Seq(S), NEW i \in 1 .. Len(q)
  PROVE  WithoutAt(q, i) \in Seq(S)
<1>1. Len(q) - 1 \in Nat
  OBVIOUS
<1>2. \A j \in 1 .. Len(q) - 1 : (IF j < i THEN q[j] ELSE q[j + 1]) \in S
  OBVIOUS
<1> QED
  BY <1>1, <1>2 DEF WithoutAt

LEMMA InvariantInit == Init => LockTableInv
<1> SUFFICES ASSUME Init PROVE LockTableInv
  OBVIOUS
<1>1. \A l \in Locks : Using(l) = {}
  BY NoneAssumption DEF Init, Using, Idle
<1>2. UsersExact
  BY <1>1, FS_EmptySet DEF Init, UsersExact
<1>3. TypeOK
  BY DEF Init, TypeOK
<1> QED
  BY <1>2, <1>3 DEF Init, LockTableInv, Linked, OwnLock, HolderOwns, NamesInUse, Idle

(***************************************************************************)
(* Entering: the lock is the table's, or one that nobody refers to.        *)
(***************************************************************************)
LEMMA EnterKeeps ==
  ASSUME LockTableInv, NEW h \in Handlers, NEW n \in Names, Enter(h, n)
  PROVE  LockTableInv'
<1> USE DEF LockTableInv
<1>1. PICK l \in EntryFor(n) :
        /\ table' = [table EXCEPT ![n] = l]
        /\ users' = [users EXCEPT ![l] = @ + 1]
        /\ \/ /\ owner[l] = None
              /\ owner' = [owner EXCEPT ![l] = h]
              /\ at' = [at EXCEPT ![h] = [pc |-> "holding", name |-> n, lock |-> l]]
              /\ queue' = queue
           \/ /\ queue' = [queue EXCEPT ![l] = Append(@, h)]
              /\ at' = [at EXCEPT ![h] = [pc |-> "waiting", name |-> n, lock |-> l]]
              /\ owner' = owner
  BY DEF Enter
<1>2. l \in Locks /\ at[h] = Idle
  BY <1>1 DEF Enter, EntryFor, TypeOK
<1>3. /\ at'[h].lock = l /\ at'[h].name = n /\ at'[h] # Idle
      /\ \A g \in Handlers \ {h} : at'[g] = at[g]
  BY <1>1, <1>2, NoneAssumption DEF TypeOK, Idle
<1>4. TypeOK'
  <2>1. table' \in [Names -> Locks \cup {None}] /\ users' \in [Locks -> Nat]
    BY <1>1, <1>2 DEF TypeOK
  <2>2. owner' \in [Locks -> Handlers \cup {None}]
    BY <1>1, <1>2 DEF TypeOK
  <2>3. queue' \in [Locks -> Seq(Handlers)]
    <3>1. Append(queue[l], h) \in Seq(Handlers)
      BY <1>2 DEF TypeOK
    <3> QED
      BY <1>1, <1>2, <3>1 DEF TypeOK
  <2>4. at' \in [Handlers ->
                   {Idle} \cup [pc : {"waiting", "holding"}, name : Names, lock : Locks]]
    <3>1. PICK x \in [pc : {"waiting", "holding"}, name : Names, lock : Locks] :
            at' = [at EXCEPT ![h] = x]
      BY <1>1, <1>2
    <3> QED
      BY <3>1 DEF TypeOK
  <2> QED
    BY <2>1, <2>2, <2>3, <2>4 DEF TypeOK
<1>5. UsersExact'
  <2>1. \A k \in Locks : Using(k)' = IF k = l THEN Using(k) \cup {h} ELSE Using(k)
    BY <1>2, <1>3, NoneAssumption DEF Using, Idle
  <2>2. h \notin Using(l)
    BY <1>2, NoneAssumption DEF Using, Idle
  <2>3. Cardinality(Using(l) \cup {h}) = Cardinality(Using(l)) + 1
    BY <2>2, UsingFinite, FS_AddElement
  <2> QED
    BY <1>1, <1>2, <2>1, <2>3 DEF UsersExact, TypeOK
<1>6. \A m \in Names \ {n} : table[m] # l
  BY <1>1, <1>2 DEF EntryFor, OwnLock
<1>7. Linked' /\ NamesInUse'
  <2>1. \A g \in Handlers \ {h} : at[g] # Idle => table'[at[g].name] = at[g].lock
    <3> SUFFICES ASSUME NEW g \in Handlers \ {h}, at[g] # Idle
                 PROVE  table'[at[g].name] = at[g].lock
      OBVIOUS
    <3>1. table[at[g].name] = at[g].lock /\ at[g].lock # None /\ at[g].name \in Names
      BY Busy, NoneAssumption DEF Linked
    <3>2. CASE at[g].name = n
      BY <1>1, <3>1, <3>2 DEF EntryFor, TypeOK
    <3>3. CASE at[g].name # n
      BY <1>1, <3>1, <3>3 DEF TypeOK
    <3> QED
      BY <3>2, <3>3
  <2>2. Linked'
    BY <1>1, <1>3, <2>1 DEF Linked, TypeOK, Idle
  <2>3. \A m \in Names : table'[m] # None => \E g \in Handlers : at'[g].name = m
    BY <1>1, <1>2, <1>3, NoneAssumption DEF NamesInUse, TypeOK, Idle
  <2> QED
    BY <2>2, <2>3 DEF NamesInUse
<1>8. OwnLock'
  BY <1>1, <1>2, <1>6 DEF OwnLock, TypeOK
<1>9. HolderOwns'
  <2>1. \A g \in Handlers \ {h} : at[g].pc = "holding" => owner[at[g].lock] = g /\ g # None
                                                        /\ at[g].lock \in Locks
    BY Busy, NoneAssumption DEF HolderOwns, Idle
  <2>2. \A g \in Handlers \ {h} : at[g].pc = "holding" => owner'[at[g].lock] = g
    BY <1>1, <1>2, <2>1 DEF TypeOK
  <2>3. at'[h].pc = "holding" => owner'[l] = h
    BY <1>1, <1>2 DEF TypeOK
  <2> QED
    BY <1>3, <2>2, <2>3 DEF HolderOwns
<1> QED
  BY <1>4, <1>5, <1>7, <1>8, <1>9

LEMMA WakeKeeps ==
  ASSUME LockTableInv, NEW h \in Handlers, Wake(h)
  PROVE  LockTableInv'
<1> USE DEF LockTableInv
<1> DEFINE l == at[h].lock
<1>1. at[h] # Idle /\ l \in Locks /\ at[h].name \in Names
  BY Busy DEF Wake, Idle
<1>2. /\ at'[h] = [pc |-> "holding", name |-> at[h].name, lock |-> l]
      /\ \A g \in Handlers \ {h} : at'[g] = at[g]
  BY <1>1 DEF Wake, TypeOK
<1>3. TypeOK'
  <2>1. Tail(queue[l]) \in Seq(Handlers)
    BY <1>1 DEF Wake, TypeOK
  <2>2. at' \in [Handlers ->
                   {Idle} \cup [pc : {"waiting", "holding"}, name : Names, lock : Locks]]
    BY <1>1, <1>2 DEF Wake, TypeOK
  <2> QED
    BY <1>1, <2>1, <2>2 DEF Wake, TypeOK
<1>4. \A g \in Handlers : at'[g].lock = at[g].lock /\ at'[g].name = at[g].name
  BY <1>2
<1>5. UsersExact'
  <2>1. \A k \in Locks : Using(k)' = Using(k)
    BY <1>4 DEF Using
  <2> QED
    BY <2>1 DEF UsersExact, Wake
<1>6. Linked' /\ OwnLock' /\ NamesInUse'
  BY <1>1, <1>2, <1>4 DEF Linked, OwnLock, NamesInUse, Wake
<1>7. HolderOwns'
  BY <1>1, <1>2, NoneAssumption DEF HolderOwns, Wake, TypeOK
<1> QED
  BY <1>3, <1>5, <1>6, <1>7

(***************************************************************************)
(* Leaving, after the block or as a waiter that was cancelled: the entry   *)
(* goes only with its last user, so none of the others loses its lock.     *)
(***************************************************************************)
LEMMA GoingKeeps ==
  ASSUME LockTableInv, NEW h \in Handlers, at[h] # Idle,
         DropEntry(at[h].name, at[h].lock), at' = [at EXCEPT ![h] = Idle]
  PROVE  UsersExact' /\ Linked' /\ OwnLock' /\ NamesInUse'
         /\ table' \in [Names -> Locks \cup {None}] /\ users' \in [Locks -> Nat]
<1> USE DEF LockTableInv
<1> DEFINE l == at[h].lock
           n == at[h].name
<1>1. l \in Locks /\ n \in Names /\ table[n] = l /\ l # None
  BY Busy, NoneAssumption DEF Linked
<1>2. at'[h] = Idle /\ \A g \in Handlers \ {h} : at'[g] = at[g]
  BY DEF TypeOK
<1>3. h \in Using(l) /\ users[l] = Cardinality(Using(l)) /\ users[l] \in Nat /\ users[l] # 0
  <2>1. IsFiniteSet(Using(l)) /\ h \in Using(l)
    BY UsingFinite DEF Using
  <2>2. Cardinality(Using(l)) # 0
    BY <2>1, FS_EmptySet
  <2> QED
    BY <1>1, <2>1, <2>2 DEF UsersExact, TypeOK
<1>4. \A k \in Locks : Using(k)' = IF k = l THEN Using(k) \ {h} ELSE Using(k)
  BY <1>1, <1>2, NoneAssumption DEF Using, Idle
<1>5. UsersExact'
  <2>1. Cardinality(Using(l) \ {h}) = Cardinality(Using(l)) - 1
    BY <1>3, UsingFinite, FS_RemoveElement
  <2> QED
    BY <1>1, <1>3, <1>4, <2>1 DEF UsersExact, DropEntry, TypeOK
<1>6. /\ table' \in [Names -> Locks \cup {None}] /\ users' \in [Locks -> Nat]
      /\ \A m \in Names \ {n} : table'[m] = table[m]
      /\ table'[n] \in {l, None}
      /\ table'[n] = None <=> users[l] = 1
  BY <1>1, <1>3 DEF DropEntry, TypeOK
<1>7. OwnLock'
  BY <1>1, <1>6 DEF OwnLock
<1>8. ASSUME NEW g \in Handlers \ {h}, at[g] # Idle
      PROVE  table'[at[g].name] = at[g].lock
  <2>1. table[at[g].name] = at[g].lock /\ at[g].name \in Names /\ at[g].lock \in Locks
    BY <1>8, Busy DEF Linked
  <2>2. CASE at[g].name # n
    BY <1>6, <2>1, <2>2
  <2>3. CASE at[g].name = n
    <3>1. g \in Using(l) /\ g # h
      BY <1>1, <2>1, <2>3 DEF Using
    <3>2. users[l] # 1
      BY <1>3, <3>1, UsingFinite, FS_Singleton
    <3> QED
      BY <1>1, <1>6, <2>3, <2>1, <3>2
  <2> QED
    BY <2>2, <2>3
<1>9. Linked'
  BY <1>2, <1>8 DEF Linked
<1>10. NamesInUse'
  <2> SUFFICES ASSUME NEW m \in Names, table'[m] # None
               PROVE  \E g \in Handlers : at'[g].name = m
    BY DEF NamesInUse
  <2>1. CASE m # n
    <3>1. PICK g \in Handlers : at[g].name = m
      BY <1>6, <2>1 DEF NamesInUse
    <3> QED
      BY <1>2, <2>1, <3>1
  <2>2. CASE m = n
    <3>1. users[l] # 1
      BY <1>6, <2>2
    <3>2. PICK g \in Using(l) : g # h
      BY <1>3, <3>1, FS_Singleton, UsingFinite
    <3>3. at[g] # Idle /\ at[g].lock = l /\ g \in Handlers
      BY <1>1, <3>2, NoneAssumption DEF Using, Idle
    <3>4. at[g].name = n
      BY <1>1, <3>3, Busy DEF Linked, OwnLock
    <3> QED
      BY <1>2, <2>2, <3>2, <3>3, <3>4
  <2> QED
    BY <2>1, <2>2
<1> QED
  BY <1>5, <1>6, <1>7, <1>9, <1>10

LEMMA LeaveKeeps ==
  ASSUME LockTableInv, NEW h \in Handlers, Leave(h)
  PROVE  LockTableInv'
<1> USE DEF LockTableInv
<1>1. at[h] # Idle /\ at[h].lock \in Locks /\ at' = [at EXCEPT ![h] = Idle]
  BY Busy DEF Leave, Idle
<1>2. /\ UsersExact' /\ Linked' /\ OwnLock' /\ NamesInUse'
      /\ table' \in [Names -> Locks \cup {None}] /\ users' \in [Locks -> Nat]
  BY <1>1, GoingKeeps DEF Leave
<1>3. TypeOK'
  BY <1>1, <1>2 DEF Leave, TypeOK
<1>4. HolderOwns'
  BY <1>1 DEF Leave, HolderOwns, TypeOK, Idle
<1> QED
  BY <1>2, <1>3, <1>4

LEMMA CancelKeeps ==
  ASSUME LockTableInv, NEW h \in Handlers, Cancel(h)
  PROVE  LockTableInv'
<1> USE DEF LockTableInv
<1>1. at[h] # Idle /\ at[h].lock \in Locks /\ at' = [at EXCEPT ![h] = Idle]
  BY Busy DEF Cancel, Idle
<1>2. /\ UsersExact' /\ Linked' /\ OwnLock' /\ NamesInUse'
      /\ table' \in [Names -> Locks \cup {None}] /\ users' \in [Locks -> Nat]
  BY <1>1, GoingKeeps DEF Cancel
<1>3. queue' \in [Locks -> Seq(Handlers)]
  BY <1>1, WithoutAtIsSeq DEF Cancel, TypeOK
<1>4. TypeOK'
  BY <1>1, <1>2, <1>3 DEF Cancel, TypeOK
<1>5. HolderOwns'
  BY <1>1 DEF Cancel, HolderOwns, TypeOK, Idle
<1> QED
  BY <1>2, <1>4, <1>5

LEMMA InvariantStep == LockTableInv /\ [Next]_vars => LockTableInv'
<1> SUFFICES ASSUME LockTableInv, [Next]_vars PROVE LockTableInv'
  OBVIOUS
<1>1. CASE UNCHANGED vars
  BY <1>1 DEF vars, LockTableInv, TypeOK, UsersExact, Linked, OwnLock, HolderOwns, NamesInUse, Using
<1>2. ASSUME NEW h \in Handlers, NEW n \in Names, Enter(h, n) PROVE LockTableInv'
  BY <1>2, EnterKeeps
<1>3. ASSUME NEW h \in Handlers, Wake(h) PROVE LockTableInv'
  BY <1>3, WakeKeeps
<1>4. ASSUME NEW h \in Handlers, Leave(h) PROVE LockTableInv'
  BY <1>4, LeaveKeeps
<1>5. ASSUME NEW h \in Handlers, Cancel(h) PROVE LockTableInv'
  BY <1>5, CancelKeeps
<1> QED
  BY <1>1, <1>2, <1>3, <1>4, <1>5 DEF Next

(***************************************************************************)
(* The invariant of the lock table holds in every reachable state.         *)
(***************************************************************************)
THEOREM LockTableHolds == Spec => []LockTableInv
BY InvariantInit, InvariantStep, PTL DEF Spec

(***************************************************************************)
(* Never two handlers inside the block for one name.                       *)
(***************************************************************************)
THEOREM MutualExclusion == Spec => []OneHolderPerName
BY LockTableHolds, InvariantSuffices, PTL

(***************************************************************************)
(* The table holds exactly the names in use.                               *)
(***************************************************************************)
THEOREM EntriesExact == Spec => []EntryIffUsed
BY LockTableHolds, InvariantSuffices, PTL

(***************************************************************************)
(* Both at once: the lock table keeps one holder and no idle entry per     *)
(* name.                                                                   *)
(***************************************************************************)
THEOREM TableHolds == Spec => []TableExact
<1>1. OneHolderPerName /\ EntryIffUsed => TableExact
  BY DEF TableExact
<1> QED
  BY <1>1, MutualExclusion, EntriesExact, PTL
-----------------------------------------------------------------------------
(* The table implements the mutex that the store relies on. *)

\* Where a handler stands before or after a step, as a predicate of that state alone.
Exclusion(a) == \A g, h \in Handlers :
  (a[g].pc = "holding" /\ a[h].pc = "holding" /\ a[g].name = a[h].name) => g = h

LEMMA HolderIs ==
  ASSUME NEW a, Exclusion(a), NEW n, NEW h \in Handlers
  PROVE  HolderIn(a, n) = h <=> (a[h].pc = "holding" /\ a[h].name = n)
BY NoneAssumption DEF HolderIn, HoldersIn, Exclusion

LEMMA HolderNone ==
  ASSUME NEW a, NEW n
  PROVE  HolderIn(a, n) = None <=> ~ \E h \in Handlers : a[h].pc = "holding" /\ a[h].name = n
BY NoneAssumption DEF HolderIn, HoldersIn

LEMMA HolderSame ==
  ASSUME NEW a, NEW b, NEW n,
         \A h \in Handlers : (a[h].pc = "holding" /\ a[h].name = n)
                            <=> (b[h].pc = "holding" /\ b[h].name = n)
  PROVE  HolderIn(a, n) = HolderIn(b, n)
<1>1. HoldersIn(a, n) = HoldersIn(b, n)
  BY DEF HoldersIn
<1> QED
  BY <1>1 DEF HolderIn

\* Handler h goes into the block for n, or comes out of it; the others stay where they are.
LEMMA GoesIn ==
  ASSUME TypeOK, Exclusion(at), Exclusion(at'), NEW h \in Handlers, NEW n \in Names,
         at[h].pc # "holding", at'[h].pc = "holding", at'[h].name = n,
         \A g \in Handlers \ {h} : at'[g] = at[g]
  PROVE  Mutex!Take(h, n)
<1>1. HolderIn(at, n) = None
  BY HolderNone DEF Exclusion
<1>2. \A m \in Names : HolderIn(at, m) # h
  BY HolderIs
<1>3. HolderIn(at', n) = h
  BY HolderIs
<1>4. \A m \in Names \ {n} : HolderIn(at', m) = HolderIn(at, m)
  BY HolderSame
<1> QED
  BY <1>1, <1>2, <1>3, <1>4 DEF Mutex!Take

LEMMA GoesOut ==
  ASSUME TypeOK, Exclusion(at), NEW h \in Handlers, at[h].pc = "holding",
         at[h].name \in Names, at'[h].pc # "holding", \A g \in Handlers \ {h} : at'[g] = at[g]
  PROVE  Mutex!Release(h, at[h].name)
<1> DEFINE n == at[h].name
<1>1. HolderIn(at, n) = h
  BY HolderIs
<1>2. HolderIn(at', n) = None
  BY HolderNone DEF Exclusion
<1>3. \A m \in Names \ {n} : HolderIn(at', m) = HolderIn(at, m)
  BY HolderSame
<1> QED
  BY <1>1, <1>2, <1>3 DEF Mutex!Release

LEMMA MutexStep ==
  ASSUME LockTableInv, LockTableInv', [Next]_vars
  PROVE  Mutex!Next \/ UNCHANGED [n \in Names |-> HolderIn(at, n)]
<1>1. Exclusion(at) /\ Exclusion(at')
  <2>1. LockTableInv => Exclusion(at)
    BY InvariantSuffices DEF OneHolderPerName, Exclusion
  <2>2. TypeOK' /\ Linked' /\ HolderOwns'
    BY DEF LockTableInv
  <2>3. Exclusion(at')
    BY <2>2, NoneAssumption DEF TypeOK, Linked, HolderOwns, Exclusion, Idle
  <2> QED
    BY <2>1, <2>3
<1>2. TypeOK
  BY DEF LockTableInv
\* Nobody goes in or out: the abstract holders stay.
<1>3. ASSUME \A h \in Handlers : \A n \in Names : (at'[h].pc = "holding" /\ at'[h].name = n)
                                             <=> (at[h].pc = "holding" /\ at[h].name = n)
      PROVE  UNCHANGED [n \in Names |-> HolderIn(at, n)]
  <2>1. \A n \in Names : HolderIn(at', n) = HolderIn(at, n)
    BY <1>3, HolderSame
  <2> QED
    BY <2>1
<1>4. CASE UNCHANGED vars
  BY <1>3, <1>4 DEF vars
<1>5. ASSUME NEW h \in Handlers, NEW n \in Names, Enter(h, n)
      PROVE  Mutex!Next \/ UNCHANGED [m \in Names |-> HolderIn(at, m)]
  <2>1. PICK x \in [pc : {"waiting", "holding"}, name : {n}, lock : Locks] :
          at' = [at EXCEPT ![h] = x]
    BY <1>2, <1>5 DEF Enter, EntryFor, TypeOK
  <2>2. at'[h] = x /\ at[h].pc = "idle" /\ \A g \in Handlers \ {h} : at'[g] = at[g]
    BY <1>2, <1>5, <2>1 DEF Enter, TypeOK, Idle
  <2>3. CASE x.pc = "holding"
    BY <1>1, <1>2, <2>2, <2>3, GoesIn DEF Mutex!Next
  <2>4. CASE x.pc = "waiting"
    BY <1>3, <2>2, <2>4
  <2> QED
    BY <2>3, <2>4
<1>6. ASSUME NEW h \in Handlers, Wake(h)
      PROVE  Mutex!Next
  <2>1. at[h].name \in Names /\ at'[h].pc = "holding" /\ at'[h].name = at[h].name
        /\ at[h].pc = "waiting" /\ \A g \in Handlers \ {h} : at'[g] = at[g]
    BY <1>2, <1>6 DEF Wake, TypeOK, Idle
  <2> QED
    BY <1>1, <1>2, <2>1, GoesIn DEF Mutex!Next
<1>7. ASSUME NEW h \in Handlers, Leave(h)
      PROVE  Mutex!Next
  <2>1. at[h].name \in Names /\ at'[h].pc = "idle" /\ at[h].pc = "holding"
        /\ \A g \in Handlers \ {h} : at'[g] = at[g]
    BY <1>2, <1>7 DEF Leave, TypeOK, Idle
  <2> QED
    BY <1>1, <1>2, <2>1, GoesOut DEF Mutex!Next
<1>8. ASSUME NEW h \in Handlers, Cancel(h)
      PROVE  UNCHANGED [n \in Names |-> HolderIn(at, n)]
  <2>1. at'[h].pc = "idle" /\ at[h].pc = "waiting" /\ \A g \in Handlers \ {h} : at'[g] = at[g]
    BY <1>2, <1>8 DEF Cancel, TypeOK, Idle
  <2> QED
    BY <1>3, <2>1
<1> QED
  BY <1>4, <1>5, <1>6, <1>7, <1>8 DEF Next

LEMMA MutexInit == Init => Mutex!Init
BY HolderNone DEF Init, Idle, Mutex!Init

(***************************************************************************)
(* The lock table implements NameMutex, the lock EdgeStore is built on.    *)
(***************************************************************************)
THEOREM ImplementsMutex == Spec => MutexSpec
<1>1. LockTableInv /\ LockTableInv' /\ [Next]_vars => [Mutex!Next]_([n \in Names |-> HolderIn(at, n)])
  BY MutexStep
<1> QED
  BY <1>1, MutexInit, LockTableHolds, PTL DEF Spec, MutexSpec, Mutex!Spec
=============================================================================
