------------------------------ MODULE NameLock ------------------------------
(***************************************************************************)
(* The per-name lock table of the meeting bridge's upload routes           *)
(* (bridges/meeting_bridge/server.py, _name_lock).  Each segment name has  *)
(* at most one asyncio.Lock, created by the first handler that needs it    *)
(* and dropped from the table by the last one that leaves.                 *)
(*                                                                         *)
(* A handler runs on the event loop without interruption between two       *)
(* awaits, so each action below is one such stretch: entering up to the    *)
(* await inside acquire(), the wake-up that follows a release, and leaving *)
(* the "async with" block.                                                 *)
(***************************************************************************)
EXTENDS Naturals, Sequences, FiniteSets

CONSTANTS
  Names,     \* segment names
  Handlers,  \* request handlers (an upload or a possession check each)
  Locks,     \* identities of asyncio.Lock objects
  None       \* no lock, no owner, no name

ASSUME NoneAssumption == None \notin Names \cup Handlers \cup Locks

\* A handler references at most one lock, so a fresh identity is always free.
ASSUME LocksAssumption ==
  /\ IsFiniteSet(Handlers)
  /\ IsFiniteSet(Locks)
  /\ Cardinality(Locks) > Cardinality(Handlers)

VARIABLES
  table,   \* _upload_locks: name -> lock
  users,   \* entry[1]: how many handlers hold the lock or wait for it
  owner,   \* the handler that acquired the lock
  queue,   \* asyncio.Lock waiters, first come first served
  at       \* where each handler is: [pc, name, lock]

vars == <<table, users, owner, queue, at>>

Idle == [pc |-> "idle", name |-> None, lock |-> None]

Using(l) == {h \in Handlers : at[h].lock = l}

TypeOK ==
  /\ table \in [Names -> Locks \cup {None}]
  /\ users \in [Locks -> Nat]
  /\ owner \in [Locks -> Handlers \cup {None}]
  /\ queue \in [Locks -> Seq(Handlers)]
  /\ at \in [Handlers ->
               {Idle} \cup [pc : {"waiting", "holding"}, name : Names, lock : Locks]]

Init ==
  /\ table = [n \in Names |-> None]
  /\ users = [l \in Locks |-> 0]
  /\ owner = [l \in Locks |-> None]
  /\ queue = [l \in Locks |-> <<>>]
  /\ at = [h \in Handlers |-> Idle]

\* The lock a newcomer for name n uses: the one in the table, or a new object.
EntryFor(n) ==
  IF table[n] # None THEN {table[n]}
  ELSE {l \in Locks : Using(l) = {} /\ \A m \in Names : table[m] # l}

\* Mutated form: a newcomer takes a free lock ahead of those who wait.
EnterAhead(h, n) ==
  /\ at[h] = Idle
  /\ \E l \in EntryFor(n) :
       /\ table' = [table EXCEPT ![n] = l]
       /\ users' = [users EXCEPT ![l] = @ + 1]
       /\ IF owner[l] = None
            THEN /\ owner' = [owner EXCEPT ![l] = h]
                 /\ at' = [at EXCEPT ![h] = [pc |-> "holding", name |-> n, lock |-> l]]
                 /\ UNCHANGED queue
            ELSE /\ queue' = [queue EXCEPT ![l] = Append(@, h)]
                 /\ at' = [at EXCEPT ![h] = [pc |-> "waiting", name |-> n, lock |-> l]]
                 /\ UNCHANGED owner

\* asyncio.Lock.acquire takes a free lock at once only when nobody waits for it.
Enter(h, n) ==
  /\ at[h] = Idle
  /\ \E l \in EntryFor(n) :
       /\ table' = [table EXCEPT ![n] = l]
       /\ users' = [users EXCEPT ![l] = @ + 1]
       /\ IF owner[l] = None /\ queue[l] = <<>>
            THEN /\ owner' = [owner EXCEPT ![l] = h]
                 /\ at' = [at EXCEPT ![h] = [pc |-> "holding", name |-> n, lock |-> l]]
                 /\ UNCHANGED queue
            ELSE /\ queue' = [queue EXCEPT ![l] = Append(@, h)]
                 /\ at' = [at EXCEPT ![h] = [pc |-> "waiting", name |-> n, lock |-> l]]
                 /\ UNCHANGED owner

\* The first waiter of a released lock runs and owns it.
Wake(h) ==
  LET l == at[h].lock IN
  /\ at[h].pc = "waiting"
  /\ owner[l] = None
  /\ queue[l] # <<>>
  /\ Head(queue[l]) = h
  /\ queue' = [queue EXCEPT ![l] = Tail(@)]
  /\ owner' = [owner EXCEPT ![l] = h]
  /\ at' = [at EXCEPT ![h].pc = "holding"]
  /\ UNCHANGED <<table, users>>

\* Mutated form: whoever leaves drops the entry.
DropEntryAlways(n, l) ==
  /\ users' = [users EXCEPT ![l] = @ - 1]
  /\ table' = IF table[n] = l THEN [table EXCEPT ![n] = None] ELSE table

\* The "finally" of _name_lock: the last user drops the entry it found.
DropEntry(n, l) ==
  /\ users' = [users EXCEPT ![l] = @ - 1]
  /\ table' = IF users[l] = 1 /\ table[n] = l THEN [table EXCEPT ![n] = None] ELSE table

\* The block ends, normally, by an error or by cancellation: the lock is
\* released and the entry left in the same uninterrupted stretch.
Leave(h) ==
  LET l == at[h].lock IN
  /\ at[h].pc = "holding"
  /\ owner' = [owner EXCEPT ![l] = None]
  /\ DropEntry(at[h].name, l)
  /\ at' = [at EXCEPT ![h] = Idle]
  /\ UNCHANGED queue

\* Every element of q but its i-th, in order.
WithoutAt(q, i) == [j \in 1 .. Len(q) - 1 |-> IF j < i THEN q[j] ELSE q[j + 1]]

\* A waiting request is cancelled: it leaves the waiters without ever owning.
Cancel(h) ==
  LET l == at[h].lock IN
  /\ at[h].pc = "waiting"
  /\ \E i \in 1 .. Len(queue[l]) :
       /\ queue[l][i] = h
       /\ queue' = [queue EXCEPT ![l] = WithoutAt(@, i)]
  /\ DropEntry(at[h].name, l)
  /\ at' = [at EXCEPT ![h] = Idle]
  /\ UNCHANGED owner

Next ==
  \E h \in Handlers :
    \/ \E n \in Names : Enter(h, n)
    \/ Wake(h)
    \/ Leave(h)
    \/ Cancel(h)

Spec == Init /\ [][Next]_vars

\* A released lock wakes its first waiter, and store and verify both return.
Fairness == \A h \in Handlers : WF_vars(Wake(h)) /\ WF_vars(Leave(h))

FairSpec == Spec /\ Fairness
-----------------------------------------------------------------------------
(***************************************************************************)
(* Never two handlers inside the block for one name, however entries are   *)
(* dropped and re-created (server.py:583-585: "a waiter can never be       *)
(* bypassed by a newcomer that would otherwise create a second lock for    *)
(* the same name").                                                        *)
(***************************************************************************)
OneHolderPerName ==
  \A g, h \in Handlers :
    (at[g].pc = "holding" /\ at[h].pc = "holding" /\ at[g].name = at[h].name) => g = h

(***************************************************************************)
(* The table is exact: a name has an entry while a handler holds or waits  *)
(* for it and loses it with the last one, so the table of a server that    *)
(* takes a new name every few minutes never grows.                         *)
(***************************************************************************)
EntryIffUsed ==
  \A n \in Names : (table[n] # None) <=> (\E h \in Handlers : at[h].name = n)

(***************************************************************************)
(* Both: the table never lets two handlers into one name's block, and      *)
(* never keeps a name nobody uses.                                         *)
(***************************************************************************)
TableExact == OneHolderPerName /\ EntryIffUsed

(***************************************************************************)
(* A lock nobody owns and somebody waits for can be taken: no wake-up is   *)
(* lost, and every request that waits gets the lock unless it is cancelled.*)
(***************************************************************************)
WaiterServed == \A h \in Handlers : at[h].pc = "waiting" ~> at[h].pc # "waiting"

(***************************************************************************)
(* What the block promises to the store: a mutex per name.                 *)
(***************************************************************************)
HoldersIn(a, n) == {h \in Handlers : a[h].pc = "holding" /\ a[h].name = n}
HolderIn(a, n) == IF HoldersIn(a, n) = {} THEN None ELSE CHOOSE h \in HoldersIn(a, n) : TRUE

Mutex == INSTANCE NameMutex WITH holder <- [n \in Names |-> HolderIn(at, n)]
MutexSpec == Mutex!Spec
=============================================================================
