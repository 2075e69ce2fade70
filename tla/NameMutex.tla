------------------------------ MODULE NameMutex ------------------------------
(***************************************************************************)
(* What the upload routes rely on: each segment name is worked on by at    *)
(* most one handler, and only its holder gives it back.  NameLock          *)
(* implements it with a table of asyncio locks.                            *)
(***************************************************************************)
CONSTANTS Names, Handlers, None

VARIABLE holder   \* holder[n]: the handler inside the block for n, or None

Init == holder = [n \in Names |-> None]

Take(h, n) ==
  /\ holder[n] = None
  /\ \A m \in Names : holder[m] # h
  /\ holder' = [holder EXCEPT ![n] = h]

Release(h, n) ==
  /\ holder[n] = h
  /\ holder' = [holder EXCEPT ![n] = None]

Next == \E h \in Handlers, n \in Names : Take(h, n) \/ Release(h, n)

Spec == Init /\ [][Next]_holder
=============================================================================
