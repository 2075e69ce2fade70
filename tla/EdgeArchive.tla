----------------------------- MODULE EdgeArchive -----------------------------
(***************************************************************************)
(* What the edge promises the phone, without files, fsyncs and locks: a    *)
(* set of named recordings of which a promised one changes only when the   *)
(* disk is damaged or an operator takes it away.  EdgeStore implements     *)
(* this specification.                                                     *)
(***************************************************************************)
CONSTANTS Names, Contents, None, Rot

VARIABLES
  held,     \* held[n]: the bytes no power loss can take away from n
  promise,  \* promise[n]: the bytes of the last "stored" answer for n
  spoiled   \* spoiled[n]: the copy was damaged after those bytes were hashed

vars == <<held, promise, spoiled>>

Bytes == Contents \cup {None, Rot}

Init ==
  /\ held = [n \in Names |-> None]
  /\ promise = [n \in Names |-> None]
  /\ spoiled = [n \in Names |-> FALSE]

Promised(n) == promise[n] # None /\ ~spoiled[n]

\* Uploads in progress, fsyncs and crashes settle or give up what is not promised.
Unsettled ==
  /\ held' \in [Names -> Bytes]
  /\ \A n \in Names : Promised(n) => held'[n] = held[n]

Settle == Unsettled /\ UNCHANGED <<promise, spoiled>>

\* The answer "stored" for bytes c, hashed on disk and then made durable; s tells
\* whether the disk was damaged in between.
Answer(n, c, s) ==
  /\ Unsettled
  /\ s \/ held'[n] = c
  /\ promise' = [promise EXCEPT ![n] = c]
  /\ spoiled' = [spoiled EXCEPT ![n] = s]

Decay(n) ==
  /\ held' = [held EXCEPT ![n] = IF @ \in Contents THEN Rot ELSE @]
  /\ spoiled' = [spoiled EXCEPT ![n] = TRUE]
  /\ UNCHANGED promise

\* The spoiled copy of n is set aside for a new upload.
Renounce(n) ==
  /\ spoiled[n]
  /\ Unsettled
  /\ promise' = [promise EXCEPT ![n] = None]
  /\ UNCHANGED spoiled

TakeAway(n) ==
  /\ held' = [held EXCEPT ![n] = None]
  /\ promise' = [promise EXCEPT ![n] = None]
  /\ UNCHANGED spoiled

Next ==
  \/ Settle
  \/ \E n \in Names, c \in Contents, s \in BOOLEAN : Answer(n, c, s)
  \/ \E n \in Names : Decay(n) \/ Renounce(n) \/ TakeAway(n)

Spec == Init /\ [][Next]_vars
=============================================================================
