-------------------------- MODULE EdgeStoreInvariant --------------------------
(***************************************************************************)
(* The inductive invariant behind the safety of EdgeStore when the server  *)
(* holds one lock per name (Exclusive): what is known of the disk, of the  *)
(* promise and of the request at work, between any two steps.              *)
(***************************************************************************)
EXTENDS EdgeStore

\* Only the request inside the name lock works on a name.
Working(w) == req[w] # Idle /\ req[w].pc # "body"
LockInv == \A w \in Workers : Working(w) => holder[Name(w)] = w

\* One version of n's files a power loss may leave.
Matches(f) == f.audio \in Contents => f.side \in {None, f.audio} /\ f.proof \in {None, f.audio}
SameSource(f) == f.side = None \/ f.proof = None \/ f.side = f.proof

\* A promise, as long as it stands: the bytes or their decayed copy, and the proof.
Keeps(n, f) ==
  /\ f.audio \in {promise[n], Rot}
  /\ f.proof = promise[n]
  /\ ~spoiled[n] => f.audio = promise[n]
  /\ timed[n] => f.side = promise[n]

NameInv(n) ==
  /\ disk[n] \in survive[n]
  /\ \A f \in survive[n] : Matches(f) /\ SameSource(f) /\ f.audio # Torn
  /\ promise[n] # None => day = "durable" /\ \A f \in survive[n] : Keeps(n, f)

DiskInv == \A n \in Names : NameInv(n)

\* What a request knows of its name's files at each point of the store.
Own(w) == {None, Data(w)}
BeforeLink == {"asideSync", "stale", "side", "temp", "link"}
Sealing == {"proof", "proofSync", "persist"}

RequestInv(w) ==
  LET pc == req[w].pc
      f == File(w)
      complete == req[w].meta => f.side = Data(w)
  IN /\ pc \in BeforeLink => f.audio = None
     /\ pc = "quarantine" => f.audio \notin Contents
     /\ pc = "link" => req[w].flushed
     /\ pc \in {"quarantine", "asideSync"} \/ req[w].keep => f.proof = Data(w)
     /\ pc \in {"heldSide", "side", "temp", "link", "sync", "readback"} \cup Sealing =>
          f.side \in Own(w) /\ f.proof \in Own(w)
     /\ pc \in {"temp", "link", "sync", "readback"} \cup Sealing => complete
     /\ pc \in {"heldSide"} \cup Sealing =>
          f.audio \in {Data(w), Rot, None} /\ (req[w].sound => f.audio = Data(w))
     /\ pc \in {"proofSync", "persist"} => f.proof = Data(w)
     /\ req[w].linked => pc \in {"sync", "readback", "cleanup"} /\ ~req[w].ok
                           /\ promise[Name(w)] = None
     /\ req[w].ok =>
          /\ pc = "cleanup" /\ req[w].proven
          /\ day = "durable"
          /\ \A g \in survive[Name(w)] :
               /\ g.audio = f.audio /\ g.audio \in {Data(w), Rot, None}
               /\ g.proof = Data(w)
               /\ req[w].sound => g.audio = Data(w)
               /\ req[w].meta => g.side = Data(w)

Fresh(w) == ~req[w].keep /\ ~req[w].linked /\ ~req[w].ok

ReqInv ==
  \A w \in Workers :
    /\ req[w] # Idle /\ req[w].pc = "body" => Fresh(w)
    /\ Working(w) => RequestInv(w)

(***************************************************************************)
(* Together they are inductive and imply ReceiptSurvives, TimingSurvives,  *)
(* LeftoversMatch, RepairPossible and NothingTorn.                         *)
(***************************************************************************)
Inductive == LockInv /\ DiskInv /\ ReqInv
=============================================================================
