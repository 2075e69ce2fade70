------------------------------ MODULE MCEdgeTwo ------------------------------
(* EdgeStore with two writers for TLC, twice side by side: under the name lock *)
(* with two names in one new day directory (this module's own constants), and  *)
(* two writers of one name that share no lock, as two processes would be.      *)
EXTENDS EdgeStore, TLC

CONSTANT RaceNames  \* the name both write

VARIABLE locked     \* which of the two moves

Race == INSTANCE EdgeStore WITH
            Names <- RaceNames, Sidecars <- BOOLEAN, Exclusive <- FALSE, MaxErrors <- 1

MCInit == locked \in BOOLEAN /\ IF locked THEN Init ELSE Race!Init
MCNext == UNCHANGED locked /\ IF locked THEN Next ELSE Race!Next
MCSpec == MCInit /\ [][MCNext]_<<locked, vars>>

Symmetry == Permutations(Workers)

-----------------------------------------------------------------------------
(* Under the lock "stored" is kept although another request made the day       *)
(* directory, and without it no final file is torn.                            *)
DiskHolds == IF locked THEN PromiseKept /\ CleanDisk ELSE Race!NothingTorn

(* Under the lock a possession check never vouches for a file that is rolled   *)
(* back and no writer removes audio but its own; without it the second still   *)
(* holds of two writers that send the same bytes.  (Of different bytes it does *)
(* not: an old proof licenses one writer to move aside what the other has just *)
(* linked, and the other's rollback then takes back the first one's bytes.)    *)
FilesStay == [][IF locked THEN VouchStep /\ RemovalStep ELSE Race!RemovalStep]_<<locked, vars>>
=============================================================================
