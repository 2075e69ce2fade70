----------------------------- MODULE MCEdgeStore -----------------------------
(* EdgeStore for TLC: names, contents and slots are interchangeable. *)
EXTENDS EdgeStoreInvariant, TLC

Symmetry == Permutations(Names) \cup Permutations(Contents) \cup Permutations(Workers)
=============================================================================
