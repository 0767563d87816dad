--------------------------- MODULE MCObjectStore ----------------------------
(* Small object stores for TLC. *)
EXTENDS ObjectStore, TLC

\* Nothing tells two activators apart, nor two versions but the first.
Symmetry == Permutations(Activators) \cup Permutations(Versions \ {First})
=============================================================================
