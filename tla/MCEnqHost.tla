------------------------------ MODULE MCEnqHost ------------------------------
(* Small instances of the hosts' lock sessions for TLC. *)
EXTENDS EnqHost, TLC

\* Nothing tells two steps, or two keys, apart.
Symmetry == Permutations(Steps) \cup Permutations(Keys)
==============================================================================
