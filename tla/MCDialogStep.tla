---------------------------- MODULE MCDialogStep -----------------------------
(* Small instances of the work process for TLC. *)
EXTENDS DialogStep, TLC

\* Nothing tells two requests apart.
SessionSymmetry == Permutations(Sessions)
==============================================================================
