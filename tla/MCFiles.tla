------------------------------- MODULE MCFiles -------------------------------
(* Model of module Files for TLC. *)
EXTENDS Files, TLC

MCSymmetry == Permutations(Proc) \cup Permutations(Fs)
=============================================================================
