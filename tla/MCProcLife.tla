---------------------------- MODULE MCProcLife ----------------------------
(* Model of module ProcLife for TLC. *)
EXTENDS ProcLife, TLC

MCSymmetry == Permutations(User)
=============================================================================
