------------------------------ MODULE MCSfsTree ------------------------------
(***************************************************************************)
(* A model of module SfsTree for TLC in which processes look up ".." and    *)
(* ask for their path also from directories that were removed.              *)
(***************************************************************************)
EXTENDS SfsTree, TLC

MCSymmetry == Permutations(Proc) \cup Permutations(Ino \ {Root})
=============================================================================
