-------------------------------- MODULE MCVm ---------------------------------
(* Model of module Vm for TLC: an address space with one private page. *)
EXTENDS Vm
=============================================================================
