----------------------------- MODULE ProcConst ------------------------------
(* The processes that modules Event, UserSem and Mbox share. *)

CONSTANT Proc
=============================================================================
