----------------------------- MODULE MCUserSem -----------------------------
(* Model of module UserSem for TLC. *)
EXTENDS UserSem
=============================================================================
