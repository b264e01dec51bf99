------------------------------ MODULE MCSched ------------------------------
(* Models of module Sched for TLC. *)
EXTENDS Sched, TLC

\* sched_init: each queue has twice the time slice of the one above it.
MCTimeSlice == [l \in 0..(NLevel - 1) |-> 2 ^ l]
=============================================================================
