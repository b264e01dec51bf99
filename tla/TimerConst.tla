----------------------------- MODULE TimerConst -----------------------------
(* The timers of the kernel and what they are armed with. *)
EXTENDS Integers

CONSTANTS Timer,       \* timer_t structures; each one lives on the stack of its process
          MaxTimeout   \* the largest number of ticks a timer is armed with

ASSUME TimeoutAssumption == MaxTimeout \in Nat \ {0}
=============================================================================
