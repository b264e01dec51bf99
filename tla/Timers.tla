------------------------------- MODULE Timers -------------------------------
(***************************************************************************)
(* What the kernel timers promise: a timer armed with n ticks fires at the  *)
(* n-th clock tick after it was armed, unless it is disarmed first.  The    *)
(* delta list of schedule/sched.c (module TimerList) implements this.       *)
(***************************************************************************)
EXTENDS TimerConst

VARIABLES armed,       \* the timers that are pending
          due          \* for a pending timer, the ticks left before it fires

vars == <<armed, due>>

Init ==
  /\ armed = {}
  /\ due = [t \in Timer |-> 0]

Arm(t, n) ==
  /\ t \notin armed
  /\ armed' = armed \cup {t}
  /\ due' = [due EXCEPT ![t] = n]

Disarm(t) ==
  /\ t \in armed
  /\ armed' = armed \ {t}
  /\ due' = [due EXCEPT ![t] = 0]

\* Time passes only when no pending timer is overdue.
Tick ==
  /\ \A t \in armed : due[t] > 0
  /\ due' = [t \in Timer |-> IF t \in armed THEN due[t] - 1 ELSE due[t]]
  /\ UNCHANGED armed

\* A timer fires when its ticks are used up, not before.
Fire(t) ==
  /\ t \in armed
  /\ due[t] = 0
  /\ armed' = armed \ {t}
  /\ UNCHANGED due

Next ==
  \/ \E t \in Timer, n \in 1..MaxTimeout : Arm(t, n)
  \/ \E t \in Timer : Disarm(t) \/ Fire(t)
  \/ Tick

Spec == Init /\ [][Next]_vars
=============================================================================
