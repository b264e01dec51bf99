----------------------------- MODULE TimerList -----------------------------
(***************************************************************************)
(* The timer list of schedule/sched.c: add_timer, del_timer and             *)
(* run_timer_list over a list sorted by expiry in which each timer stores   *)
(* only the ticks left after its predecessor has fired.                     *)
(*                                                                          *)
(* The three functions run with interrupts off, so nothing interleaves with *)
(* their loops; each loop is still modelled one iteration at a time, with   *)
(* `mode' naming the function that is running.                              *)
(***************************************************************************)
EXTENDS TimerConst, Sequences

VARIABLES list,        \* timer_list, as the sequence of the timers linked in it
          expires,     \* timer->expires
          mode,        \* "idle", "add_timer" or "run_timer_list"
          timer,       \* add_timer: the timer being inserted
          le,          \* add_timer: position of the list entry being looked at
          due          \* history: ticks left of those the caller of add_timer asked for

timerVars == <<list, expires, mode, timer, le, due>>

Linked(t) == \E i \in 1..Len(list) : list[i] = t

RemoveAt(s, i) == [j \in 1..(Len(s) - 1) |-> IF j < i THEN s[j] ELSE s[j + 1]]

InsertAt(s, i, x) ==
  [j \in 1..(Len(s) + 1) |-> IF j < i THEN s[j] ELSE IF j = i THEN x ELSE s[j - 1]]

TimerInit ==
  /\ list = << >>
  /\ expires = [t \in Timer |-> 0]
  /\ due = [t \in Timer |-> 0]
  /\ mode = "idle"
  /\ timer \in Timer
  /\ le = 1

-----------------------------------------------------------------------------
\* timer_init and the head of add_timer: the timer holds the whole timeout.
AddTimerBegin(t, n) ==
  /\ mode = "idle"
  /\ ~Linked(t)
  /\ expires' = [expires EXCEPT ![t] = n]
  /\ due' = [due EXCEPT ![t] = n]
  /\ mode' = "add_timer"
  /\ timer' = t
  /\ le' = 1
  /\ UNCHANGED list

\* An iteration of add_timer's loop that goes past a timer that fires no later.
AddTimerSkip ==
  /\ mode = "add_timer"
  /\ le <= Len(list)
  /\ expires[timer] >= expires[list[le]]
  /\ expires' = [expires EXCEPT ![timer] = @ - expires[list[le]]]
  /\ le' = le + 1
  /\ UNCHANGED <<list, mode, timer, due>>

\* The loop stops in front of the first timer that fires later, which now
\* counts from the new one, or at the end of the list.
AddTimerLink ==
  /\ mode = "add_timer"
  /\ \/ /\ le > Len(list)
        /\ UNCHANGED expires
     \/ /\ le <= Len(list)
        /\ expires[timer] < expires[list[le]]
        /\ expires' = [expires EXCEPT ![list[le]] = @ - expires[timer]]
  /\ list' = InsertAt(list, le, timer)
  /\ mode' = "idle"
  /\ UNCHANGED <<timer, le, due>>

\* Mutant: the successor does not get the deleted timer's ticks back.
DelTimerDropsTicks(i) ==
  /\ mode = "idle"
  /\ i \in 1..Len(list)
  /\ due' = [due EXCEPT ![list[i]] = 0]
  /\ list' = RemoveAt(list, i)
  /\ UNCHANGED <<expires, mode, timer, le>>

\* del_timer of a linked timer: its ticks are given back to its successor.
\* (On a timer that is not linked del_timer does nothing.)
DelTimer(i) ==
  /\ mode = "idle"
  /\ i \in 1..Len(list)
  /\ expires' = IF i < Len(list)
                THEN [expires EXCEPT ![list[i + 1]] = @ + expires[list[i]]]
                ELSE expires
  /\ due' = [due EXCEPT ![list[i]] = 0]
  /\ list' = RemoveAt(list, i)
  /\ UNCHANGED <<mode, timer, le>>

\* Mutant: the tick is not taken off a timer that is alone in the list.
RunTimerListBeginSkipsOne ==
  /\ mode = "idle"
  /\ expires' = IF Len(list) <= 1 THEN expires ELSE [expires EXCEPT ![list[1]] = @ - 1]
  /\ due' = [t \in Timer |-> IF Linked(t) /\ Len(list) > 1 THEN due[t] - 1 ELSE due[t]]
  /\ mode' = "run_timer_list"
  /\ UNCHANGED <<list, timer, le>>

\* The head of run_timer_list: one tick is taken off the first timer.
RunTimerListBegin ==
  /\ mode = "idle"
  /\ expires' = IF list = << >> THEN expires ELSE [expires EXCEPT ![list[1]] = @ - 1]
  /\ due' = [t \in Timer |-> IF Linked(t) THEN due[t] - 1 ELSE due[t]]
  /\ mode' = "run_timer_list"
  /\ UNCHANGED <<list, timer, le>>

\* An iteration of its loop: the first timer has no ticks left, so its process
\* is woken and the timer is deleted (its successor gets nothing back).
RunTimerListFire ==
  /\ mode = "run_timer_list"
  /\ list # << >>
  /\ expires[list[1]] = 0
  /\ list' = RemoveAt(list, 1)
  /\ UNCHANGED <<expires, mode, timer, le, due>>

RunTimerListEnd ==
  /\ mode = "run_timer_list"
  /\ list # << >> => expires[list[1]] # 0
  /\ mode' = "idle"
  /\ UNCHANGED <<list, expires, timer, le, due>>

TimerNext ==
  \/ \E t \in Timer, n \in 1..MaxTimeout : AddTimerBegin(t, n)
  \/ AddTimerSkip
  \/ AddTimerLink
  \/ \E i \in 1..Len(list) : DelTimer(i)
  \/ RunTimerListBegin
  \/ RunTimerListFire
  \/ RunTimerListEnd

\* The clock interrupt keeps coming, and the loops it and add_timer run finish.
TimerFairness ==
  /\ WF_timerVars(AddTimerSkip \/ AddTimerLink)
  /\ SF_timerVars(RunTimerListBegin)
  /\ WF_timerVars(RunTimerListFire \/ RunTimerListEnd)

TimerSpec == TimerInit /\ [][TimerNext]_timerVars
TimerFairSpec == TimerSpec /\ TimerFairness
-----------------------------------------------------------------------------
\* The ticks left before the timer linked at position i - 1 fires.
Base(i) == IF i = 1 THEN 0 ELSE due[list[i - 1]]

TimerTypeOK ==
  /\ list \in Seq(Timer)
  /\ expires \in [Timer -> 0..MaxTimeout]
  /\ due \in [Timer -> 0..MaxTimeout]
  /\ mode \in {"idle", "add_timer", "run_timer_list"}
  /\ timer \in Timer
  /\ le \in Nat \ {0}

\* A timer is linked at most once (the assertion list_empty(timer_link) of
\* add_timer), the list is sorted by the ticks really left, and the deltas stored
\* along it add up, at every entry, to those ticks, whatever was inserted before
\* it, deleted in front of it or fired.  Hence the 32-bit counters never wrap.
DeltasExact ==
  /\ \A i, j \in 1..Len(list) : list[i] = list[j] => i = j
  /\ \A i, j \in 1..Len(list) : i < j => due[list[i]] <= due[list[j]]
  /\ \A i \in 1..Len(list) : due[list[i]] = Base(i) + expires[list[i]]

\* The assertion at the head of run_timer_list: when a tick arrives, the first
\* timer has ticks left, so no tick finds an overdue timer behind it.
NoneOverdue ==
  mode # "run_timer_list" => \A i \in 1..Len(list) : due[list[i]] > 0 /\ expires[list[1]] # 0

\* Part of the inductive invariant: while add_timer walks the list, the
\* remainder it carries is exact for the position it has reached.
AddExact ==
  mode = "add_timer" =>
    /\ le <= Len(list) + 1
    /\ ~Linked(timer)
    /\ due[timer] > 0
    /\ due[timer] = Base(le) + expires[timer]

\* A process that armed a timer is woken by it, or deletes it: ticks cannot be
\* spent for ever on timers that others insert in front of it.
TimerFires == \A t \in Timer : Linked(t) ~> ~Linked(t)

\* The delta list implements the timers of module Timers: every timer fires at
\* exactly the tick it was armed for.
Abs == INSTANCE Timers
         WITH armed <- {t \in Timer : Linked(t)},
              due <- [t \in Timer |-> IF Linked(t) THEN due[t] ELSE 0]
ImplementsTimers == Abs!Spec
=============================================================================
