------------------------------- MODULE Sched -------------------------------
(***************************************************************************)
(* The scheduler of schedule/: wakeup_proc, schedule and the clock tick     *)
(* over the multi-level feedback queue (sched_MLFQ.c) of round-robin run    *)
(* queues (sched_RR.c), with the sleep, yield, fork and exit steps that      *)
(* call them.                                                              *)
(*                                                                          *)
(* The kernel is not preemptible.  A process gives up the processor only in *)
(* schedule(), which it calls after having put itself to sleep, when it     *)
(* exits, and on its way back to user mode when need_resched is set.        *)
(* Interrupts stay enabled in the kernel outside local_intr_save sections,  *)
(* so the clock and the keyboard may wake processes at any point, also      *)
(* between the moment a process marks itself SLEEPING and its schedule().   *)
(***************************************************************************)
EXTENDS Integers, Sequences

CONSTANTS Proc,            \* process structures other than idleproc
          Initproc,        \* the first of them
          Idle,            \* idleproc
          NLevel,          \* number of run queues (4 in sched_init)
          max_time_slice   \* time slice of each run queue (8, 16, 32, 64)

Level == 0..(NLevel - 1)
NoRq == -1                 \* proc->rq is NULL

ASSUME SchedAssumption ==
  /\ Initproc \in Proc
  /\ Idle \notin Proc
  /\ NLevel \in Nat \ {0}
  /\ max_time_slice \in [Level -> Nat \ {0}]

VARIABLES current,         \* the process on the processor
          state,           \* proc->state; "UNINIT" also when the structure is free
          wait_state,      \* "none", "kernel" or "interrupted" (WT_INTERRUPTED is set)
          runq,            \* the run queues, highest priority first
          rq,              \* proc->rq, the queue it was last put in
          time_slice,      \* proc->time_slice
          need_resched,    \* proc->need_resched
          pc,              \* where a process is: "run", "schedule" (about to call
                           \* schedule()) or "resume" (schedule() has not returned)
          armed,           \* the processes whose timer is pending
          irq              \* the clock interrupt is being handled

vars == <<current, state, wait_state, runq, rq, time_slice, need_resched, pc, armed, irq>>

-----------------------------------------------------------------------------
\* MLFQ_enqueue: a process that used up its slice goes one queue down, except
\* from the last queue; any other process goes to the first queue.
EnqueueLevel(p) ==
  IF rq[p] = NoRq \/ time_slice[p] # 0 THEN 0
  ELSE IF rq[p] = NLevel - 1 THEN rq[p] ELSE rq[p] + 1

\* RR_enqueue: an exhausted or too long slice is set to that of the queue.
EnqueueSlice(slice, l) ==
  IF slice = 0 \/ slice > max_time_slice[l] THEN max_time_slice[l] ELSE slice

\* sched_class_enqueue of a process other than idleproc.
Enqueue(p) ==
  LET l == EnqueueLevel(p) IN
  /\ runq' = [runq EXCEPT ![l] = Append(@, p)]
  /\ rq' = [rq EXCEPT ![p] = l]
  /\ time_slice' = [time_slice EXCEPT ![p] = EnqueueSlice(time_slice[p], l)]

\* Mutant: the woken process is enqueued also when it is the current one, which
\* schedule() then enqueues again.
WakeupProcAlways(p) ==
  IF state[p] = "RUNNABLE"
  THEN UNCHANGED <<state, wait_state, runq, rq, time_slice>>
  ELSE /\ state' = [state EXCEPT ![p] = "RUNNABLE"]
       /\ wait_state' = [wait_state EXCEPT ![p] = "none"]
       /\ Enqueue(p)

\* wakeup_proc: waking a runnable process only warns, and the current process
\* (asleep but not yet switched out) is left for schedule() to enqueue.
WakeupProc(p) ==
  IF state[p] = "RUNNABLE"
  THEN UNCHANGED <<state, wait_state, runq, rq, time_slice>>
  ELSE /\ state' = [state EXCEPT ![p] = "RUNNABLE"]
       /\ wait_state' = [wait_state EXCEPT ![p] = "none"]
       /\ IF p # current THEN Enqueue(p) ELSE UNCHANGED <<runq, rq, time_slice>>

\* Mutant: the search of the queues starts from the last one.
PickNextLast(q) ==
  \/ /\ \A l \in Level : q[l] = << >>
     /\ current' = Idle
     /\ runq' = q
  \/ \E l \in Level :
       /\ q[l] # << >>
       /\ \A m \in Level : m > l => q[m] = << >>
       /\ current' = Head(q[l])
       /\ runq' = [q EXCEPT ![l] = Tail(@)]

\* RR_pick_next / MLFQ_pick_next followed by dequeue, from the queues q: the
\* head of the first queue that is not empty, or idleproc.
PickNext(q) ==
  \/ /\ \A l \in Level : q[l] = << >>
     /\ current' = Idle
     /\ runq' = q
  \/ \E l \in Level :
       /\ q[l] # << >>
       /\ \A m \in Level : m < l => q[m] = << >>
       /\ current' = Head(q[l])
       /\ runq' = [q EXCEPT ![l] = Tail(@)]

-----------------------------------------------------------------------------
\* The state that proc_init leaves: initproc is ready and idleproc is running.
Init ==
  /\ current = Idle
  /\ state = [p \in Proc |-> IF p = Initproc THEN "RUNNABLE" ELSE "UNINIT"]
  /\ wait_state = [p \in Proc |-> "none"]
  /\ runq = [l \in Level |-> IF l = 0 THEN <<Initproc>> ELSE << >>]
  /\ rq = [p \in Proc |-> IF p = Initproc THEN 0 ELSE NoRq]
  /\ time_slice = [p \in Proc |-> IF p = Initproc THEN max_time_slice[0] ELSE 0]
  /\ need_resched = [p \in Proc \cup {Idle} |-> p = Idle]
  /\ pc = [p \in Proc \cup {Idle} |-> IF p = Idle THEN "run" ELSE "resume"]
  /\ armed = {}
  /\ irq = FALSE

Running(p) == ~irq /\ current = p /\ pc[p] = "run"

\* Mutant: an exhausted process keeps running until its slice would be negative.
ProcTickLate ==
  /\ need_resched' = [need_resched EXCEPT
       ![current] = @ \/ current = Idle \/ time_slice[current] = 0]
  /\ time_slice' = IF current # Idle /\ time_slice[current] > 0
                   THEN [time_slice EXCEPT ![current] = @ - 1] ELSE time_slice

\* sched_class_proc_tick and RR_proc_tick.
ProcTick ==
  /\ need_resched' = [need_resched EXCEPT
       ![current] = @ \/ current = Idle \/ time_slice[current] <= 1]
  /\ time_slice' = IF current # Idle /\ time_slice[current] > 0
                   THEN [time_slice EXCEPT ![current] = @ - 1] ELSE time_slice

\* The clock interrupt: trap_dispatch calls run_timer_list, which wakes the
\* owners of the timers that expire (module Timers says which) and then charges
\* the tick to the current process.
TickBegin ==
  /\ ~irq
  /\ irq' = TRUE
  /\ UNCHANGED <<current, state, wait_state, runq, rq, time_slice, need_resched, pc, armed>>

TickFire(p) ==
  /\ irq
  /\ p \in armed
  /\ WakeupProc(p)
  /\ armed' = armed \ {p}
  /\ UNCHANGED <<current, need_resched, pc, irq>>

TickEnd ==
  /\ irq
  /\ ProcTick
  /\ irq' = FALSE
  /\ UNCHANGED <<current, state, wait_state, runq, rq, pc, armed>>

\* The current process puts itself to sleep (wait_current_set, do_wait, do_sleep),
\* interruptibly or not, and possibly with a timer; schedule() comes next.
Sleep(p, w, timed) ==
  /\ Running(p)
  /\ w = "kernel" => ~timed
  /\ state' = [state EXCEPT ![p] = "SLEEPING"]
  /\ wait_state' = [wait_state EXCEPT ![p] = w]
  /\ armed' = IF timed THEN armed \cup {p} ELSE armed
  /\ pc' = [pc EXCEPT ![p] = "schedule"]
  /\ UNCHANGED <<current, runq, rq, time_slice, need_resched, irq>>

\* A sleeping process is woken, by what the current process does or by the
\* keyboard interrupt, which may find it still current.
Wakeup(p) ==
  /\ ~irq
  /\ state[p] = "SLEEPING"
  /\ wait_state[p] = "interrupted" \/ (current \in Proc /\ pc[current] = "run")
  /\ WakeupProc(p)
  /\ UNCHANGED <<current, need_resched, pc, armed, irq>>

DoYield(p) ==
  /\ Running(p)
  /\ need_resched' = [need_resched EXCEPT ![p] = TRUE]
  /\ UNCHANGED <<current, state, wait_state, runq, rq, time_slice, pc, armed, irq>>

\* do_fork: the child (a fresh alloc_proc) takes half of the parent's slice and is
\* put in the first queue by wakeup_proc.
DoFork(p, child) ==
  LET half == time_slice[p] \div 2 IN
  /\ Running(p)
  /\ state[child] = "UNINIT"
  /\ state' = [state EXCEPT ![child] = "RUNNABLE"]
  /\ runq' = [runq EXCEPT ![0] = Append(@, child)]
  /\ rq' = [rq EXCEPT ![child] = 0]
  /\ time_slice' = [time_slice EXCEPT ![p] = @ - half, ![child] = EnqueueSlice(half, 0)]
  /\ UNCHANGED <<current, wait_state, need_resched, pc, armed, irq>>

\* __do_exit; the parents and senders it wakes, all in interruptible waits, are
\* Wakeup steps taken before its schedule().
DoExit(p) ==
  /\ Running(p)
  /\ p # Initproc
  /\ state' = [state EXCEPT ![p] = "ZOMBIE"]
  /\ pc' = [pc EXCEPT ![p] = "schedule"]
  /\ UNCHANGED <<current, wait_state, runq, rq, time_slice, need_resched, armed, irq>>

\* do_wait frees a zombie's structure; alloc_proc later makes a fresh one.
Reap(p, child) ==
  /\ Running(p)
  /\ state[child] = "ZOMBIE"
  /\ state' = [state EXCEPT ![child] = "UNINIT"]
  /\ rq' = [rq EXCEPT ![child] = NoRq]
  /\ time_slice' = [time_slice EXCEPT ![child] = 0]
  /\ UNCHANGED <<current, wait_state, runq, need_resched, pc, armed, irq>>

\* schedule(), called by a process that sleeps or has exited, or on the way back
\* to user mode (and by cpu_idle) because need_resched is set.
Schedule ==
  /\ ~irq
  /\ pc[current] = "schedule" \/ (pc[current] = "run" /\ need_resched[current])
  /\ need_resched' = [need_resched EXCEPT ![current] = FALSE]
  /\ IF current # Idle /\ state[current] = "RUNNABLE"
     THEN LET l == EnqueueLevel(current) IN
          /\ PickNext([runq EXCEPT ![l] = Append(@, current)])
          /\ rq' = [rq EXCEPT ![current] = l]
          /\ time_slice' = [time_slice EXCEPT ![current] = EnqueueSlice(time_slice[current], l)]
     ELSE PickNext(runq) /\ UNCHANGED <<rq, time_slice>>
  /\ pc' = [pc EXCEPT ![current] = "resume"]
  /\ UNCHANGED <<state, wait_state, armed, irq>>

\* Mutant: the woken sleeper leaves its timer pending.
ResumeKeepsTimer ==
  /\ ~irq
  /\ pc[current] = "resume"
  /\ pc' = [pc EXCEPT ![current] = "run"]
  /\ UNCHANGED <<current, state, wait_state, runq, rq, time_slice, need_resched, armed, irq>>

\* schedule() returns: a process that slept with a timer deletes it (del_timer).
Resume ==
  /\ ~irq
  /\ pc[current] = "resume"
  /\ pc' = [pc EXCEPT ![current] = "run"]
  /\ armed' = armed \ {current}
  /\ UNCHANGED <<current, state, wait_state, runq, rq, time_slice, need_resched, irq>>

Next ==
  \/ TickBegin
  \/ \E p \in Proc : TickFire(p)
  \/ TickEnd
  \/ \E p \in Proc, w \in {"kernel", "interrupted"}, timed \in BOOLEAN : Sleep(p, w, timed)
  \/ \E p \in Proc : Wakeup(p)
  \/ \E p \in Proc : DoYield(p)
  \/ \E p, child \in Proc : DoFork(p, child)
  \/ \E p \in Proc : DoExit(p)
  \/ \E p, child \in Proc : Reap(p, child)
  \/ Schedule
  \/ Resume

\* Ticks keep coming and their handler returns.  Kernel code between two calls of
\* schedule() is finite, so a process that is due to call it does, however often
\* the clock interrupts it.
Fairness ==
  /\ WF_vars(TickBegin)
  /\ WF_vars(TickEnd)
  /\ SF_vars(Schedule)
  /\ SF_vars(Resume)

Spec == Init /\ [][Next]_vars
FairSpec == Spec /\ Fairness
-----------------------------------------------------------------------------
TypeOK ==
  /\ current \in Proc \cup {Idle}
  /\ state \in [Proc -> {"UNINIT", "SLEEPING", "RUNNABLE", "ZOMBIE"}]
  /\ wait_state \in [Proc -> {"none", "kernel", "interrupted"}]
  /\ runq \in [Level -> Seq(Proc)]
  /\ rq \in [Proc -> Level \cup {NoRq}]
  /\ time_slice \in [Proc -> Nat]
  /\ need_resched \in [Proc \cup {Idle} -> BOOLEAN]
  /\ pc \in [Proc \cup {Idle} -> {"run", "schedule", "resume"}]
  /\ armed \subseteq Proc
  /\ irq \in BOOLEAN

InQueue(p, l) == \E i \in 1..Len(runq[l]) : runq[l][i] = p

\* The run queues hold exactly the processes that are ready to run and not
\* running, each of them once, in the queue proc->rq names, with ticks to spend:
\* no wakeup, wherever it falls, loses a process or links it twice (the
\* assertions on run_link and rq of RR_enqueue, RR_dequeue and MLFQ_enqueue).
RunQueueConsistent ==
  /\ \A l \in Level : \A i, j \in 1..Len(runq[l]) : runq[l][i] = runq[l][j] => i = j
  /\ \A p \in Proc : \A l \in Level :
       InQueue(p, l) <=> state[p] = "RUNNABLE" /\ p # current /\ rq[p] = l
  /\ \A p \in Proc : state[p] # "UNINIT" => rq[p] \in Level

\* A process never holds the processor on an exhausted slice without being asked
\* to reschedule, and never has a longer slice than its queue grants.
SliceBounded ==
  \A p \in Proc :
    /\ rq[p] \in Level => time_slice[p] <= max_time_slice[rq[p]]
    /\ state[p] = "RUNNABLE" /\ p # current => time_slice[p] > 0
    /\ p = current /\ time_slice[p] = 0 => need_resched[p]

\* The assertion of run_timer_list: a pending timer belongs to a process that is
\* in an interruptible wait or already woken; and it is gone before the process
\* leaves the function whose stack frame holds it.
TimerOwnerWaits ==
  \A p \in armed : wait_state[p] # "kernel" /\ pc[p] # "run" /\ state[p] \in {"SLEEPING", "RUNNABLE"}

\* A process that runs is awake and waits for nothing (asserted by do_fork): no
\* schedule() returns to a process that has not been woken.
RunningIsAwake ==
  \A p \in Proc : /\ current = p /\ pc[p] # "schedule" => state[p] = "RUNNABLE"
                  /\ state[p] # "SLEEPING" => wait_state[p] = "none"

\* A process woken or preempted into the first queue runs eventually, whatever
\* the others do.  (Lower queues give no such promise: a process that always
\* sleeps before its slice ends stays in front of them.)
FirstQueueRuns == \A p \in Proc : InQueue(p, 0) ~> current = p
=============================================================================
