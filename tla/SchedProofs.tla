---------------------------- MODULE SchedProofs ----------------------------
(***************************************************************************)
(* Proofs about the scheduler for any number of processes and run queues    *)
(* and any time slices: the run queues hold exactly the ready processes,     *)
(* slices stay within bounds, and no sleeping process is ever run.           *)
(***************************************************************************)
EXTENDS Sched, TLAPS

\* The inductive invariant: its five parts need each other.  A woken process may
\* be appended to a queue only because a process that is not ready is in none
\* (RunQueueConsistent); what schedule() picks is awake and has ticks left only
\* because every queued process is and has.
IInv == TypeOK /\ RunQueueConsistent /\ SliceBounded /\ RunningIsAwake /\ TimerOwnerWaits

-----------------------------------------------------------------------------
Holds(q, l, p) == \E i \in 1..Len(q[l]) : q[l][i] = p

\* The queues q hold, without repetition, the processes that `ready' says.
Exact(q, ready) ==
  /\ \A l \in Level : \A i, j \in 1..Len(q[l]) : q[l][i] = q[l][j] => i = j
  /\ \A p \in Proc : \A l \in Level : Holds(q, l, p) <=> p \in ready[l]

Ready == [l \in Level |-> {p \in Proc : state[p] = "RUNNABLE" /\ p # current /\ rq[p] = l}]

\* RR_enqueue adds one process to one queue.
LEMMA AppendExact ==
  ASSUME NEW q \in [Level -> Seq(Proc)], NEW ready \in [Level -> SUBSET Proc], Exact(q, ready),
         NEW l \in Level, NEW p \in Proc, p \notin ready[l]
  PROVE  /\ [q EXCEPT ![l] = Append(@, p)] \in [Level -> Seq(Proc)]
         /\ Exact([q EXCEPT ![l] = Append(@, p)], [ready EXCEPT ![l] = @ \cup {p}])
<1> DEFINE Q == [q EXCEPT ![l] = Append(@, p)]
           R == [ready EXCEPT ![l] = @ \cup {p}]
<1>1. /\ Q \in [Level -> Seq(Proc)] /\ q[l] \in Seq(Proc) /\ Len(q[l]) \in Nat
      /\ Q[l] = Append(q[l], p) /\ \A m \in Level : m # l => Q[m] = q[m]
  OBVIOUS
<1>2. /\ Len(Q[l]) = Len(q[l]) + 1 /\ Q[l][Len(q[l]) + 1] = p
      /\ \A i \in 1..Len(q[l]) : Q[l][i] = q[l][i]
  BY <1>1
<1>3. /\ R[l] = ready[l] \cup {p} /\ \A m \in Level : m # l => R[m] = ready[m]
  OBVIOUS
<1> HIDE DEF Q, R
<1>4. \A i \in 1..Len(q[l]) : q[l][i] # p
  BY DEF Exact, Holds
<1>5. ASSUME NEW m \in Level, NEW i \in 1..Len(Q[m]), NEW j \in 1..Len(Q[m]), Q[m][i] = Q[m][j]
      PROVE  i = j
  <2>1. CASE m # l BY <2>1, <1>1, <1>5 DEF Exact
  <2>2. CASE m = l
    <3>1. CASE i \in 1..Len(q[l]) /\ j \in 1..Len(q[l]) BY <3>1, <2>2, <1>2, <1>5 DEF Exact
    <3>2. CASE i = Len(q[l]) + 1 \/ j = Len(q[l]) + 1 BY <3>2, <2>2, <1>1, <1>2, <1>4, <1>5
    <3> QED BY <3>1, <3>2, <2>2, <1>1, <1>2
  <2> QED BY <2>1, <2>2
<1>6. ASSUME NEW r \in Proc, NEW m \in Level PROVE Holds(Q, m, r) <=> r \in R[m]
  <2>1. CASE m # l
    <3>1. Q[m] = q[m] /\ R[m] = ready[m] BY <2>1, <1>1, <1>3
    <3>2. Holds(Q, m, r) <=> Holds(q, m, r) BY <3>1 DEF Holds
    <3> QED BY <3>1, <3>2 DEF Exact
  <2>2. CASE m = l
    <3>1. ASSUME Holds(Q, l, r) PROVE r \in R[l]
      <4>1. PICK i \in 1..Len(Q[l]) : Q[l][i] = r BY <3>1 DEF Holds
      <4>2. CASE i = Len(q[l]) + 1 BY <4>1, <4>2, <1>2, <1>3
      <4>3. CASE i \in 1..Len(q[l])
        <5>1. Holds(q, l, r) BY <4>1, <4>3, <1>2 DEF Holds
        <5> QED BY <5>1, <1>3 DEF Exact
      <4> QED BY <4>1, <4>2, <4>3, <1>1, <1>2
    <3>2. ASSUME r \in R[l] PROVE Holds(Q, l, r)
      <4>1. CASE r = p BY <4>1, <1>1, <1>2 DEF Holds
      <4>2. CASE r # p
        <5>1. PICK i \in 1..Len(q[l]) : q[l][i] = r BY <4>2, <3>2, <1>3 DEF Exact, Holds
        <5>2. i \in 1..Len(Q[l]) /\ Q[l][i] = r BY <5>1, <1>1, <1>2
        <5> QED BY <5>2 DEF Holds
      <4> QED BY <4>1, <4>2
    <3> QED BY <3>1, <3>2, <2>2
  <2> QED BY <2>1, <2>2
<1> QED BY Zenon, <1>1, <1>5, <1>6 DEF Exact, Q, R

\* RR_dequeue of the head takes exactly that process out.
LEMMA TailExact ==
  ASSUME NEW q \in [Level -> Seq(Proc)], NEW ready \in [Level -> SUBSET Proc], Exact(q, ready),
         NEW l \in Level, q[l] # << >>
  PROVE  /\ [q EXCEPT ![l] = Tail(@)] \in [Level -> Seq(Proc)]
         /\ Head(q[l]) \in ready[l]
         /\ Exact([q EXCEPT ![l] = Tail(@)], [ready EXCEPT ![l] = @ \ {Head(q[l])}])
<1> DEFINE Q == [q EXCEPT ![l] = Tail(@)]
           R == [ready EXCEPT ![l] = @ \ {Head(q[l])}]
<1>1. /\ Q \in [Level -> Seq(Proc)] /\ q[l] \in Seq(Proc) /\ Len(q[l]) \in Nat \ {0}
      /\ Q[l] = Tail(q[l]) /\ \A m \in Level : m # l => Q[m] = q[m]
  OBVIOUS
<1>2. /\ Len(Q[l]) = Len(q[l]) - 1 /\ Head(q[l]) = q[l][1] /\ q[l][1] \in Proc
      /\ \A i \in 1..(Len(q[l]) - 1) : Q[l][i] = q[l][i + 1]
  BY <1>1
<1>3. /\ R[l] = ready[l] \ {q[l][1]} /\ \A m \in Level : m # l => R[m] = ready[m]
  BY <1>2
<1> HIDE DEF Q, R
<1>4. Head(q[l]) \in ready[l]
  <2>1. Holds(q, l, q[l][1]) BY <1>1 DEF Holds
  <2> QED BY <2>1, <1>2 DEF Exact
<1>5. ASSUME NEW m \in Level, NEW i \in 1..Len(Q[m]), NEW j \in 1..Len(Q[m]), Q[m][i] = Q[m][j]
      PROVE  i = j
  <2>1. CASE m # l BY <2>1, <1>1, <1>5 DEF Exact
  <2>2. CASE m = l
    <3>1. i + 1 \in 1..Len(q[l]) /\ j + 1 \in 1..Len(q[l]) /\ q[l][i + 1] = q[l][j + 1]
      BY <2>2, <1>1, <1>2, <1>5
    <3>2. i + 1 = j + 1 BY <3>1 DEF Exact
    <3> QED BY <3>2, <1>1
  <2> QED BY <2>1, <2>2
<1>6. ASSUME NEW r \in Proc, NEW m \in Level PROVE Holds(Q, m, r) <=> r \in R[m]
  <2>1. CASE m # l
    <3>1. Q[m] = q[m] /\ R[m] = ready[m] BY <2>1, <1>1, <1>3
    <3>2. Holds(Q, m, r) <=> Holds(q, m, r) BY <3>1 DEF Holds
    <3> QED BY <3>1, <3>2 DEF Exact
  <2>2. CASE m = l
    <3>1. ASSUME Holds(Q, l, r) PROVE r \in R[l]
      <4>1. PICK i \in 1..Len(Q[l]) : Q[l][i] = r BY <3>1 DEF Holds
      <4>2. i + 1 \in 1..Len(q[l]) /\ q[l][i + 1] = r /\ i + 1 # 1 BY <4>1, <1>1, <1>2
      <4>5. 1 \in 1..Len(q[l]) BY <4>2, <1>1
      <4>6. \A a, b \in 1..Len(q[l]) : q[l][a] = q[l][b] => a = b BY <1>1 DEF Exact
      <4>3. r # q[l][1] BY <4>2, <4>5, <4>6
      <4>4. Holds(q, l, r) BY <4>2 DEF Holds
      <4> QED BY <4>3, <4>4, <1>3 DEF Exact
    <3>2. ASSUME r \in R[l] PROVE Holds(Q, l, r)
      <4>1. PICK i \in 1..Len(q[l]) : q[l][i] = r BY <3>2, <1>3 DEF Exact, Holds
      <4>2. i # 1 BY <4>1, <3>2, <1>3
      <4>3. i - 1 \in 1..(Len(q[l]) - 1) /\ i - 1 + 1 = i BY <4>1, <4>2, <1>1
      <4>4. i - 1 \in 1..Len(Q[l]) /\ Q[l][i - 1] = r BY <4>1, <4>3, <1>2
      <4> QED BY <4>4 DEF Holds
    <3> QED BY <3>1, <3>2, <2>2
  <2> QED BY <2>1, <2>2
<1> QED BY Zenon, <1>1, <1>2, <1>4, <1>5, <1>6 DEF Exact, Q, R

\* The second part of RunQueueConsistent, in the terms of the two lemmas above.
LEMMA ConsistentExact ==
  TypeOK => /\ Ready \in [Level -> SUBSET Proc]
            /\ RunQueueConsistent <=> /\ Exact(runq, Ready)
                                      /\ \A p \in Proc : state[p] # "UNINIT" => rq[p] \in Level
BY DEF RunQueueConsistent, Exact, Ready, InQueue, Holds

\* What RR_enqueue makes of a time slice.
LEMMA SliceGranted ==
  ASSUME NEW s \in Nat, NEW l \in Level
  PROVE  EnqueueSlice(s, l) \in Nat /\ EnqueueSlice(s, l) > 0 /\ EnqueueSlice(s, l) <= max_time_slice[l]
BY SchedAssumption DEF EnqueueSlice

\* MLFQ_enqueue finds a queue for every process.
LEMMA LevelFound ==
  ASSUME TypeOK, NEW p \in Proc
  PROVE  EnqueueLevel(p) \in Level
<1> USE SchedAssumption
<1>1. rq[p] \in Level \cup {NoRq} BY DEF TypeOK
<1>2. CASE rq[p] = NoRq \/ time_slice[p] # 0 BY <1>2 DEF EnqueueLevel, Level
<1>3. CASE rq[p] # NoRq /\ time_slice[p] = 0
  <2>1. rq[p] \in 0..(NLevel - 1) BY <1>1, <1>3 DEF Level
  <2> QED BY <2>1, <1>3 DEF EnqueueLevel, Level
<1> QED BY <1>2, <1>3

LEMMA InitIInv == Init => IInv
<1> SUFFICES ASSUME Init PROVE IInv
  OBVIOUS
<1> USE SchedAssumption
<1>0. 0 \in Level BY DEF Level
<1>1. TypeOK
  <2>1. runq \in [Level -> Seq(Proc)]
    <3>1. <<Initproc>> \in Seq(Proc) /\ << >> \in Seq(Proc) OBVIOUS
    <3> QED BY <3>1 DEF Init
  <2>2. time_slice \in [Proc -> Nat] /\ rq \in [Proc -> Level \cup {NoRq}]
    BY <1>0 DEF Init
  <2>3. need_resched \in [Proc \cup {Idle} -> BOOLEAN] BY DEF Init
  <2>4. pc \in [Proc \cup {Idle} -> {"run", "schedule", "resume"}] BY DEF Init
  <2> QED BY Zenon, <2>1, <2>2, <2>3, <2>4 DEF Init, TypeOK
<1>2. \A l \in Level : runq[l] = IF l = 0 THEN <<Initproc>> ELSE << >> BY DEF Init
<1>3. \A p \in Proc : rq[p] = (IF p = Initproc THEN 0 ELSE NoRq) /\ p # current
                      /\ state[p] = IF p = Initproc THEN "RUNNABLE" ELSE "UNINIT"
  BY Zenon DEF Init
<1>4. RunQueueConsistent
  <2>1. ASSUME NEW l \in Level, NEW p \in Proc PROVE InQueue(p, l) <=> l = 0 /\ p = Initproc
    <3>1. CASE l = 0
      <4>1. runq[l] = <<Initproc>> /\ Len(runq[l]) = 1 BY <3>1, <1>2
      <4>2. 1 \in 1..Len(runq[l]) /\ \A i \in 1..Len(runq[l]) : runq[l][i] = Initproc BY <4>1
      <4> QED BY <3>1, <4>1, <4>2 DEF InQueue
    <3>2. CASE l # 0
      <4>1. Len(runq[l]) = 0 BY <3>2, <1>2
      <4> QED BY <3>2, <4>1 DEF InQueue
    <3> QED BY <3>1, <3>2
  <2>2. ASSUME NEW l \in Level, NEW i \in 1..Len(runq[l]), NEW j \in 1..Len(runq[l]) PROVE i = j
    <3>1. Len(runq[l]) = 0 \/ Len(runq[l]) = 1
      <4>1. CASE l = 0 BY <4>1, <1>2
      <4>2. CASE l # 0 BY <4>2, <1>2
      <4> QED BY <4>1, <4>2
    <3>2. CASE Len(runq[l]) = 0 BY <3>2
    <3>3. CASE Len(runq[l]) = 1
      <4>1. i = 1 BY <3>3
      <4>2. j = 1 BY <3>3
      <4> QED BY <4>1, <4>2
    <3> QED BY <3>1, <3>2, <3>3
  <2> QED BY <2>1, <2>2, <1>0, <1>3 DEF RunQueueConsistent
<1>5. SliceBounded
  <2>1. NoRq \notin Level BY DEF NoRq, Level
  <2>2. max_time_slice[0] \in Nat \ {0} BY <1>0
  <2>3. \A p \in Proc : time_slice[p] = IF p = Initproc THEN max_time_slice[0] ELSE 0 BY Zenon DEF Init
  <2>4. ASSUME NEW p \in Proc
        PROVE  /\ rq[p] \in Level => time_slice[p] <= max_time_slice[rq[p]]
               /\ state[p] = "RUNNABLE" /\ p # current => time_slice[p] > 0
    <3>1. CASE p = Initproc
      <4>1. rq[p] = 0 /\ time_slice[p] = max_time_slice[0] BY <3>1, <2>3, <1>3
      <4> QED BY <4>1, <2>2
    <3>2. CASE p # Initproc
      <4>1. rq[p] = NoRq /\ state[p] = "UNINIT" BY <3>2, <1>3
      <4> QED BY <4>1, <2>1
    <3> QED BY <3>1, <3>2
  <2> QED BY Zenon, <2>4, <1>3 DEF SliceBounded
<1>6. RunningIsAwake BY Zenon, <1>3 DEF RunningIsAwake, Init
<1>7. TimerOwnerWaits BY Zenon DEF TimerOwnerWaits, Init
<1> QED BY <1>1, <1>4, <1>5, <1>6, <1>7 DEF IInv

\* A process that becomes ready is appended to one queue.
LEMMA AddReady ==
  ASSUME IInv, NEW p \in Proc, NEW l \in Level, p # current, state[p] # "RUNNABLE",
         state' = [state EXCEPT ![p] = "RUNNABLE"], current' = current,
         runq' = [runq EXCEPT ![l] = Append(@, p)], rq' = [rq EXCEPT ![p] = l]
  PROVE  /\ runq' \in [Level -> Seq(Proc)] /\ rq' \in [Proc -> Level \cup {NoRq}]
         /\ state' \in [Proc -> {"UNINIT", "SLEEPING", "RUNNABLE", "ZOMBIE"}]
         /\ RunQueueConsistent'
<1>1. /\ TypeOK /\ runq \in [Level -> Seq(Proc)] /\ rq \in [Proc -> Level \cup {NoRq}]
      /\ state \in [Proc -> {"UNINIT", "SLEEPING", "RUNNABLE", "ZOMBIE"}]
  BY DEF IInv, TypeOK
<1>2. /\ Ready \in [Level -> SUBSET Proc] /\ Exact(runq, Ready)
      /\ \A r \in Proc : state[r] # "UNINIT" => rq[r] \in Level
  BY <1>1, ConsistentExact DEF IInv
<1>3. p \notin Ready[l] BY DEF Ready
<1>4. /\ runq' \in [Level -> Seq(Proc)]
      /\ Exact(runq', [Ready EXCEPT ![l] = @ \cup {p}])
  BY Zenon, <1>1, <1>2, <1>3, AppendExact
<1>5. Ready' = [Ready EXCEPT ![l] = @ \cup {p}]
  <2>1. ASSUME NEW m \in Level
        PROVE  {r \in Proc : state'[r] = "RUNNABLE" /\ r # current' /\ rq'[r] = m}
                 = IF m = l THEN Ready[m] \cup {p} ELSE Ready[m]
    BY <1>1 DEF Ready
  <2> QED BY Zenon, <2>1, <1>2 DEF Ready
<1>6. Exact(runq', Ready') BY <1>4, <1>5
<1>7. \A r \in Proc : state'[r] # "UNINIT" => rq'[r] \in Level BY <1>1, <1>2
<1>8. RunQueueConsistent'
  BY <1>6, <1>7 DEF RunQueueConsistent, Exact, Holds, InQueue, Ready
<1> QED BY <1>1, <1>4, <1>8

\* wakeup_proc keeps the invariant, whoever calls it.
LEMMA WakeupProcIInv ==
  ASSUME IInv, NEW p \in Proc, state[p] \in {"SLEEPING", "RUNNABLE"}, WakeupProc(p),
         UNCHANGED <<current, need_resched, pc>>, armed' \subseteq armed, irq' \in BOOLEAN
  PROVE  IInv'
<1>1. CASE state[p] = "RUNNABLE"
  <2>1. UNCHANGED <<state, wait_state, runq, rq, time_slice>> BY <1>1 DEF WakeupProc
  <2> QED BY <2>1 DEF IInv, TypeOK, RunQueueConsistent, InQueue, SliceBounded, RunningIsAwake, TimerOwnerWaits
<1>2. CASE state[p] = "SLEEPING"
  <2>1. /\ state' = [state EXCEPT ![p] = "RUNNABLE"]
        /\ wait_state' = [wait_state EXCEPT ![p] = "none"]
        /\ state \in [Proc -> {"UNINIT", "SLEEPING", "RUNNABLE", "ZOMBIE"}]
        /\ wait_state \in [Proc -> {"none", "kernel", "interrupted"}]
    BY <1>2 DEF WakeupProc, IInv, TypeOK
  <2>2. RunningIsAwake' BY <2>1 DEF IInv, RunningIsAwake
  <2>3. TimerOwnerWaits' BY <2>1 DEF IInv, TimerOwnerWaits, TypeOK
  <2>4. CASE p = current
    <3>1. UNCHANGED <<runq, rq, time_slice>> BY <1>2, <2>4 DEF WakeupProc
    <3>2. TypeOK' BY <2>1, <3>1 DEF IInv, TypeOK
    <3>3. RunQueueConsistent' BY <2>1, <2>4, <3>1, <1>2 DEF IInv, RunQueueConsistent, InQueue
    <3>4. SliceBounded' BY <2>1, <2>4, <3>1, <1>2 DEF IInv, SliceBounded
    <3> QED BY <2>2, <2>3, <3>2, <3>3, <3>4 DEF IInv
  <2>5. CASE p # current
    <3> DEFINE l == EnqueueLevel(p)
    <3>1. /\ l \in Level /\ runq' = [runq EXCEPT ![l] = Append(@, p)] /\ rq' = [rq EXCEPT ![p] = l]
          /\ time_slice' = [time_slice EXCEPT ![p] = EnqueueSlice(time_slice[p], l)]
      BY <1>2, <2>5, LevelFound DEF WakeupProc, Enqueue, IInv
    <3>2. time_slice \in [Proc -> Nat] /\ rq \in [Proc -> Level \cup {NoRq}] BY DEF IInv, TypeOK
    <3> HIDE DEF l
    <3>3. /\ EnqueueSlice(time_slice[p], l) \in Nat /\ EnqueueSlice(time_slice[p], l) > 0
          /\ EnqueueSlice(time_slice[p], l) <= max_time_slice[l]
      BY <3>1, <3>2, SliceGranted
    <3>4. /\ runq' \in [Level -> Seq(Proc)] /\ rq' \in [Proc -> Level \cup {NoRq}]
          /\ RunQueueConsistent'
      BY Zenon, <1>2, <2>1, <2>5, <3>1, AddReady
    <3>5. TypeOK' BY <2>1, <3>1, <3>2, <3>3, <3>4 DEF IInv, TypeOK
    <3>6. SliceBounded'
      <4> SUFFICES ASSUME NEW r \in Proc
                   PROVE  /\ rq'[r] \in Level => time_slice'[r] <= max_time_slice[rq'[r]]
                          /\ state'[r] = "RUNNABLE" /\ r # current' => time_slice'[r] > 0
                          /\ r = current' /\ time_slice'[r] = 0 => need_resched'[r]
        BY DEF SliceBounded
      <4>1. CASE r = p BY <4>1, <2>5, <3>1, <3>2, <3>3
      <4>2. CASE r # p
        <5>1. rq'[r] = rq[r] /\ time_slice'[r] = time_slice[r] /\ state'[r] = state[r]
          BY <4>2, <2>1, <3>1, <3>2
        <5> QED BY <5>1 DEF IInv, SliceBounded
      <4> QED BY <4>1, <4>2
    <3> QED BY <2>2, <2>3, <3>4, <3>5, <3>6 DEF IInv
  <2> QED BY <2>4, <2>5
<1> QED BY <1>1, <1>2

LEMMA TickIInv ==
  ASSUME IInv, TickBegin \/ (\E p \in Proc : TickFire(p)) \/ TickEnd
  PROVE  IInv'
<1>1. CASE TickBegin
  BY <1>1 DEF TickBegin, IInv, TypeOK, RunQueueConsistent, InQueue, SliceBounded, RunningIsAwake, TimerOwnerWaits
<1>2. ASSUME NEW p \in Proc, TickFire(p) PROVE IInv'
  <2>1. state[p] \in {"SLEEPING", "RUNNABLE"} BY <1>2 DEF TickFire, IInv, TimerOwnerWaits
  <2>2. irq' \in BOOLEAN BY <1>2 DEF TickFire, IInv, TypeOK
  <2> QED BY <1>2, <2>1, <2>2, WakeupProcIInv DEF TickFire
<1>3. CASE TickEnd
  <2>1. /\ UNCHANGED <<current, state, wait_state, runq, rq, pc, armed>> /\ irq' = FALSE
        /\ need_resched' = [need_resched EXCEPT
              ![current] = @ \/ current = Idle \/ time_slice[current] <= 1]
        /\ time_slice' = IF current # Idle /\ time_slice[current] > 0
                         THEN [time_slice EXCEPT ![current] = @ - 1] ELSE time_slice
    BY <1>3 DEF TickEnd, ProcTick
  <2>2. /\ time_slice \in [Proc -> Nat] /\ current \in Proc \cup {Idle}
        /\ need_resched \in [Proc \cup {Idle} -> BOOLEAN]
    BY DEF IInv, TypeOK
  <2>3. time_slice' \in [Proc -> Nat] BY <2>1, <2>2
  <2>4. need_resched' \in [Proc \cup {Idle} -> BOOLEAN]
    <3>1. \A b \in BOOLEAN : (b \/ current = Idle \/ time_slice[current] <= 1) \in BOOLEAN
      OBVIOUS
    <3> QED BY <2>1, <2>2, <3>1
  <2>5. TypeOK' BY Zenon, <2>1, <2>3, <2>4 DEF IInv, TypeOK
  <2>6. SliceBounded'
    <3> SUFFICES ASSUME NEW r \in Proc
                 PROVE  /\ rq[r] \in Level => time_slice'[r] <= max_time_slice[rq[r]]
                        /\ state[r] = "RUNNABLE" /\ r # current => time_slice'[r] > 0
                        /\ r = current /\ time_slice'[r] = 0 => need_resched'[r]
      BY <2>1 DEF SliceBounded
    <3>1. /\ rq[r] \in Level => time_slice[r] <= max_time_slice[rq[r]]
          /\ rq[r] \in Level => max_time_slice[rq[r]] \in Nat
          /\ state[r] = "RUNNABLE" /\ r # current => time_slice[r] > 0
          /\ r = current /\ time_slice[r] = 0 => need_resched[r]
      BY SchedAssumption DEF IInv, SliceBounded
    <3>2. CASE r # current
      <4>1. time_slice'[r] = time_slice[r] BY <3>2, <2>1, <2>2
      <4> QED BY <4>1, <3>1, <3>2
    <3>3. CASE r = current
      <4>1. r # Idle BY SchedAssumption
      <4>2. time_slice'[r] = IF time_slice[r] > 0 THEN time_slice[r] - 1 ELSE time_slice[r]
        BY <3>3, <4>1, <2>1, <2>2
      <4>3. need_resched'[r] <=> need_resched[r] \/ time_slice[r] <= 1
        BY Zenon, <3>3, <4>1, <2>1, <2>2
      <4>4. time_slice[r] \in Nat BY <2>2
      <4> QED BY <3>1, <3>3, <4>2, <4>3, <4>4
    <3> QED BY <3>2, <3>3
  <2> QED BY <2>1, <2>5, <2>6 DEF IInv, RunQueueConsistent, InQueue, RunningIsAwake, TimerOwnerWaits
<1> QED BY <1>1, <1>2, <1>3

LEMMA SleepIInv ==
  ASSUME IInv, NEW p \in Proc, NEW w \in {"kernel", "interrupted"}, NEW timed \in BOOLEAN, Sleep(p, w, timed)
  PROVE  IInv'
<1>1. /\ current = p /\ pc[p] = "run" /\ (w = "kernel" => ~timed)
      /\ state' = [state EXCEPT ![p] = "SLEEPING"] /\ wait_state' = [wait_state EXCEPT ![p] = w]
      /\ armed' = IF timed THEN armed \cup {p} ELSE armed
      /\ pc' = [pc EXCEPT ![p] = "schedule"]
      /\ UNCHANGED <<current, runq, rq, time_slice, need_resched, irq>>
  BY DEF Sleep, Running
<1>2. TypeOK /\ state[p] = "RUNNABLE" /\ p \notin armed
  BY <1>1 DEF IInv, RunningIsAwake, TimerOwnerWaits
<1>3. TypeOK' BY <1>1, <1>2 DEF TypeOK
<1>4. RunQueueConsistent' BY <1>1, <1>2 DEF IInv, TypeOK, RunQueueConsistent, InQueue
<1>5. SliceBounded' BY <1>1, <1>2 DEF IInv, TypeOK, SliceBounded
<1>6. RunningIsAwake' BY <1>1, <1>2 DEF IInv, TypeOK, RunningIsAwake
<1>7. TimerOwnerWaits' BY <1>1, <1>2 DEF IInv, TypeOK, TimerOwnerWaits
<1> QED BY <1>3, <1>4, <1>5, <1>6, <1>7 DEF IInv

LEMMA DoYieldIInv ==
  ASSUME IInv, NEW p \in Proc, DoYield(p)
  PROVE  IInv'
<1>1. TypeOK' BY DEF DoYield, IInv, TypeOK
<1>2. SliceBounded' BY DEF DoYield, IInv, TypeOK, SliceBounded
<1>3. UNCHANGED <<current, state, wait_state, runq, rq, pc, armed>> BY DEF DoYield
<1>4. RunQueueConsistent' BY <1>3 DEF IInv, RunQueueConsistent, InQueue
<1>5. RunningIsAwake' BY <1>3 DEF IInv, RunningIsAwake
<1>6. TimerOwnerWaits' BY <1>3 DEF IInv, TimerOwnerWaits
<1> QED BY <1>1, <1>2, <1>4, <1>5, <1>6 DEF IInv

LEMMA DoForkIInv ==
  ASSUME IInv, NEW p \in Proc, NEW child \in Proc, DoFork(p, child)
  PROVE  IInv'
<1> DEFINE half == time_slice[p] \div 2
<1>1. /\ current = p /\ pc[p] = "run" /\ state[child] = "UNINIT"
      /\ state' = [state EXCEPT ![child] = "RUNNABLE"]
      /\ runq' = [runq EXCEPT ![0] = Append(@, child)] /\ rq' = [rq EXCEPT ![child] = 0]
      /\ time_slice' = [time_slice EXCEPT ![p] = @ - half, ![child] = EnqueueSlice(half, 0)]
      /\ UNCHANGED <<current, wait_state, need_resched, pc, armed, irq>>
  BY DEF DoFork, Running
<1>2. /\ TypeOK /\ state[p] = "RUNNABLE" /\ child # p /\ child # current
      /\ time_slice \in [Proc -> Nat] /\ rq \in [Proc -> Level \cup {NoRq}]
      /\ state \in [Proc -> {"UNINIT", "SLEEPING", "RUNNABLE", "ZOMBIE"}]
  BY <1>1 DEF IInv, RunningIsAwake, TypeOK
<1>3. half \in Nat /\ time_slice[p] - half \in Nat /\ time_slice[p] - half <= time_slice[p]
      /\ (time_slice[p] - half = 0 => time_slice[p] = 0)
  BY <1>2
<1> HIDE DEF half
<1>4. 0 \in Level BY SchedAssumption DEF Level
<1>5. /\ EnqueueSlice(half, 0) \in Nat /\ EnqueueSlice(half, 0) > 0
      /\ EnqueueSlice(half, 0) <= max_time_slice[0]
  BY <1>3, <1>4, SliceGranted
<1>6. /\ runq' \in [Level -> Seq(Proc)] /\ rq' \in [Proc -> Level \cup {NoRq}]
      /\ state' \in [Proc -> {"UNINIT", "SLEEPING", "RUNNABLE", "ZOMBIE"}]
      /\ RunQueueConsistent'
  BY Zenon, <1>1, <1>2, <1>4, AddReady
<1>7. TypeOK' BY <1>1, <1>2, <1>3, <1>5, <1>6 DEF TypeOK
<1>8. SliceBounded'
  <2> SUFFICES ASSUME NEW r \in Proc
               PROVE  /\ rq'[r] \in Level => time_slice'[r] <= max_time_slice[rq'[r]]
                      /\ state'[r] = "RUNNABLE" /\ r # current => time_slice'[r] > 0
                      /\ r = current /\ time_slice'[r] = 0 => need_resched[r]
    BY Zenon, <1>1 DEF SliceBounded
  <2>1. /\ rq[r] \in Level => time_slice[r] <= max_time_slice[rq[r]] /\ max_time_slice[rq[r]] \in Nat
        /\ state[r] = "RUNNABLE" /\ r # current => time_slice[r] > 0
        /\ r = current /\ time_slice[r] = 0 => need_resched[r]
    BY SchedAssumption DEF IInv, SliceBounded
  <2>2. CASE r = child
    <3>1. rq'[r] = 0 /\ time_slice'[r] = EnqueueSlice(half, 0) BY <2>2, <1>1, <1>2
    <3> QED BY <2>2, <3>1, <1>2, <1>5
  <2>3. CASE r = p
    <3>1. rq'[r] = rq[r] /\ time_slice'[r] = time_slice[r] - half /\ time_slice[r] \in Nat
      BY <2>3, <1>1, <1>2
    <3> QED BY <2>1, <2>3, <3>1, <1>1, <1>3
  <2>4. CASE r # child /\ r # p
    <3>1. rq'[r] = rq[r] /\ time_slice'[r] = time_slice[r] /\ state'[r] = state[r]
      BY <2>4, <1>1, <1>2
    <3> QED BY <2>1, <3>1
  <2> QED BY <2>2, <2>3, <2>4
<1>9. RunningIsAwake' BY <1>1, <1>2 DEF IInv, RunningIsAwake
<1>10. TimerOwnerWaits' BY <1>1, <1>2 DEF IInv, TimerOwnerWaits, TypeOK
<1> QED BY <1>6, <1>7, <1>8, <1>9, <1>10 DEF IInv

LEMMA DoExitIInv ==
  ASSUME IInv, NEW p \in Proc, DoExit(p)
  PROVE  IInv'
<1>1. /\ current = p /\ pc[p] = "run"
      /\ state' = [state EXCEPT ![p] = "ZOMBIE"] /\ pc' = [pc EXCEPT ![p] = "schedule"]
      /\ UNCHANGED <<current, wait_state, runq, rq, time_slice, need_resched, armed, irq>>
  BY DEF DoExit, Running
<1>2. TypeOK /\ state[p] = "RUNNABLE" /\ p \notin armed
  BY <1>1 DEF IInv, RunningIsAwake, TimerOwnerWaits
<1>3. TypeOK' BY <1>1, <1>2 DEF TypeOK
<1>4. RunQueueConsistent' BY <1>1, <1>2 DEF IInv, TypeOK, RunQueueConsistent, InQueue
<1>5. SliceBounded' BY <1>1, <1>2 DEF IInv, TypeOK, SliceBounded
<1>6. RunningIsAwake' BY <1>1, <1>2 DEF IInv, TypeOK, RunningIsAwake
<1>7. TimerOwnerWaits' BY <1>1, <1>2 DEF IInv, TypeOK, TimerOwnerWaits
<1> QED BY <1>3, <1>4, <1>5, <1>6, <1>7 DEF IInv

LEMMA ReapIInv ==
  ASSUME IInv, NEW p \in Proc, NEW child \in Proc, Reap(p, child)
  PROVE  IInv'
<1>1. /\ current = p /\ pc[p] = "run" /\ state[child] = "ZOMBIE"
      /\ state' = [state EXCEPT ![child] = "UNINIT"] /\ rq' = [rq EXCEPT ![child] = NoRq]
      /\ time_slice' = [time_slice EXCEPT ![child] = 0]
      /\ UNCHANGED <<current, wait_state, runq, need_resched, pc, armed, irq>>
  BY DEF Reap, Running
<1>2. TypeOK /\ state[p] = "RUNNABLE" /\ child # p /\ child \notin armed /\ NoRq \notin Level
  BY <1>1, SchedAssumption DEF IInv, RunningIsAwake, TimerOwnerWaits, NoRq, Level
<1>3. TypeOK' BY <1>1, <1>2 DEF TypeOK
<1>4. RunQueueConsistent' BY <1>1, <1>2 DEF IInv, TypeOK, RunQueueConsistent, InQueue
<1>5. SliceBounded' BY <1>1, <1>2 DEF IInv, TypeOK, SliceBounded
<1>6. RunningIsAwake' BY <1>1, <1>2 DEF IInv, TypeOK, RunningIsAwake
<1>7. TimerOwnerWaits' BY <1>1, <1>2 DEF IInv, TypeOK, TimerOwnerWaits
<1> QED BY <1>3, <1>4, <1>5, <1>6, <1>7 DEF IInv

LEMMA ResumeIInv ==
  ASSUME IInv, Resume
  PROVE  IInv'
<1>1. /\ pc[current] = "resume" /\ pc' = [pc EXCEPT ![current] = "run"] /\ armed' = armed \ {current}
      /\ UNCHANGED <<current, state, wait_state, runq, rq, time_slice, need_resched, irq>>
  BY DEF Resume
<1>2. TypeOK BY DEF IInv
<1>3. TypeOK' BY <1>1, <1>2 DEF TypeOK
<1>4. RunningIsAwake' BY <1>1, <1>2 DEF IInv, TypeOK, RunningIsAwake
<1>5. TimerOwnerWaits' BY <1>1, <1>2 DEF IInv, TypeOK, TimerOwnerWaits
<1> QED BY <1>1, <1>3, <1>4, <1>5 DEF IInv, RunQueueConsistent, InQueue, SliceBounded

\* All processes that are ready when schedule() searches the queues.
Runnable == [l \in Level |-> {p \in Proc : state[p] = "RUNNABLE" /\ rq'[p] = l}]

\* schedule() takes the process it picks, and nothing else, out of the queues.
LEMMA PickNextExact ==
  ASSUME NEW q \in [Level -> Seq(Proc)], Exact(q, Runnable), PickNext(q), state' = state
  PROVE  /\ runq' \in [Level -> Seq(Proc)] /\ current' \in Proc \cup {Idle}
         /\ Exact(runq', Ready')
         /\ current' \in Proc => state[current'] = "RUNNABLE"
<1>0. Runnable \in [Level -> SUBSET Proc] BY DEF Runnable
<1>1. CASE current' = Idle /\ runq' = q
  <2>1. Ready' = Runnable BY <1>1, SchedAssumption DEF Ready, Runnable
  <2> QED BY <1>1, <2>1, SchedAssumption
<1>2. ASSUME NEW l \in Level, q[l] # << >>, current' = Head(q[l]), runq' = [q EXCEPT ![l] = Tail(@)]
      PROVE  /\ runq' \in [Level -> Seq(Proc)] /\ current' \in Proc \cup {Idle}
             /\ Exact(runq', Ready')
             /\ current' \in Proc => state[current'] = "RUNNABLE"
  <2>1. /\ runq' \in [Level -> Seq(Proc)] /\ current' \in Runnable[l]
        /\ Exact(runq', [Runnable EXCEPT ![l] = @ \ {current'}])
    BY Zenon, <1>0, <1>2, TailExact
  <2>2. current' \in Proc /\ state[current'] = "RUNNABLE" /\ rq'[current'] = l
    BY <2>1 DEF Runnable
  <2>3. Ready' = [Runnable EXCEPT ![l] = @ \ {current'}]
    <3>1. ASSUME NEW m \in Level
          PROVE  {r \in Proc : state'[r] = "RUNNABLE" /\ r # current' /\ rq'[r] = m}
                   = IF m = l THEN Runnable[m] \ {current'} ELSE Runnable[m]
      BY <2>2 DEF Runnable
    <3> QED BY Zenon, <3>1, <1>0 DEF Ready
  <2> QED BY <2>1, <2>2, <2>3
<1> QED BY <1>1, <1>2 DEF PickNext

LEMMA ScheduleIInv ==
  ASSUME IInv, Schedule
  PROVE  IInv'
<1> DEFINE requeue == current # Idle /\ state[current] = "RUNNABLE"
           l == EnqueueLevel(current)
           Q == IF requeue THEN [runq EXCEPT ![l] = Append(@, current)] ELSE runq
<1>1. /\ need_resched' = [need_resched EXCEPT ![current] = FALSE]
      /\ pc' = [pc EXCEPT ![current] = "resume"] /\ UNCHANGED <<state, wait_state, armed, irq>>
  BY DEF Schedule
<1>2. PickNext(Q) /\ (~requeue => UNCHANGED <<rq, time_slice>>)
  BY DEF Schedule
<1>3. requeue => /\ rq' = [rq EXCEPT ![current] = l]
                 /\ time_slice' = [time_slice EXCEPT ![current] = EnqueueSlice(time_slice[current], l)]
  BY DEF Schedule
<1>4. /\ TypeOK /\ runq \in [Level -> Seq(Proc)] /\ rq \in [Proc -> Level \cup {NoRq}]
      /\ time_slice \in [Proc -> Nat] /\ current \in Proc \cup {Idle}
      /\ Ready \in [Level -> SUBSET Proc] /\ Exact(runq, Ready)
      /\ \A r \in Proc : state[r] # "UNINIT" => rq[r] \in Level
  BY ConsistentExact DEF IInv, TypeOK
<1>5. requeue => current \in Proc /\ l \in Level BY <1>4, LevelFound
<1> HIDE DEF l
<1>6. Q \in [Level -> Seq(Proc)] /\ Exact(Q, Runnable)
  <2>1. CASE requeue
    <3>1. current \notin Ready[l] BY <2>1, <1>5 DEF Ready
    <3>2. /\ Q = [runq EXCEPT ![l] = Append(@, current)] /\ current \in Proc /\ l \in Level BY <2>1, <1>5
    <3> HIDE DEF Q, requeue
    <3>3. Q \in [Level -> Seq(Proc)] /\ Exact(Q, [Ready EXCEPT ![l] = @ \cup {current}])
      BY Zenon, <3>1, <3>2, <1>4, AppendExact
    <3>4. Runnable = [Ready EXCEPT ![l] = @ \cup {current}]
      <4>1. ASSUME NEW m \in Level
            PROVE  {r \in Proc : state[r] = "RUNNABLE" /\ rq'[r] = m}
                     = IF m = l THEN Ready[m] \cup {current} ELSE Ready[m]
        BY <2>1, <3>2, <1>3, <1>4 DEF Ready, requeue
      <4> QED BY Zenon, <4>1, <1>4 DEF Runnable
    <3> QED BY <3>3, <3>4
  <2>2. CASE ~requeue
    <3>1. Runnable = Ready BY <2>2, <1>2, <1>4, SchedAssumption DEF Runnable, Ready
    <3> QED BY <2>2, <3>1, <1>4
  <2> QED BY <2>1, <2>2
<1> HIDE DEF Q
<1>7. /\ runq' \in [Level -> Seq(Proc)] /\ current' \in Proc \cup {Idle}
      /\ Exact(runq', Ready') /\ (current' \in Proc => state[current'] = "RUNNABLE")
  BY <1>1, <1>2, <1>6, PickNextExact
\* Every process that may be picked has a slice that its queue grants.
<1>8. /\ rq' \in [Proc -> Level \cup {NoRq}] /\ time_slice' \in [Proc -> Nat]
      /\ \A r \in Proc : /\ state[r] # "UNINIT" => rq'[r] \in Level
                         /\ rq'[r] \in Level => time_slice'[r] <= max_time_slice[rq'[r]]
                         /\ state[r] = "RUNNABLE" => time_slice'[r] > 0
  <2>1. CASE requeue
    <3>1. /\ EnqueueSlice(time_slice[current], l) \in Nat /\ EnqueueSlice(time_slice[current], l) > 0
          /\ EnqueueSlice(time_slice[current], l) <= max_time_slice[l]
      BY <2>1, <1>4, <1>5, SliceGranted
    <3>2. rq' \in [Proc -> Level \cup {NoRq}] /\ time_slice' \in [Proc -> Nat]
      BY <2>1, <3>1, <1>3, <1>4, <1>5
    <3>3. ASSUME NEW r \in Proc
          PROVE  /\ state[r] # "UNINIT" => rq'[r] \in Level
                 /\ rq'[r] \in Level => time_slice'[r] <= max_time_slice[rq'[r]]
                 /\ state[r] = "RUNNABLE" => time_slice'[r] > 0
      <4>1. CASE r = current
        <5>1. rq'[r] = l /\ time_slice'[r] = EnqueueSlice(time_slice[current], l)
          BY <4>1, <2>1, <1>3, <1>4, <1>5
        <5> QED BY <5>1, <3>1, <2>1, <1>5
      <4>2. CASE r # current
        <5>1. rq'[r] = rq[r] /\ time_slice'[r] = time_slice[r]
          BY <4>2, <2>1, <1>3, <1>4, <1>5
        <5> QED BY <4>2, <5>1, <1>4 DEF IInv, SliceBounded
      <4> QED BY <4>1, <4>2
    <3> QED BY <3>2, <3>3
  <2>2. CASE ~requeue
    <3>1. rq' = rq /\ time_slice' = time_slice BY <2>2, <1>2
    <3>2. \A r \in Proc : state[r] = "RUNNABLE" => r # current BY <2>2, SchedAssumption
    <3> QED BY <3>1, <3>2, <1>4 DEF IInv, SliceBounded
  <2> QED BY <2>1, <2>2
<1>9. TypeOK' BY <1>1, <1>4, <1>7, <1>8 DEF TypeOK
<1>10. RunQueueConsistent'
  BY <1>1, <1>7, <1>8 DEF RunQueueConsistent, Exact, Holds, InQueue, Ready
<1>11. SliceBounded'
  <2>1. ASSUME NEW r \in Proc PROVE r = current' => time_slice'[r] > 0 BY <1>7, <1>8
  <2> QED BY <2>1, <1>1, <1>8 DEF SliceBounded
<1>12. RunningIsAwake' BY <1>1, <1>7 DEF IInv, RunningIsAwake
<1>13. TimerOwnerWaits' BY <1>1, <1>4 DEF IInv, TimerOwnerWaits, TypeOK
<1> QED BY <1>9, <1>10, <1>11, <1>12, <1>13 DEF IInv

LEMMA NextIInv == IInv /\ [Next]_vars => IInv'
<1> SUFFICES ASSUME IInv, [Next]_vars PROVE IInv'
  OBVIOUS
<1>1. CASE TickBegin \/ (\E p \in Proc : TickFire(p)) \/ TickEnd BY <1>1, TickIInv
<1>2. ASSUME NEW p \in Proc, NEW w \in {"kernel", "interrupted"}, NEW timed \in BOOLEAN, Sleep(p, w, timed)
      PROVE  IInv'
  BY <1>2, SleepIInv
<1>3. ASSUME NEW p \in Proc, Wakeup(p) PROVE IInv'
  <2>1. irq' \in BOOLEAN BY <1>3 DEF Wakeup, IInv, TypeOK
  <2> QED BY <1>3, <2>1, WakeupProcIInv DEF Wakeup
<1>4. ASSUME NEW p \in Proc, DoYield(p) PROVE IInv' BY <1>4, DoYieldIInv
<1>5. ASSUME NEW p \in Proc, NEW child \in Proc, DoFork(p, child) PROVE IInv' BY <1>5, DoForkIInv
<1>6. ASSUME NEW p \in Proc, DoExit(p) PROVE IInv' BY <1>6, DoExitIInv
<1>7. ASSUME NEW p \in Proc, NEW child \in Proc, Reap(p, child) PROVE IInv' BY <1>7, ReapIInv
<1>8. CASE Schedule BY <1>8, ScheduleIInv
<1>9. CASE Resume BY <1>9, ResumeIInv
<1>10. CASE UNCHANGED vars
  <2>1. TypeOK' BY <1>10 DEF vars, IInv, TypeOK
  <2>2. RunQueueConsistent' BY <1>10 DEF vars, IInv, RunQueueConsistent, InQueue
  <2>3. SliceBounded' BY <1>10 DEF vars, IInv, SliceBounded
  <2>4. RunningIsAwake' /\ TimerOwnerWaits' BY <1>10 DEF vars, IInv, RunningIsAwake, TimerOwnerWaits
  <2> QED BY <2>1, <2>2, <2>3, <2>4 DEF IInv
<1> QED BY <1>1, <1>2, <1>3, <1>4, <1>5, <1>6, <1>7, <1>8, <1>9, <1>10 DEF Next

THEOREM Inductive == Spec => []IInv
BY InitIInv, NextIInv, PTL DEF Spec

\* The run queues hold exactly the ready processes, each once, in every reachable
\* state: the assertions on run_link and rq in the enqueue and dequeue functions hold.
THEOREM QueuesConsistent == Spec => []RunQueueConsistent
<1>1. IInv => RunQueueConsistent BY DEF IInv
<1> QED BY <1>1, Inductive, PTL

\* No process runs on an exhausted slice unasked, or with more than its queue grants.
THEOREM SlicesBounded == Spec => []SliceBounded
<1>1. IInv => SliceBounded BY DEF IInv
<1> QED BY <1>1, Inductive, PTL

\* No sleeping process runs, and a running one waits for nothing.
THEOREM RunsAwake == Spec => []RunningIsAwake
<1>1. IInv => RunningIsAwake BY DEF IInv
<1> QED BY <1>1, Inductive, PTL

\* A pending timer belongs to a process in an interruptible wait, or just woken,
\* that has not left the function that armed it.
THEOREM TimersOwned == Spec => []TimerOwnerWaits
<1>1. IInv => TimerOwnerWaits BY DEF IInv
<1> QED BY <1>1, Inductive, PTL

=============================================================================
