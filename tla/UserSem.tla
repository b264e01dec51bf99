------------------------------- MODULE UserSem -------------------------------
(***************************************************************************)
(* User semaphores: sync/sem.c (ipc_sem_init, post, wait, free, get_value)  *)
(* with the lists of references to them (sem_queue, sem_undo), which fork   *)
(* shares or copies and exit drops (copy_sem, put_sem_queue).               *)
(*                                                                         *)
(* The kernel is not preemptive, so a system call is atomic up to the       *)
(* places where it sleeps: in __down, and in a kmalloc that waits for       *)
(* memory.  The second kind matters in dup_sem_queue only, which runs with  *)
(* the semaphore of the old sem_queue taken: the other calls on that queue  *)
(* wait for it, those of other processes go on.                             *)
(***************************************************************************)
EXTENDS ProcConst, WaitQueue, FiniteSets

CONSTANTS Sem,         \* addresses of user semaphores
          SemQueue,    \* addresses of sem_queue_t
          MaxValue,    \* bound on the value of a semaphore
          NoSem, NoQueue

ASSUME UsemAssumption == /\ NoSem \notin Sem /\ NoQueue \notin SemQueue
                         /\ IsFiniteSet(Proc) /\ IsFiniteSet(SemQueue)

VARIABLES value, valid, count,  \* the fields of each semaphore; count is 0 when it is not allocated
          sem_waiters,          \* its wait_queue, each a process
          semu_list,            \* the semaphores a sem_queue refers to (one sem_undo_t each)
          sq_count,             \* the processes that share a sem_queue
          sem_queue,            \* the sem_queue of each process, NoQueue for a free slot
          sem_state,            \* "RUNNABLE" or "SLEEPING" (with wait_state WT_USEM)
          waits_for,            \* the semaphore whose __down the process is in, or NoSem
          sem_flags,            \* wakeup_flags of the wait_t of that call: WT_INTERRUPTED until up() sets it
          dup,                  \* the copy of a sem_queue that a fork is making
          panicked              \* an assertion has failed; nothing happens after it

sems  == <<value, valid, count, sem_waiters>>
lists == <<semu_list, sq_count, sem_queue>>
procs == <<sem_state, waits_for, sem_flags>>
usemVars == <<sems, lists, procs, dup, panicked>>

NoDup == [to |-> NoQueue, todo |-> {}, pending |-> NoSem]

\* One process with an empty sem_queue, as load_icode's caller has made it.
UsemInit ==
  \E p \in Proc, q \in SemQueue :
    /\ value = [s \in Sem |-> 0]
    /\ valid = [s \in Sem |-> FALSE]
    /\ count = [s \in Sem |-> 0]
    /\ sem_waiters = [s \in Sem |-> << >>]
    /\ semu_list = [x \in SemQueue |-> {}]
    /\ sq_count = [x \in SemQueue |-> IF x = q THEN 1 ELSE 0]
    /\ sem_queue = [x \in Proc |-> IF x = p THEN q ELSE NoQueue]
    /\ sem_state = [x \in Proc |-> "RUNNABLE"]
    /\ waits_for = [x \in Proc |-> NoSem]
    /\ sem_flags = [x \in Proc |-> "WT_INTERRUPTED"]
    /\ dup = [x \in Proc |-> NoDup]
    /\ panicked = FALSE

\* The sem_queue's own semaphore is taken by a fork that copies the queue.
Locked(q) == \E p \in Proc : sem_queue[p] = q /\ dup[p] # NoDup

\* Process p runs and is in no system call: it may make one.
MayCall(p) ==
  /\ ~panicked
  /\ sem_queue[p] # NoQueue
  /\ waits_for[p] = NoSem
  /\ dup[p] = NoDup

FreeQueue(q) == sq_count[q] = 0 /\ \A p \in Proc : dup[p].to # q

\* semu_create of a new semaphore: kmalloc, sem_init and the first reference.
SemuCreate(s, v) ==
  /\ count[s] = 0
  /\ value' = [value EXCEPT ![s] = v]
  /\ valid' = [valid EXCEPT ![s] = TRUE]
  /\ count' = [count EXCEPT ![s] = 1]

\* The counts after semu_destroy of one reference to each member of S; a semaphore
\* with none left is freed.
Unref(S) == [s \in Sem |-> IF s \in S THEN count[s] - 1 ELSE count[s]]

\* wakeup_queue with del set unlinks and wakes every waiter; the flags of their
\* wait_t stay WT_INTERRUPTED.
WakeupQueue(s) ==
  /\ sem_waiters' = [sem_waiters EXCEPT ![s] = << >>]
  /\ sem_state' = [p \in Proc |-> IF Linked(p, sem_waiters[s]) THEN "RUNNABLE" ELSE sem_state[p]]

\* ipc_sem_init
SemInit(p, s, v) ==
  /\ MayCall(p) /\ ~Locked(sem_queue[p])
  /\ SemuCreate(s, v)
  /\ semu_list' = [semu_list EXCEPT ![sem_queue[p]] = @ \cup {s}]
  /\ UNCHANGED <<sem_waiters, sq_count, sem_queue, procs, dup, panicked>>

\* A system call of p searches semu_list for s, under the sem_queue's semaphore.
MaySearch(p, s) ==
  /\ MayCall(p) /\ ~Locked(sem_queue[p])
  /\ s \in semu_list[sem_queue[p]]

\* Any of the calls finds, in semu_list_search, a semaphore that ipc_sem_free has
\* invalidated: the reference is destroyed and the call returns -E_INVAL.
SearchFindsFreed(p, s) ==
  /\ MaySearch(p, s) /\ ~valid[s]
  /\ semu_list' = [semu_list EXCEPT ![sem_queue[p]] = @ \ {s}]
  /\ count' = Unref({s})
  /\ UNCHANGED <<value, valid, sem_waiters, sq_count, sem_queue, procs, dup, panicked>>

\* ipc_sem_post: __up increments the value, or hands the unit to the first waiter.
\* A waiter that a timer or a signal has already woken still is in the queue
\* until it runs; its wait_state is 0 then, and the assertion in __up fails.
SemPost(p, s) ==
  /\ MaySearch(p, s) /\ valid[s]
  /\ \/ /\ sem_waiters[s] = << >>
        /\ value[s] < MaxValue
        /\ value' = [value EXCEPT ![s] = @ + 1]
        /\ UNCHANGED <<sem_waiters, sem_state, sem_flags, panicked>>
     \/ /\ sem_waiters[s] # << >>
        /\ sem_state[Head(sem_waiters[s])] = "SLEEPING"
        /\ sem_waiters' = [sem_waiters EXCEPT ![s] = Tail(@)]
        /\ sem_state' = [sem_state EXCEPT ![Head(sem_waiters[s])] = "RUNNABLE"]
        /\ sem_flags' = [sem_flags EXCEPT ![Head(sem_waiters[s])] = "WT_USEM"]
        /\ UNCHANGED <<value, panicked>>
     \/ /\ sem_waiters[s] # << >>
        /\ sem_state[Head(sem_waiters[s])] # "SLEEPING"
        /\ panicked' = TRUE
        /\ UNCHANGED <<value, sem_waiters, sem_state, sem_flags>>
  /\ UNCHANGED <<valid, count, lists, waits_for, dup>>

\* ipc_sem_wait up to the schedule() in __down.
SemWait(p, s) ==
  /\ MaySearch(p, s) /\ valid[s]
  /\ IF value[s] > 0
     THEN /\ value' = [value EXCEPT ![s] = @ - 1]
          /\ UNCHANGED <<sem_waiters, procs>>
     ELSE /\ sem_waiters' = [sem_waiters EXCEPT ![s] = Append(@, p)]
          /\ sem_state' = [sem_state EXCEPT ![p] = "SLEEPING"]
          /\ waits_for' = [waits_for EXCEPT ![p] = s]
          /\ sem_flags' = [sem_flags EXCEPT ![p] = "WT_INTERRUPTED"]
          /\ UNCHANGED value
  /\ UNCHANGED <<valid, count, lists, dup, panicked>>

\* The timer of the call expires, or do_kill wakes the process (WT_USEM is an
\* interruptible wait): wakeup_proc.  On a process already awake it does nothing.
SemInterrupt(p) ==
  /\ ~panicked
  /\ sem_state[p] = "SLEEPING"
  /\ sem_state' = [sem_state EXCEPT ![p] = "RUNNABLE"]
  /\ UNCHANGED <<sems, lists, waits_for, sem_flags, dup, panicked>>

\* __down after its schedule(): the wait_t is unlinked if it still is in the queue.
WaitReturn(p) ==
  /\ ~panicked
  /\ waits_for[p] # NoSem
  /\ sem_state[p] = "RUNNABLE"
  /\ sem_waiters' = [sem_waiters EXCEPT ![waits_for[p]] = WaitQueueDel(@, p)]
  /\ waits_for' = [waits_for EXCEPT ![p] = NoSem]
  /\ UNCHANGED <<value, valid, count, lists, sem_state, sem_flags, dup, panicked>>

\* Mutant: only the first waiter of a freed semaphore is woken.
SemFreeWakesOne(p, s) ==
  /\ MaySearch(p, s) /\ valid[s]
  /\ valid' = [valid EXCEPT ![s] = FALSE]
  /\ sem_waiters' = [sem_waiters EXCEPT ![s] = << >>]
  /\ sem_state' = [x \in Proc |-> IF sem_waiters[s] # << >> /\ x = Head(sem_waiters[s])
                              THEN "RUNNABLE" ELSE sem_state[x]]
  /\ UNCHANGED <<value, count, lists, waits_for, sem_flags, dup, panicked>>

\* ipc_sem_free
SemFree(p, s) ==
  /\ MaySearch(p, s) /\ valid[s]
  /\ valid' = [valid EXCEPT ![s] = FALSE]
  /\ WakeupQueue(s)
  /\ UNCHANGED <<value, count, lists, waits_for, sem_flags, dup, panicked>>

\* fork with CLONE_SEM: the child c shares the sem_queue.
CloneSem(p, c) ==
  /\ MayCall(p) /\ sem_queue[c] = NoQueue
  /\ sem_queue' = [sem_queue EXCEPT ![c] = sem_queue[p]]
  /\ sq_count' = [sq_count EXCEPT ![sem_queue[p]] = @ + 1]
  /\ UNCHANGED <<sems, semu_list, procs, dup, panicked>>

\* fork without it: copy_sem creates a sem_queue and starts to copy the list.
DupBegin(p, q) ==
  /\ MayCall(p) /\ ~Locked(sem_queue[p])
  /\ FreeQueue(q)
  /\ dup' = [dup EXCEPT ![p] = [to |-> q, todo |-> semu_list[sem_queue[p]], pending |-> NoSem]]
  /\ UNCHANGED <<sems, lists, procs, panicked>>

\* dup_sem_queue looks at the next reference: one to a freed semaphore is skipped,
\* for another it goes on to kmalloc.
DupCheck(p, s) ==
  /\ ~panicked
  /\ dup[p] # NoDup /\ dup[p].pending = NoSem
  /\ s \in dup[p].todo
  /\ dup' = [dup EXCEPT ![p] =
       [to |-> @.to, todo |-> @.todo \ {s}, pending |-> IF valid[s] THEN s ELSE NoSem]]
  /\ UNCHANGED <<sems, lists, procs, panicked>>

\* Mutant: the copied reference is not counted.
DupAddUncounted(p) ==
  /\ ~panicked
  /\ dup[p].pending # NoSem
  /\ semu_list' = [semu_list EXCEPT ![dup[p].to] = @ \cup {dup[p].pending}]
  /\ dup' = [dup EXCEPT ![p] = [to |-> @.to, todo |-> @.todo, pending |-> NoSem]]
  /\ UNCHANGED <<sems, sq_count, sem_queue, procs, panicked>>

\* kmalloc in semu_create has returned: the semaphore is counted and listed.
DupAdd(p) ==
  /\ ~panicked
  /\ dup[p].pending # NoSem
  /\ count' = [count EXCEPT ![dup[p].pending] = @ + 1]
  /\ semu_list' = [semu_list EXCEPT ![dup[p].to] = @ \cup {dup[p].pending}]
  /\ dup' = [dup EXCEPT ![p] = [to |-> @.to, todo |-> @.todo, pending |-> NoSem]]
  /\ UNCHANGED <<value, valid, sem_waiters, sq_count, sem_queue, procs, panicked>>

\* The list is copied and the child c has it.
DupDone(p, c) ==
  /\ ~panicked
  /\ dup[p] # NoDup /\ dup[p].todo = {} /\ dup[p].pending = NoSem
  /\ sem_queue[c] = NoQueue
  /\ sem_queue' = [sem_queue EXCEPT ![c] = dup[p].to]
  /\ sq_count' = [sq_count EXCEPT ![dup[p].to] = 1]
  /\ dup' = [dup EXCEPT ![p] = NoDup]
  /\ UNCHANGED <<sems, semu_list, procs, panicked>>

\* exit_sem_queue: every reference of q is destroyed.
ExitSemQueue(q) ==
  /\ count' = Unref(semu_list[q])
  /\ semu_list' = [semu_list EXCEPT ![q] = {}]

\* kmalloc fails in dup_sem_queue, or a later step of do_fork does: what was
\* copied is dropped.
DupFail(p) ==
  /\ ~panicked
  /\ dup[p] # NoDup
  /\ ExitSemQueue(dup[p].to)
  /\ dup' = [dup EXCEPT ![p] = NoDup]
  /\ UNCHANGED <<value, valid, sem_waiters, sq_count, sem_queue, procs, panicked>>

\* put_sem_queue in __do_exit: the last process of a sem_queue destroys it.
SemExit(p) ==
  /\ MayCall(p)
  /\ sem_queue' = [sem_queue EXCEPT ![p] = NoQueue]
  /\ sq_count' = [sq_count EXCEPT ![sem_queue[p]] = @ - 1]
  /\ IF sq_count[sem_queue[p]] = 1
     THEN ExitSemQueue(sem_queue[p])
     ELSE UNCHANGED <<count, semu_list>>
  /\ UNCHANGED <<value, valid, sem_waiters, procs, dup, panicked>>

\* do_execve: the process drops its sem_queue and gets a new, empty one.
SemExec(p, q) ==
  /\ MayCall(p) /\ FreeQueue(q)
  /\ sem_queue' = [sem_queue EXCEPT ![p] = q]
  /\ sq_count' = [sq_count EXCEPT ![sem_queue[p]] = @ - 1, ![q] = 1]
  /\ IF sq_count[sem_queue[p]] = 1
     THEN ExitSemQueue(sem_queue[p])
     ELSE UNCHANGED <<count, semu_list>>
  /\ UNCHANGED <<value, valid, sem_waiters, procs, dup, panicked>>

UsemNext ==
  \/ \E p \in Proc, s \in Sem :
       \/ \E v \in 0..1 : SemInit(p, s, v)
       \/ SemPost(p, s) \/ SemWait(p, s) \/ SemFree(p, s) \/ SearchFindsFreed(p, s)
       \/ DupCheck(p, s)
  \/ \E p \in Proc : SemInterrupt(p) \/ WaitReturn(p) \/ DupAdd(p) \/ DupFail(p) \/ SemExit(p)
  \/ \E p \in Proc, c \in Proc : CloneSem(p, c) \/ DupDone(p, c)
  \/ \E p \in Proc, q \in SemQueue : DupBegin(p, q) \/ SemExec(p, q)

UsemSpec == UsemInit /\ [][UsemNext]_usemVars
-----------------------------------------------------------------------------
\* The counts are exact: a semaphore is freed (count 0) exactly when the last list
\* that refers to it drops it, over shared, copied, half-copied and abandoned lists;
\* and dup_sem_queue, which sleeps between looking at a reference and counting it,
\* never counts a semaphore that has been freed meanwhile.
CountsExact ==
  /\ \A s \in Sem : count[s] = Cardinality({q \in SemQueue : s \in semu_list[q]})
  /\ \A q \in SemQueue : sq_count[q] = Cardinality({p \in Proc : sem_queue[p] = q})
  /\ \A p \in Proc : \A s \in dup[p].todo \cup ({dup[p].pending} \ {NoSem}) : count[s] > 0

\* No process is left behind: whoever sleeps in ipc_sem_wait is queued, once, on an
\* allocated and valid semaphore that its own sem_queue refers to, so that a post or
\* ipc_sem_free can wake it, whatever its threads and relatives free meanwhile.  And
\* a wait_t (it lives on the stack of __down) is in a queue only during its call, never
\* in that of a freed semaphore, and not any more once up() has given it a unit.
SleeperReachable ==
  /\ \A p \in Proc : sem_state[p] = "SLEEPING" =>
       LET s == waits_for[p] IN
         /\ s # NoSem
         /\ count[s] > 0 /\ valid[s] /\ s \in semu_list[sem_queue[p]]
         /\ Cardinality({i \in DOMAIN sem_waiters[s] : sem_waiters[s][i] = p}) = 1
  /\ \A s \in Sem, p \in Proc : Linked(p, sem_waiters[s]) =>
       waits_for[p] = s /\ count[s] > 0 /\ sem_flags[p] = "WT_INTERRUPTED"

\* The waiter __up finds first in the queue sleeps in the state WT_USEM: the assertion
\* assert(wait->proc->wait_state == wait_state) of __up never fails.
UpFindsSleeper == ~panicked
=============================================================================
