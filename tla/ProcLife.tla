------------------------------ MODULE ProcLife ------------------------------
(***************************************************************************)
(* The life of processes (process/proc.c): fork, threads and their groups,  *)
(* exit, kill, wait, exec as far as it leaves the thread group, and         *)
(* init_main's loop, which reaps the orphans until all have gone.           *)
(*                                                                         *)
(* One processor, and a kernel that is not preemptive: a system call is     *)
(* atomic up to the points where it sleeps, and ends in trap() with         *)
(* may_killed() and then, if a reschedule is due, schedule().  A pid is the *)
(* slot of its process, so that a slot used again is a pid used again.      *)
(***************************************************************************)
EXTENDS Integers, FiniteSets

CONSTANTS User,             \* slots for user processes
          Initproc, Kswapd,
          AnyPid            \* the pid 0 of do_wait

ASSUME ProcLifeAssumption ==
  /\ Initproc # Kswapd /\ Initproc \notin User /\ Kswapd \notin User
  /\ AnyPid \notin User
  /\ IsFiniteSet(User)

Proc == User \cup {Initproc, Kswapd}

VARIABLES state,            \* "NONE" for a free slot, RUNNABLE, SLEEPING (WT_CHILD) or ZOMBIE
          parent,
          thread_group,     \* the set of the processes in the thread group of each
          exiting,          \* PF_EXITING
          target,           \* the pid do_wait was called with
          pc                \* "user" in user mode; "ret" in the schedule() at the end of trap();
                            \* "fork" in do_fork, past alloc_proc; "wait" in do_wait's schedule();
                            \* "dying" in __do_exit; "end" past the loop of init_main

vars == <<state, parent, thread_group, exiting, target, pc>>

\* init_main has created kswapd and user_main.
Init ==
  \E u \in User :
    /\ state = [p \in Proc |-> IF p \in User \ {u} THEN "NONE" ELSE "RUNNABLE"]
    /\ parent = [p \in Proc |-> Initproc]
    /\ thread_group = [p \in Proc |-> {p}]
    /\ exiting = [p \in Proc |-> FALSE]
    /\ target = [p \in Proc |-> AnyPid]
    /\ pc = [p \in Proc |-> IF p = Initproc THEN "wait" ELSE "ret"]

Alive(p)  == state[p] \notin {"NONE", "ZOMBIE"}
Exists(p) == state[p] # "NONE"
nr_process == Cardinality({p \in Proc : Exists(p)})

\* Process p has the processor in the kernel: no process is in user mode.
InKernel(p) == state[p] = "RUNNABLE" /\ \A q \in Proc : pc[q] # "user"

\* Where p is when trap() has called may_killed() after a system call.
TrapEnd(p) == IF exiting[p] THEN "dying" ELSE "ret"

\* schedule() at the end of trap() returns, and p goes on in user mode.
ReturnToUser(p) ==
  /\ p \in User /\ InKernel(p)
  /\ pc[p] = "ret"
  /\ pc' = [pc EXCEPT ![p] = "user"]
  /\ UNCHANGED <<state, parent, thread_group, exiting, target>>

\* A clock interrupt, or a system call that is not about processes.
Trap(p) ==
  /\ pc[p] = "user"
  /\ pc' = [pc EXCEPT ![p] = TrapEnd(p)]
  /\ UNCHANGED <<state, parent, thread_group, exiting, target>>

\* do_fork until it may sleep for memory.
ForkBegin(p) ==
  /\ pc[p] = "user"
  /\ pc' = [pc EXCEPT ![p] = "fork"]
  /\ UNCHANGED <<state, parent, thread_group, exiting, target>>

\* do_fork ends: the child c joins the lists, and the group if it is a thread.
ForkEnd(p, c, clone_thread) ==
  /\ InKernel(p) /\ pc[p] = "fork"
  /\ ~Exists(c)
  /\ state' = [state EXCEPT ![c] = "RUNNABLE"]
  /\ parent' = [parent EXCEPT ![c] = p]
  /\ thread_group' = LET g == IF clone_thread THEN thread_group[p] \cup {c} ELSE {c} IN
       [q \in Proc |-> IF q \in g THEN g ELSE thread_group[q]]
  /\ pc' = [pc EXCEPT ![p] = TrapEnd(p)]
  /\ UNCHANGED <<exiting, target>>

\* do_fork fails.
ForkFail(p) ==
  /\ InKernel(p) /\ pc[p] = "fork"
  /\ pc' = [pc EXCEPT ![p] = TrapEnd(p)]
  /\ UNCHANGED <<state, parent, thread_group, exiting, target>>

\* The states after __do_kill of every member of S; the flag is set once, and only
\* then is a process that waits interruptibly woken.
KillStates(S) ==
  [q \in Proc |-> IF q \in S /\ ~exiting[q] /\ state[q] = "SLEEPING" THEN "RUNNABLE" ELSE state[q]]
KillFlags(S) == [q \in Proc |-> exiting[q] \/ q \in S]

\* do_kill of user process q, possibly of p itself or of a zombie.
Kill(p, q) ==
  /\ pc[p] = "user"
  /\ q \in User /\ Exists(q)
  /\ state' = KillStates({q})
  /\ exiting' = KillFlags({q})
  /\ pc' = [pc EXCEPT ![p] = IF exiting'[p] THEN "dying" ELSE "ret"]
  /\ UNCHANGED <<parent, thread_group, target>>

\* do_exit kills the other threads and enters __do_exit.
DoExit(p) ==
  /\ pc[p] = "user"
  /\ state' = KillStates(thread_group[p] \ {p})
  /\ exiting' = KillFlags(thread_group[p] \ {p})
  /\ pc' = [pc EXCEPT ![p] = "dying"]
  /\ UNCHANGED <<parent, thread_group, target>>

\* do_exit_thread
DoExitThread(p) ==
  /\ pc[p] = "user"
  /\ pc' = [pc EXCEPT ![p] = "dying"]
  /\ UNCHANGED <<state, parent, thread_group, exiting, target>>

\* de_thread: p leaves its thread group.
DeThread(p) ==
  thread_group' = [q \in Proc |-> IF q = p THEN {p} ELSE thread_group[q] \ {p}]

Woken(S) == {q \in S : state[q] = "SLEEPING"}

\* Mutant: the children keep their dead parent.
ExitKeepsChildren(p) ==
  /\ InKernel(p) /\ pc[p] = "dying"
  /\ DeThread(p)
  /\ state' = [q \in Proc |-> CASE q = p -> "ZOMBIE"
                                [] q \in Woken(thread_group[parent[p]]) -> "RUNNABLE"
                                [] OTHER -> state[q]]
  /\ UNCHANGED <<parent, exiting, target, pc>>

\* Mutant: only the parent is woken, not the threads that wait with it.
ExitWakesParentOnly(p) ==
  /\ InKernel(p) /\ pc[p] = "dying"
  /\ \E heir \in IF thread_group[p] = {p} THEN {Initproc} ELSE thread_group[p] \ {p} :
       /\ parent' = [q \in Proc |-> IF Exists(q) /\ parent[q] = p THEN heir ELSE parent[q]]
       /\ state' = [q \in Proc |-> CASE q = p -> "ZOMBIE"
                                     [] q \in Woken({parent[p]}) -> "RUNNABLE"
                                     [] OTHER -> state[q]]
  /\ DeThread(p)
  /\ UNCHANGED <<exiting, target, pc>>

\* The rest of __do_exit: p becomes a zombie, the threads of its parent that wait
\* for a child are woken, p leaves its group, and another thread of the group (the
\* next one in the ring of the code), or initproc, inherits its children and is
\* woken if a zombie is among them.  A thread that inherits from its own creator
\* becomes its own parent; it is among its children then when it exits.
DoExitEnd(p) ==
  /\ InKernel(p) /\ pc[p] = "dying"
  /\ \E heir \in IF thread_group[p] = {p} THEN {Initproc} ELSE thread_group[p] \ {p} :
       LET children == {q \in Proc : Exists(q) /\ parent[q] = p}
           inherits == \E q \in children : q = p \/ state[q] = "ZOMBIE"
       IN
       /\ parent' = [q \in Proc |-> IF q \in children THEN heir ELSE parent[q]]
       /\ state' = [q \in Proc |->
            CASE q = p -> "ZOMBIE"
              [] q \in Woken(thread_group[parent[p]] \cup (IF inherits THEN {heir} ELSE {})) -> "RUNNABLE"
              [] OTHER -> state[q]]
  /\ DeThread(p)
  /\ UNCHANGED <<exiting, target, pc>>

\* The children do_wait(t) of p looks at: those of every thread of p's group.
Children(p, t) ==
  {q \in Proc : Exists(q) /\ parent[q] \in thread_group[p] /\ (t # AnyPid => q = t)}

\* do_wait from the label repeat: it reaps a zombie, whose slot is as at the start
\* again, or sleeps, or finds no child.  Afterwards p is at the place after.
WaitScan(p, t, after) ==
  LET zombies == {q \in Children(p, t) : state[q] = "ZOMBIE"} IN
    \/ \E z \in zombies :
         /\ state' = [state EXCEPT ![z] = "NONE"]
         /\ parent' = [parent EXCEPT ![z] = Initproc]
         /\ exiting' = [exiting EXCEPT ![z] = FALSE]
         /\ pc' = [pc EXCEPT ![z] = "ret", ![p] = after]
         /\ target' = [target EXCEPT ![p] = AnyPid]
         /\ UNCHANGED thread_group
    \/ /\ zombies = {} /\ Children(p, t) # {}
       /\ state' = [state EXCEPT ![p] = "SLEEPING"]
       /\ pc' = [pc EXCEPT ![p] = "wait"]
       /\ target' = [target EXCEPT ![p] = t]
       /\ UNCHANGED <<parent, thread_group, exiting>>
    \/ /\ Children(p, t) = {}
       /\ pc' = [pc EXCEPT ![p] = after]
       /\ target' = [target EXCEPT ![p] = AnyPid]
       /\ UNCHANGED <<state, parent, thread_group, exiting>>

\* do_wait is called.
DoWait(p, t) ==
  /\ pc[p] = "user"
  /\ WaitScan(p, t, TrapEnd(p))

\* schedule() returns in do_wait: may_killed(), then the search again.
WaitWake(p) ==
  /\ p \in User /\ InKernel(p)
  /\ pc[p] = "wait"
  /\ \/ /\ exiting[p]
        /\ pc' = [pc EXCEPT ![p] = "dying"]
        /\ target' = [target EXCEPT ![p] = AnyPid]
        /\ UNCHANGED <<state, parent, thread_group, exiting>>
     \/ /\ ~exiting[p]
        /\ WaitScan(p, target[p], "ret")

\* Mutant: init_main stops one process too early.
InitStepEarly ==
  /\ InKernel(Initproc) /\ pc[Initproc] = "wait"
  /\ WaitScan(Initproc, AnyPid, IF nr_process = 4 THEN "end" ELSE "wait")

\* The loop of init_main: do_wait(0) until the number of processes is what it was
\* before user_main (initproc and kswapd, beside the idle process).
InitStep ==
  /\ InKernel(Initproc) /\ pc[Initproc] = "wait"
  /\ WaitScan(Initproc, AnyPid, IF nr_process = 3 THEN "end" ELSE "wait")

\* do_execve: p leaves its thread group.
Exec(p) ==
  /\ pc[p] = "user"
  /\ DeThread(p)
  /\ pc' = [pc EXCEPT ![p] = TrapEnd(p)]
  /\ UNCHANGED <<state, parent, exiting, target>>

Next ==
  \/ \E p \in User :
       \/ ReturnToUser(p) \/ Trap(p) \/ ForkBegin(p) \/ ForkFail(p)
       \/ DoExit(p) \/ DoExitThread(p) \/ DoExitEnd(p) \/ WaitWake(p) \/ Exec(p)
  \/ \E p, q \in User : Kill(p, q) \/ ForkEnd(p, q, TRUE) \/ ForkEnd(p, q, FALSE)
  \/ \E p \in User, t \in User \cup {AnyPid} : DoWait(p, t)
  \/ InitStep

Spec == Init /\ [][Next]_vars
-----------------------------------------------------------------------------
\* Every process has a living parent, which can reap it: __do_exit leaves no child
\* to a dead process, in whatever order the threads of a group exit and are killed.
\* And the thread groups partition the living: no zombie stays linked, so that
\* next_thread, from any process, meets living processes only.
ParentAlive ==
  \A p \in Proc :
    /\ Exists(p) => Alive(parent[p])
    /\ Alive(p) => p \in thread_group[p]
    /\ Alive(p) => \A q \in thread_group[p] : Alive(q) /\ thread_group[q] = thread_group[p]

\* No wake-up is lost: no process sleeps in do_wait while a zombie it waits for,
\* its own child or one of another thread of its group, is there to be reaped.
ZombieNoticed ==
  \A p \in Proc : state[p] = "SLEEPING" =>
    \A q \in Children(p, target[p]) : state[q] # "ZOMBIE"

\* do_wait waits for "one OR any children": a process that sleeps in it has a child,
\* or another thread of its group has, whose exit will wake it.
WaiterHasChild ==
  \A p \in Proc : state[p] = "SLEEPING" => \E q \in Children(p, target[p]) : q # p

\* init_main leaves its loop with the last user process, neither before (its
\* assertions initproc->cptr == kswapd and nr_process == 2 + lcpu_count hold) nor
\* never: the last one is reaped by init_main and not by some other process.
InitEndsLast == (\A p \in User : ~Exists(p)) <=> pc[Initproc] = "end"

\* may_killed is called before a process goes back to user space: none gets there
\* with PF_EXITING set.
KilledNotInUser == \A p \in User : pc[p] = "user" => ~exiting[p]
=============================================================================
