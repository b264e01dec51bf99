-------------------------------- MODULE KSem --------------------------------
(***************************************************************************)
(* The kernel semaphore of sync/sem.c (up, down, try_down on a semaphore_t  *)
(* whose waiters sleep in state WT_KSEM), as the kernel uses it to guard    *)
(* mm_struct, sem_queue, files and file systems: who has taken it gives it  *)
(* back.  The sections between local_intr_save and local_intr_restore are   *)
(* atomic; a WT_KSEM sleep cannot be interrupted, so only up() ends it.     *)
(***************************************************************************)
EXTENDS Integers, Sequences, FiniteSets

CONSTANTS Proc,
          Value        \* the value given to sem_init

ASSUME KSemAssumption == IsFiniteSet(Proc) /\ Value \in Nat \ {0}

VARIABLES value,       \* sem->value
          wait_queue,  \* sem->wait_queue, as the sequence of the waiting processes
          pc           \* "out", "asleep" (in __down's schedule()), "woken" (up() has
                       \* handed the semaphore over, schedule() has not returned), "in"

vars == <<value, wait_queue, pc>>

\* sem_init
Init ==
  /\ value = Value
  /\ wait_queue = << >>
  /\ pc = [p \in Proc |-> "out"]

\* down: __down up to its schedule().
Down(p) ==
  /\ pc[p] = "out"
  /\ IF value > 0
     THEN /\ value' = value - 1
          /\ pc' = [pc EXCEPT ![p] = "in"]
          /\ UNCHANGED wait_queue
     ELSE /\ wait_queue' = Append(wait_queue, p)
          /\ pc' = [pc EXCEPT ![p] = "asleep"]
          /\ UNCHANGED value

\* schedule() returns in __down; up() has taken the process off the queue.
DownReturn(p) ==
  /\ pc[p] = "woken"
  /\ pc' = [pc EXCEPT ![p] = "in"]
  /\ UNCHANGED <<value, wait_queue>>

\* try_down succeeds; when it fails it changes nothing.
TryDown(p) ==
  /\ pc[p] = "out"
  /\ value > 0
  /\ value' = value - 1
  /\ pc' = [pc EXCEPT ![p] = "in"]
  /\ UNCHANGED wait_queue

\* Mutant: the value is incremented also when a waiter is handed the semaphore.
UpTwice(p) ==
  /\ pc[p] = "in"
  /\ value' = value + 1
  /\ IF wait_queue = << >>
     THEN /\ pc' = [pc EXCEPT ![p] = "out"]
          /\ UNCHANGED wait_queue
     ELSE /\ wait_queue' = Tail(wait_queue)
          /\ pc' = [pc EXCEPT ![p] = "out", ![Head(wait_queue)] = "woken"]

\* Mutant: the waiter added last is woken.
UpLast(p) ==
  /\ pc[p] = "in"
  /\ IF wait_queue = << >>
     THEN /\ value' = value + 1
          /\ pc' = [pc EXCEPT ![p] = "out"]
          /\ UNCHANGED wait_queue
     ELSE /\ wait_queue' = SubSeq(wait_queue, 1, Len(wait_queue) - 1)
          /\ pc' = [pc EXCEPT ![p] = "out", ![wait_queue[Len(wait_queue)]] = "woken"]
          /\ UNCHANGED value

\* up: the first waiter, if there is one, is taken off the queue and woken with
\* the semaphore handed to it; the value is incremented only when none waits.
Up(p) ==
  /\ pc[p] = "in"
  /\ IF wait_queue = << >>
     THEN /\ value' = value + 1
          /\ pc' = [pc EXCEPT ![p] = "out"]
          /\ UNCHANGED wait_queue
     ELSE /\ wait_queue' = Tail(wait_queue)
          /\ pc' = [pc EXCEPT ![p] = "out", ![Head(wait_queue)] = "woken"]
          /\ UNCHANGED value

Next == \E p \in Proc : Down(p) \/ TryDown(p) \/ DownReturn(p) \/ Up(p)

\* Who holds the semaphore runs and gives it back, and a woken process runs.
Fairness == \A p \in Proc : WF_vars(Up(p)) /\ WF_vars(DownReturn(p))

Spec == Init /\ [][Next]_vars
FairSpec == Spec /\ Fairness
-----------------------------------------------------------------------------
Holders == {p \in Proc : pc[p] \in {"woken", "in"}}

TypeOK ==
  /\ value \in Nat
  /\ wait_queue \in Seq(Proc)
  /\ pc \in [Proc -> {"out", "asleep", "woken", "in"}]

\* Every unit of the semaphore is either free or held by exactly one process that
\* down() or try_down() admits, also while up() hands it to a sleeping waiter; so
\* with Value = 1 no two kernel paths are in the section the semaphore guards.
UnitsConserved == value + Cardinality(Holders) = Value

\* The queue holds exactly the sleeping processes, each once (the wait_t lives on
\* the stack of one __down call), and none sleeps while a unit is free: the
\* assertion on wait_state in __up and the one on the flags in down() hold.
SleepersQueued ==
  /\ \A i, j \in 1..Len(wait_queue) : wait_queue[i] = wait_queue[j] => i = j
  /\ \A p \in Proc : pc[p] = "asleep" <=> \E i \in 1..Len(wait_queue) : wait_queue[i] = p
  /\ wait_queue # << >> => value = 0

\* No one overtakes: whoever gets the semaphore while others sleep was the first of them.
NoOvertaking ==
  [][\A p \in Proc : p \notin Holders /\ p \in Holders' /\ wait_queue # << >>
       => p = Head(wait_queue)]_vars

\* Every process that waits in down() gets the semaphore.
DownReturns == \A p \in Proc : pc[p] = "asleep" ~> pc[p] = "in"
=============================================================================
