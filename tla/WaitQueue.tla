----------------------------- MODULE WaitQueue ------------------------------
(***************************************************************************)
(* Wait queues (sync/wait.c) as sequences of the processes whose wait_t is  *)
(* linked.  wait_queue_add is Append, wait_queue_first is Head.             *)
(***************************************************************************)
EXTENDS Integers, Sequences

\* wait_in_queue: the wait_t of p is in the queue.
Linked(p, queue) == \E i \in 1 .. Len(queue) : queue[i] = p

\* The queue without its i-th element.
Unlinked(queue, i) ==
  [j \in 1 .. Len(queue) - 1 |-> IF j < i THEN queue[j] ELSE queue[j + 1]]

\* wait_current_del: wait_queue_del of the wait_t of p, if it still is in the queue.
WaitQueueDel(queue, p) ==
  IF Linked(p, queue) THEN Unlinked(queue, CHOOSE i \in 1 .. Len(queue) : queue[i] = p) ELSE queue
=============================================================================
