-------------------------------- MODULE Event --------------------------------
(***************************************************************************)
(* Events between processes (sync/event.c): a sender queues itself in the   *)
(* event box of the receiver and sleeps until the receiver takes the event, *)
(* its timer expires, it is killed, or the receiver exits.  The value of an *)
(* event is abstracted: the sender writes it into its own box before it     *)
(* sleeps, and the receiver reads it in the step that wakes the sender.     *)
(***************************************************************************)
EXTENDS ProcConst, WaitQueue

CONSTANT Nobody

VARIABLES life,          \* "alive", "zombie" or "none" (reaped, or not yet created)
          event_pc,      \* "run", "send" (in send_event), "recv" (in recv_event)
          event_asleep,  \* PROC_SLEEPING, with the wait state of event_pc
          event_box,     \* its wait_queue: the senders
          to,            \* the process whose queue a sender is in
          event_flags,   \* wakeup_flags of the sender's wait_t
          taken          \* history: a receiver has taken the event of the current send

eventVars == <<life, event_pc, event_asleep, event_box, to, event_flags, taken>>

\* alloc_proc: event_box_init
EventInit ==
  /\ life = [p \in Proc |-> "alive"]
  /\ event_pc = [p \in Proc |-> "run"]
  /\ event_asleep = [p \in Proc |-> FALSE]
  /\ event_box = [p \in Proc |-> << >>]
  /\ to = [p \in Proc |-> Nobody]
  /\ event_flags = [p \in Proc |-> "WT_INTERRUPTED"]
  /\ taken = [p \in Proc |-> FALSE]

Running(p) == life[p] = "alive" /\ event_pc[p] = "run"

\* Mutant: a receiver that waits is not woken.
EventSendNoWake(p, q) ==
  /\ Running(p)
  /\ q # p /\ life[q] = "alive"
  /\ event_asleep' = [event_asleep EXCEPT ![p] = TRUE]
  /\ event_pc' = [event_pc EXCEPT ![p] = "send"]
  /\ event_box' = [event_box EXCEPT ![q] = Append(@, p)]
  /\ to' = [to EXCEPT ![p] = q]
  /\ event_flags' = [event_flags EXCEPT ![p] = "WT_INTERRUPTED"]
  /\ taken' = [taken EXCEPT ![p] = FALSE]
  /\ UNCHANGED life

\* ipc_event_send up to its schedule().
EventSend(p, q) ==
  /\ Running(p)
  /\ q # p /\ life[q] = "alive"
  /\ event_asleep' = [event_asleep EXCEPT ![q] = IF event_pc[q] = "recv" THEN FALSE ELSE @, ![p] = TRUE]
  /\ event_pc' = [event_pc EXCEPT ![p] = "send"]
  /\ event_box' = [event_box EXCEPT ![q] = Append(@, p)]
  /\ to' = [to EXCEPT ![p] = q]
  /\ event_flags' = [event_flags EXCEPT ![p] = "WT_INTERRUPTED"]
  /\ taken' = [taken EXCEPT ![p] = FALSE]
  /\ UNCHANGED life

\* send_event after schedule(): the wait_t is unlinked if it still is linked.
SendReturn(p) ==
  /\ event_pc[p] = "send" /\ ~event_asleep[p]
  /\ event_box' = [event_box EXCEPT ![to[p]] = WaitQueueDel(@, p)]
  /\ event_pc' = [event_pc EXCEPT ![p] = "run"]
  /\ to' = [to EXCEPT ![p] = Nobody]
  /\ UNCHANGED <<life, event_asleep, event_flags, taken>>

\* A timer or do_kill wakes a sleeping process.
EventInterrupt(p) ==
  /\ event_asleep[p]
  /\ event_asleep' = [event_asleep EXCEPT ![p] = FALSE]
  /\ UNCHANGED <<life, event_pc, event_box, to, event_flags, taken>>

\* Mutant: a sender whose event is taken stays in the queue.
RecvTakeKeepsWait(p) ==
  LET s == Head(event_box[p]) IN
    /\ event_asleep' = [event_asleep EXCEPT ![s] = FALSE]
    /\ event_flags' = [event_flags EXCEPT ![s] = "WT_EVENT_SEND"]
    /\ taken' = [taken EXCEPT ![s] = TRUE]
    /\ UNCHANGED event_box

\* recv_event takes the event of the first sender and wakes it.
RecvTake(p) ==
  LET s == Head(event_box[p]) IN
    /\ event_box' = [event_box EXCEPT ![p] = Tail(@)]
    /\ event_asleep' = [event_asleep EXCEPT ![s] = FALSE]
    /\ event_flags' = [event_flags EXCEPT ![s] = "WT_EVENT_SEND"]
    /\ taken' = [taken EXCEPT ![s] = TRUE]

\* ipc_event_recv: it takes an event, or sleeps if there is none.
EventRecv(p) ==
  /\ Running(p)
  /\ \/ /\ event_box[p] # << >>
        /\ RecvTake(p)
        /\ UNCHANGED event_pc
     \/ /\ event_box[p] = << >>
        /\ event_asleep' = [event_asleep EXCEPT ![p] = TRUE]
        /\ event_pc' = [event_pc EXCEPT ![p] = "recv"]
        /\ UNCHANGED <<event_box, event_flags, taken>>
  /\ UNCHANGED <<life, to>>

\* recv_event after schedule(): one look at the queue, which may be empty again.
RecvReturn(p) ==
  /\ event_pc[p] = "recv" /\ ~event_asleep[p]
  /\ event_pc' = [event_pc EXCEPT ![p] = "run"]
  /\ \/ event_box[p] # << >> /\ RecvTake(p)
     \/ event_box[p] = << >> /\ UNCHANGED <<event_asleep, event_box, event_flags, taken>>
  /\ UNCHANGED <<life, to>>

\* __do_exit: the senders in the event box are unlinked and woken.
EventExit(p) ==
  /\ Running(p)
  /\ life' = [life EXCEPT ![p] = "zombie"]
  /\ event_box' = [event_box EXCEPT ![p] = << >>]
  /\ event_asleep' = [q \in Proc |-> event_asleep[q] /\ ~Linked(q, event_box[p])]
  /\ UNCHANGED <<event_pc, to, event_flags, taken>>

\* do_wait frees the zombie; do_fork uses the memory for a new process.
EventReap(p) ==
  /\ life[p] = "zombie"
  /\ life' = [life EXCEPT ![p] = "none"]
  /\ UNCHANGED <<event_pc, event_asleep, event_box, to, event_flags, taken>>
EventFork(p) ==
  /\ life[p] = "none"
  /\ life' = [life EXCEPT ![p] = "alive"]
  /\ UNCHANGED <<event_pc, event_asleep, event_box, to, event_flags, taken>>

EventNext ==
  \/ \E p, q \in Proc : EventSend(p, q)
  \/ \E p \in Proc : \/ SendReturn(p) \/ EventInterrupt(p) \/ EventRecv(p) \/ RecvReturn(p)
                     \/ EventExit(p) \/ EventReap(p) \/ EventFork(p)

EventSpec == EventInit /\ [][EventNext]_eventVars
-----------------------------------------------------------------------------
\* send_event returns 0 to a sender exactly if a receiver took its event, and
\* none is taken twice, also when a timer, a kill or the receiver's exit comes
\* between the wake-up and the return.
TakenOnce ==
  \A s \in Proc : event_pc[s] = "send" =>
    /\ taken[s] <=> event_flags[s] = "WT_EVENT_SEND"
    /\ taken[s] => \A q \in Proc : ~Linked(s, event_box[q])

\* No process sleeps in recv_event while a sender waits in its event box, and a sender
\* that sleeps is in the box of a living process: the wait_t on its stack is in no box
\* of a zombie or of a freed process, and in none once it has returned.
NoMissedSender ==
  /\ \A p \in Proc : event_pc[p] = "recv" /\ event_asleep[p] => event_box[p] = << >>
  /\ \A s, q \in Proc : Linked(s, event_box[q]) => life[q] = "alive" /\ event_pc[s] = "send" /\ to[s] = q
  /\ \A s \in Proc : event_pc[s] = "send" /\ event_asleep[s] => Linked(s, event_box[to[s]])
=============================================================================
