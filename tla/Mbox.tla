-------------------------------- MODULE Mbox ---------------------------------
(***************************************************************************)
(* Mailboxes (sync/mbox.c): senders wait for a slot, receivers for a        *)
(* message, both with a timeout; a mailbox that is freed while processes    *)
(* are inside it stays CLOSING until the last of them has left.             *)
(*                                                                         *)
(* The mailboxes of Mbox are those of one page of mbox_map.  A message is   *)
(* an opaque value of Msg; only whether it fits into a small buffer is      *)
(* told apart.  Each action runs with interrupts off, up to the next place  *)
(* where the code may sleep: schedule(), or lock_mm() around the copies.    *)
(***************************************************************************)
EXTENDS ProcConst, WaitQueue, FiniteSets

CONSTANTS Mbox, Msg, NoMbox, NoMsg,
          BigMsg,      \* the messages that need a big buffer
          MaxSlots     \* bound on max_slots (MAX_MSG_SLOTS in the code)

ASSUME MboxAssumption == NoMbox \notin Mbox /\ NoMsg \notin Msg /\ IsFiniteSet(Proc)

VARIABLES mbox,          \* the mailboxes, records of the fields below
          live,          \* the messages allocated by load_msg and not yet freed
          mbox_pc,       \* "run", "loaded", "send", "recv" or "store"
          at,            \* the mailbox a process is at
          msg,           \* the message a process holds
          big,           \* the receiver's buffer is big
          mbox_asleep,   \* PROC_SLEEPING
          mbox_flags     \* wakeup_flags of the process's wait_t

mboxVars == <<mbox, live, mbox_pc, at, msg, big, mbox_asleep, mbox_flags>>

\* A page of mailboxes is NONE (mbox_map[i] = NULL) or has been set up by new_mbox.
FreshMbox(s) == [state |-> s, inuse |-> 0, max_slots |-> 0, slots |-> 0,
                 msgs |-> << >>, senders |-> << >>, receivers |-> << >>]

MboxInit ==
  /\ mbox = [b \in Mbox |-> FreshMbox("NONE")]
  /\ live = {}
  /\ mbox_pc = [p \in Proc |-> "run"]
  /\ at = [p \in Proc |-> NoMbox]
  /\ msg = [p \in Proc |-> NoMsg]
  /\ big = [p \in Proc |-> FALSE]
  /\ mbox_asleep = [p \in Proc |-> FALSE]
  /\ mbox_flags = [p \in Proc |-> "WT_INTERRUPTED"]
-----------------------------------------------------------------------------
\* get_mbox(id) # NULL
Opened(b) == mbox[b].state = "OPENED"

\* wakeup_first(queue, flag, 1): whom it wakes, and what is left of the queue.
First(queue) == IF queue = << >> THEN {} ELSE {Head(queue)}
Rest(queue) == IF queue = << >> THEN << >> ELSE Tail(queue)

\* wakeup_wait for each process of S
WakeUp(S, flag) ==
  /\ mbox_asleep' = [p \in Proc |-> mbox_asleep[p] /\ p \notin S]
  /\ mbox_flags' = [p \in Proc |-> IF p \in S THEN flag ELSE mbox_flags[p]]

\* add_msg; the receivers' queue loses the process that is woken
AddMsg(m, x, append) ==
  [m EXCEPT !.slots = @ + 1,
            !.msgs = IF append THEN Append(@, x) ELSE <<x>> \o @,
            !.receivers = Rest(@)]

\* The end of send_msg and recv_msg: the last user of a CLOSING mailbox frees it.
Leave(m) ==
  IF m.state # "OPENED" /\ m.inuse = 1 THEN FreshMbox("CLOSED") ELSE [m EXCEPT !.inuse = @ - 1]

\* The system call returns; the message, if any, is in the mailbox or freed.
Return(p) ==
  /\ mbox_pc' = [mbox_pc EXCEPT ![p] = "run"]
  /\ at' = [at EXCEPT ![p] = NoMbox]
  /\ msg' = [msg EXCEPT ![p] = NoMsg]
  /\ big' = [big EXCEPT ![p] = FALSE]

\* wait_current_set and schedule(): the wait_t starts with WT_INTERRUPTED.
Sleep(p) ==
  /\ mbox_asleep' = [mbox_asleep EXCEPT ![p] = TRUE]
  /\ mbox_flags' = [mbox_flags EXCEPT ![p] = "WT_INTERRUPTED"]
-----------------------------------------------------------------------------
\* ipc_mbox_init: new_mbox sets up a page if no mailbox is free.
IpcMboxInit(b, n) ==
  /\ \/ mbox[b].state = "CLOSED"
     \/ mbox[b].state = "NONE"
  /\ mbox' = [c \in Mbox |->
       IF c = b THEN [FreshMbox("OPENED") EXCEPT !.max_slots = n]
       ELSE IF mbox[c].state = "NONE" THEN FreshMbox("CLOSED") ELSE mbox[c]]
  /\ UNCHANGED <<live, mbox_pc, at, msg, big, mbox_asleep, mbox_flags>>

\* ipc_mbox_send up to load_msg.
SendLoad(p, b, x) ==
  /\ mbox_pc[p] = "run" /\ Opened(b) /\ x \notin live
  /\ live' = live \cup {x}
  /\ msg' = [msg EXCEPT ![p] = x]
  /\ mbox_pc' = [mbox_pc EXCEPT ![p] = "loaded"]
  /\ at' = [at EXCEPT ![p] = b]
  /\ UNCHANGED <<mbox, big, mbox_asleep, mbox_flags>>

\* The loop test of send_msg in mailbox m: add the message, or wait for a slot.
SendLoop(p, m) ==
  \/ /\ m.slots < m.max_slots
     /\ mbox' = [mbox EXCEPT ![at[p]] = Leave(AddMsg(m, msg[p], TRUE))]
     /\ WakeUp(First(m.receivers), "WT_MBOX_RECV")
     /\ Return(p)
  \/ /\ m.slots >= m.max_slots
     /\ mbox' = [mbox EXCEPT ![at[p]] = [m EXCEPT !.senders = Append(@, p)]]
     /\ Sleep(p)
     /\ mbox_pc' = [mbox_pc EXCEPT ![p] = "send"]
     /\ UNCHANGED <<at, msg, big>>

\* ipc_mbox_send from its second get_mbox on.
SendEnter(p) ==
  /\ mbox_pc[p] = "loaded"
  /\ \/ /\ Opened(at[p])
        /\ SendLoop(p, [mbox[at[p]] EXCEPT !.inuse = @ + 1])
        /\ UNCHANGED live
     \/ /\ ~Opened(at[p])
        /\ live' = live \ {msg[p]}
        /\ Return(p)
        /\ UNCHANGED <<mbox, mbox_asleep, mbox_flags>>

\* send_msg after schedule(): try again, or give up and free the message.
SendWake(p) ==
  /\ mbox_pc[p] = "send" /\ ~mbox_asleep[p]
  /\ LET m == [mbox[at[p]] EXCEPT !.senders = WaitQueueDel(@, p)] IN
       \/ /\ m.state = "OPENED" /\ mbox_flags[p] = "WT_MBOX_SEND"
          /\ SendLoop(p, m)
          /\ UNCHANGED live
       \/ /\ ~(m.state = "OPENED" /\ mbox_flags[p] = "WT_MBOX_SEND")
          /\ mbox' = [mbox EXCEPT ![at[p]] = Leave(m)]
          /\ live' = live \ {msg[p]}
          /\ Return(p)
          /\ UNCHANGED <<mbox_asleep, mbox_flags>>

\* Mutant: a receiver whose buffer is too small does not wake the next one.
RecvLoopNoHandOver(p, b, z, m) ==
  \/ /\ m.slots > 0 /\ (Head(m.msgs) \in BigMsg => z)
     /\ mbox' = [mbox EXCEPT ![b] =
          Leave([m EXCEPT !.slots = @ - 1, !.msgs = Tail(@), !.senders = Rest(@)])]
     /\ WakeUp(First(m.senders), "WT_MBOX_SEND")
     /\ mbox_pc' = [mbox_pc EXCEPT ![p] = "store"] /\ at' = [at EXCEPT ![p] = b]
     /\ msg' = [msg EXCEPT ![p] = Head(m.msgs)]
     /\ big' = [big EXCEPT ![p] = FALSE]
  \/ /\ m.slots > 0 /\ Head(m.msgs) \in BigMsg /\ ~z
     /\ mbox' = [mbox EXCEPT ![b] = Leave(m)]
     /\ Return(p)
     /\ UNCHANGED <<mbox_asleep, mbox_flags>>
  \/ /\ m.slots = 0
     /\ mbox' = [mbox EXCEPT ![b] = [m EXCEPT !.receivers = Append(@, p)]]
     /\ Sleep(p)
     /\ mbox_pc' = [mbox_pc EXCEPT ![p] = "recv"] /\ at' = [at EXCEPT ![p] = b]
     /\ big' = [big EXCEPT ![p] = z]
     /\ UNCHANGED msg

\* The loop test of recv_msg and pick_msg: take the first message, or fail with
\* E_TOO_BIG and wake the next receiver, or wait for a message.
RecvLoop(p, b, z, m) ==
  \/ /\ m.slots > 0 /\ (Head(m.msgs) \in BigMsg => z)
     /\ mbox' = [mbox EXCEPT ![b] =
          Leave([m EXCEPT !.slots = @ - 1, !.msgs = Tail(@), !.senders = Rest(@)])]
     /\ WakeUp(First(m.senders), "WT_MBOX_SEND")
     /\ mbox_pc' = [mbox_pc EXCEPT ![p] = "store"] /\ at' = [at EXCEPT ![p] = b]
     /\ msg' = [msg EXCEPT ![p] = Head(m.msgs)]
     /\ big' = [big EXCEPT ![p] = FALSE]
  \/ /\ m.slots > 0 /\ Head(m.msgs) \in BigMsg /\ ~z
     /\ mbox' = [mbox EXCEPT ![b] = Leave([m EXCEPT !.receivers = Rest(@)])]
     /\ WakeUp(First(m.receivers), "WT_MBOX_RECV")
     /\ Return(p)
  \/ /\ m.slots = 0
     /\ mbox' = [mbox EXCEPT ![b] = [m EXCEPT !.receivers = Append(@, p)]]
     /\ Sleep(p)
     /\ mbox_pc' = [mbox_pc EXCEPT ![p] = "recv"] /\ at' = [at EXCEPT ![p] = b]
     /\ big' = [big EXCEPT ![p] = z]
     /\ UNCHANGED msg

\* ipc_mbox_recv up to the sleep or the message.
RecvEnter(p, b, z) ==
  /\ mbox_pc[p] = "run" /\ Opened(b)
  /\ RecvLoop(p, b, z, [mbox[b] EXCEPT !.inuse = @ + 1])
  /\ UNCHANGED live

\* recv_msg after schedule(): try again or give up.
RecvWake(p) ==
  /\ mbox_pc[p] = "recv" /\ ~mbox_asleep[p]
  /\ LET m == [mbox[at[p]] EXCEPT !.receivers = WaitQueueDel(@, p)] IN
       \/ /\ m.state = "OPENED" /\ mbox_flags[p] = "WT_MBOX_RECV"
          /\ RecvLoop(p, at[p], big[p], m)
       \/ /\ ~(m.state = "OPENED" /\ mbox_flags[p] = "WT_MBOX_RECV")
          /\ mbox' = [mbox EXCEPT ![at[p]] = Leave(m)]
          /\ Return(p)
          /\ UNCHANGED <<mbox_asleep, mbox_flags>>
  /\ UNCHANGED live

\* Mutant: a message that is put back is also freed.
RecvStoreFreesAlways(p, ok) ==
  /\ mbox_pc[p] = "store"
  /\ LET b == at[p] IN
       \/ /\ ~ok /\ Opened(b)
          /\ mbox' = [mbox EXCEPT ![b] = AddMsg(@, msg[p], FALSE)]
          /\ WakeUp(First(mbox[b].receivers), "WT_MBOX_RECV")
       \/ /\ ok \/ ~Opened(b)
          /\ UNCHANGED <<mbox, mbox_asleep, mbox_flags>>
  /\ live' = live \ {msg[p]}
  /\ Return(p)

\* ipc_mbox_recv from lock_mm on: the copy to the user's buffer succeeds, or fails
\* and the message is put back in front, if a mailbox of that number is open.
RecvStore(p, ok) ==
  /\ mbox_pc[p] = "store"
  /\ LET b == at[p] IN
       \/ /\ ~ok /\ Opened(b)
          /\ mbox' = [mbox EXCEPT ![b] = AddMsg(@, msg[p], FALSE)]
          /\ WakeUp(First(mbox[b].receivers), "WT_MBOX_RECV")
          /\ UNCHANGED live
       \/ /\ ok \/ ~Opened(b)
          /\ live' = live \ {msg[p]}
          /\ UNCHANGED <<mbox, mbox_asleep, mbox_flags>>
  /\ Return(p)

\* ipc_mbox_free: the messages are freed and everyone inside is woken.
IpcMboxFree(b) ==
  /\ Opened(b)
  /\ live' = {x \in live : ~Linked(x, mbox[b].msgs)}
  /\ mbox' = [mbox EXCEPT ![b] =
       IF @.inuse = 0 THEN FreshMbox("CLOSED")
       ELSE [@ EXCEPT !.state = "CLOSING", !.msgs = << >>, !.senders = << >>, !.receivers = << >>]]
  /\ WakeUp({p \in Proc : Linked(p, mbox[b].senders) \/ Linked(p, mbox[b].receivers)}, "WT_INTERRUPTED")
  /\ UNCHANGED <<mbox_pc, at, msg, big>>

\* A timer or do_kill wakes a process that sleeps.
MboxInterrupt(p) ==
  /\ mbox_asleep[p]
  /\ mbox_asleep' = [mbox_asleep EXCEPT ![p] = FALSE]
  /\ UNCHANGED <<mbox, live, mbox_pc, at, msg, big, mbox_flags>>

\* mbox_cleanup, called by init_main when no user process is left.
MboxCleanup ==
  /\ \A p \in Proc : mbox_pc[p] = "run"
  /\ \A b \in Mbox : mbox[b].state = "CLOSED"
  /\ mbox' = [b \in Mbox |-> FreshMbox("NONE")]
  /\ UNCHANGED <<live, mbox_pc, at, msg, big, mbox_asleep, mbox_flags>>

MboxNext ==
  \/ \E b \in Mbox : IpcMboxFree(b) \/ \E n \in 1..MaxSlots : IpcMboxInit(b, n)
  \/ \E p \in Proc, b \in Mbox : \/ \E x \in Msg : SendLoad(p, b, x)
                                 \/ \E z \in BOOLEAN : RecvEnter(p, b, z)
  \/ \E p \in Proc : \/ SendEnter(p) \/ SendWake(p) \/ RecvWake(p) \/ MboxInterrupt(p)
                     \/ \E ok \in BOOLEAN : RecvStore(p, ok)
  \/ MboxCleanup

MboxSpec == MboxInit /\ [][MboxNext]_mboxVars
-----------------------------------------------------------------------------
\* Where a message is: the places in mailboxes and the processes that hold it.
Places(x) ==
  (UNION {{<<b, i>> : i \in {j \in 1..Len(mbox[b].msgs) : mbox[b].msgs[j] = x}} : b \in Mbox})
    \cup {p \in Proc : msg[p] = x}

\* Every allocated message is in exactly one place, a mailbox or the hands of one
\* process, and a freed message is nowhere: none is lost, delivered to two receivers,
\* or freed while it is still linked, whatever times out, fails to be copied or is closed.
\* inuse counts the processes inside a mailbox, a CLOSING one has at least one and no
\* messages, and one on the free list has none: what mbox_free asserts, and what makes
\* it safe to use its number again.
MsgOwned ==
  /\ \A x \in Msg : Cardinality(Places(x)) = IF x \in live THEN 1 ELSE 0
  /\ \A b \in Mbox :
       /\ mbox[b].inuse = Cardinality({p \in Proc : mbox_pc[p] \in {"send", "recv"} /\ at[p] = b})
       /\ mbox[b].state = "CLOSING" => mbox[b].inuse > 0 /\ mbox[b].msgs = << >>
       /\ mbox[b].state \in {"CLOSED", "NONE"} => mbox[b].inuse = 0 /\ mbox[b].msgs = << >>
       /\ mbox[b].state = "OPENED" => mbox[b].slots = Len(mbox[b].msgs)

\* A process inside mailbox b that has been woken with flag and has not run yet.
Pending(b, flag) ==
  \E p \in Proc : at[p] = b /\ mbox_pc[p] \in {"send", "recv"} /\ ~mbox_asleep[p] /\ mbox_flags[p] = flag

\* No wake-up is lost: while processes wait for a slot and there is one, or for a
\* message and there is one, a process has been woken for it and will take it or hand
\* the wake-up on, also if that process has timed out or another one was faster.  Who
\* sleeps is in the queue of an OPENED mailbox, and a queue has processes inside only.
NoLostWakeup ==
  /\ \A b \in Mbox : Opened(b) =>
       /\ mbox[b].senders # << >> /\ mbox[b].slots < mbox[b].max_slots => Pending(b, "WT_MBOX_SEND")
       /\ mbox[b].receivers # << >> /\ mbox[b].slots > 0 => Pending(b, "WT_MBOX_RECV")
  /\ \A p \in Proc : mbox_asleep[p] =>
       /\ Opened(at[p])
       /\ Linked(p, IF mbox_pc[p] = "send" THEN mbox[at[p]].senders ELSE mbox[at[p]].receivers)
  /\ \A b \in Mbox, p \in Proc :
       /\ Linked(p, mbox[b].senders) => mbox_pc[p] = "send" /\ at[p] = b
       /\ Linked(p, mbox[b].receivers) => mbox_pc[p] = "recv" /\ at[p] = b
=============================================================================
