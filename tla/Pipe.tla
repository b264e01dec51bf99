-------------------------------- MODULE Pipe ---------------------------------
(***************************************************************************)
(* The state of a pipe (fs/pipe/pipe_state.c) as a record, with its         *)
(* operations as operators on such records.  Module Files runs them.        *)
(*                                                                         *)
(* Positions count bytes from the creation of the buffer and do not wrap:   *)
(* fewer than 2^31 bytes pass.  A byte is represented by its number in the  *)
(* order in which the writers' calls handed their bytes over; what readers  *)
(* were given is kept as history.                                           *)
(***************************************************************************)
EXTENDS Integers, Sequences

CONSTANT PIPE_BUFSIZE

ASSUME BufsizeAssumption == PIPE_BUFSIZE \in Nat \ {0}

Least(m, n) == IF m < n THEN m ELSE n

\* kfree(state): what is left is no state of a pipe; ref_count 0 tells it.  The bytes
\* written so far (sent) and those given to readers, in order (given), are history.
NoState ==
  [ref_count |-> 0, isclosed |-> FALSE, p_rpos |-> 0, p_wpos |-> 0,
   buf |-> [i \in 0..PIPE_BUFSIZE - 1 |-> 0], reader_queue |-> {}, writer_queue |-> {},
   sent |-> 0, given |-> << >>]

\* pipe_state_create, and the pipe_state_acquire for the second end of an
\* anonymous pipe (pipe_open)
NewState == [NoState EXCEPT !.ref_count = 2]

Size(s) == s.p_wpos - s.p_rpos

\* What an operation did: the new record s, the bytes got, whether the caller has
\* to wait, and the processes it woke (whole queues, wakeup_queue(queue, flag, 1)).
Done(s, got, blocked, woken) == [s |-> s, got |-> got, blocked |-> blocked, woken |-> woken]

\* The next n bytes of the buffer.
Bytes(s, n) == [i \in 1..n |-> s.buf[(s.p_rpos + i - 1) % PIPE_BUFSIZE]]

\* Mutant: a reader does not wake the writers.
pipe_state_read_quiet(s, n) ==
  LET got == Least(n, Size(s)) IN
    Done([s EXCEPT !.p_rpos = @ + got, !.given = @ \o Bytes(s, got)],
         got, Size(s) = 0 /\ ~s.isclosed, {})

\* pipe_state_read from try_again to the next wait or to the end.
pipe_state_read(s, n) ==
  LET got == Least(n, Size(s)) IN
    IF got = 0
    THEN Done(s, 0, ~s.isclosed, {})
    ELSE Done([s EXCEPT !.p_rpos = @ + got, !.given = @ \o Bytes(s, got), !.writer_queue = {}],
              got, FALSE, s.writer_queue)

\* The buffer after n more bytes are stored one after the other.
Stored(s, n) ==
  [i \in DOMAIN s.buf |->
     LET K == {k \in 0..n - 1 : (s.p_wpos + k) % PIPE_BUFSIZE = i} IN
       IF K = {} THEN s.buf[i] ELSE s.sent + 1 + (CHOOSE k \in K : \A l \in K : l <= k)]

\* Mutant: the pipe is full only when it holds one byte too many.
pipe_state_write_over(s, n) ==
  LET got == Least(n, PIPE_BUFSIZE + 1 - Size(s)) IN
    IF s.isclosed
    THEN Done(s, 0, FALSE, {})
    ELSE Done([s EXCEPT !.p_wpos = @ + got, !.buf = Stored(s, got), !.sent = @ + got,
                        !.reader_queue = {}],
              got, got < n, s.reader_queue)

\* pipe_state_write from try_again to the next wait or to the end (n > 0 bytes are
\* left): as much as fits is stored, and the readers are woken in both cases.
pipe_state_write(s, n) ==
  LET got == Least(n, PIPE_BUFSIZE - Size(s)) IN
    IF s.isclosed
    THEN Done(s, 0, FALSE, {})
    ELSE Done([s EXCEPT !.p_wpos = @ + got, !.buf = Stored(s, got), !.sent = @ + got,
                        !.reader_queue = {}],
              got, got < n, s.reader_queue)

\* pipe_state_close
pipe_state_close(s) ==
  Done([s EXCEPT !.isclosed = TRUE, !.reader_queue = {}, !.writer_queue = {}],
       0, FALSE, s.reader_queue \cup s.writer_queue)

\* pipe_state_release; the assertions on the queues are CountsExact of module Files.
pipe_state_release(s) ==
  IF s.ref_count = 1
  THEN [NoState EXCEPT !.reader_queue = s.reader_queue, !.writer_queue = s.writer_queue]
  ELSE [s EXCEPT !.ref_count = @ - 1]
-----------------------------------------------------------------------------
\* What readers were given and what waits for them is what was written, in order,
\* nothing lost and nothing twice; and the buffer holds no more than it has room for.
InOrder(s) ==
  /\ Size(s) \in 0..PIPE_BUFSIZE
  /\ s.given \o Bytes(s, Size(s)) = [i \in 1..s.sent |-> i]
=============================================================================
