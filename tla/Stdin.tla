-------------------------------- MODULE Stdin --------------------------------
(***************************************************************************)
(* The keyboard device (fs/devs/dev_stdin.c): the keyboard interrupt fills  *)
(* a ring buffer, readers sleep until they have all the characters they     *)
(* asked for.  A character is represented by its number in the order of     *)
(* typing.                                                                  *)
(***************************************************************************)
EXTENDS Integers, Sequences

CONSTANTS Reader, STDIN_BUFSIZE,
          MaxRead,     \* bound on the length of one read
          MaxTyped     \* bound on the characters typed

ASSUME StdinAssumption == STDIN_BUFSIZE \in Nat \ {0}

VARIABLES p_rpos, p_wpos, stdin_buffer,
          typed,       \* history: the characters typed so far
          given,       \* history: the characters given to readers, in order
          reader       \* of each reader: where it is, and how much it still wants

stdinVars == <<p_rpos, p_wpos, stdin_buffer, typed, given, reader>>

Idle == [pc |-> "idle", left |-> 0]

\* stdin_device_init
StdinInit ==
  /\ p_rpos = 0 /\ p_wpos = 0 /\ typed = 0 /\ given = << >>
  /\ stdin_buffer = [i \in 0..STDIN_BUFSIZE - 1 |-> 0]
  /\ reader = [r \in Reader |-> Idle]

\* wakeup_queue(wait_queue, WT_KBD, 1); a killed reader that has not run yet is
\* still in the queue and gets the flag too.
WakeReaders ==
  [r \in Reader |-> IF reader[r].pc \in {"asleep", "killed"} THEN [reader[r] EXCEPT !.pc = "woken"]
                    ELSE reader[r]]

\* Mutant: only one reader is woken.
dev_stdin_write_one ==
  /\ typed < MaxTyped
  /\ typed' = typed + 1
  /\ stdin_buffer' = [stdin_buffer EXCEPT ![p_wpos % STDIN_BUFSIZE] = typed + 1]
  /\ p_wpos' = IF p_wpos - p_rpos < STDIN_BUFSIZE THEN p_wpos + 1 ELSE p_wpos
  /\ IF \E r \in Reader : reader[r].pc = "asleep"
     THEN \E r \in Reader : /\ reader[r].pc = "asleep"
                            /\ reader' = [reader EXCEPT ![r].pc = "woken"]
     ELSE reader' = reader
  /\ UNCHANGED <<p_rpos, given>>

\* Mutant: a character typed into a full buffer is dropped.
dev_stdin_write_drop ==
  /\ typed < MaxTyped
  /\ typed' = typed + 1
  /\ IF p_wpos - p_rpos < STDIN_BUFSIZE
     THEN /\ stdin_buffer' = [stdin_buffer EXCEPT ![p_wpos % STDIN_BUFSIZE] = typed + 1]
          /\ p_wpos' = p_wpos + 1
     ELSE UNCHANGED <<stdin_buffer, p_wpos>>
  /\ reader' = WakeReaders
  /\ UNCHANGED <<p_rpos, given>>

\* dev_stdin_write, in the keyboard interrupt: the cell is stored into before the
\* test, so the character typed into a full buffer replaces the one to be read next,
\* and the next such character replaces this one in turn.
dev_stdin_write ==
  /\ typed < MaxTyped
  /\ typed' = typed + 1
  /\ stdin_buffer' = [stdin_buffer EXCEPT ![p_wpos % STDIN_BUFSIZE] = typed + 1]
  /\ p_wpos' = IF p_wpos - p_rpos < STDIN_BUFSIZE THEN p_wpos + 1 ELSE p_wpos
  /\ reader' = WakeReaders
  /\ UNCHANGED <<p_rpos, given>>

\* dev_stdin_read by r from try_again to its next wait or its end.
Take(r, n) ==
  LET got == IF n < p_wpos - p_rpos THEN n ELSE p_wpos - p_rpos IN
    /\ p_rpos' = p_rpos + got
    /\ given' = given \o [i \in 1..got |-> stdin_buffer[(p_rpos + i - 1) % STDIN_BUFSIZE]]
    /\ reader' = [reader EXCEPT ![r] =
                    IF got = n THEN Idle ELSE [pc |-> "asleep", left |-> n - got]]
    /\ UNCHANGED <<p_wpos, stdin_buffer, typed>>

\* stdin_io: a read of n characters begins, or goes on after a key was typed.
ReadBegin(r, n) == reader[r].pc = "idle" /\ Take(r, n)

ReadWake(r) == reader[r].pc = "woken" /\ Take(r, reader[r].left)

\* do_kill wakes the reader and leaves its flag: when it runs, it returns what it has.
Kill(r) ==
  /\ reader[r].pc = "asleep"
  /\ reader' = [reader EXCEPT ![r].pc = "killed"]
  /\ UNCHANGED <<p_rpos, p_wpos, stdin_buffer, typed, given>>

ReadInterrupted(r) ==
  /\ reader[r].pc = "killed"
  /\ reader' = [reader EXCEPT ![r] = Idle]
  /\ UNCHANGED <<p_rpos, p_wpos, stdin_buffer, typed, given>>

StdinNext ==
  \/ dev_stdin_write
  \/ \E r \in Reader : \/ ReadWake(r) \/ Kill(r) \/ ReadInterrupted(r)
                       \/ \E n \in 1..MaxRead : ReadBegin(r, n)

StdinSpec == StdinInit /\ [][StdinNext]_stdinVars
-----------------------------------------------------------------------------
\* Nobody sleeps for the keyboard while a character is there: a key wakes all the
\* readers, of which the first to run may take only a part of what has come.
KeyWakesAll ==
  \A r \in Reader : reader[r].pc = "asleep" => p_rpos = p_wpos

\* The characters that readers got, and those that wait for them.
Held(c) ==
  \/ \E j \in DOMAIN given : given[j] = c
  \/ \E i \in p_rpos..p_wpos - 1 : stdin_buffer[i % STDIN_BUFSIZE] = c

\* Whatever readers have got so far and what waits for them are different characters,
\* each typed; and behind the cell that is read next, those waiting are in the order of
\* typing.
KeysOnce ==
  LET cell(i) == stdin_buffer[i % STDIN_BUFSIZE]
      unread == p_rpos..p_wpos - 1
  IN /\ p_wpos - p_rpos \in 0..STDIN_BUFSIZE
     /\ \A i, j \in DOMAIN given : i # j => given[i] # given[j]
     /\ \A i \in unread : /\ cell(i) \in 1..typed
                          /\ \A j \in DOMAIN given : cell(i) # given[j]
                          /\ \A j \in unread : p_rpos < i /\ i < j => cell(i) < cell(j)

\* Which character a step loses: only a key typed into a full buffer loses one, and that
\* is the one to be read next; the character just typed is there.
LosesNext ==
  /\ \A c \in 1..typed : Held(c) /\ ~Held(c)' =>
       /\ typed' = typed + 1 /\ p_wpos - p_rpos = STDIN_BUFSIZE
       /\ c = stdin_buffer[p_rpos % STDIN_BUFSIZE]
  /\ typed' # typed => Held(typed)'

\* No character is given twice or made up, and none is lost but the one to be read next,
\* to a character typed into a full buffer (dev_stdin_write).  That cell is overwritten
\* again by the next key: in a buffer of two, 1 2 3 4 leaves 4 2, so the characters lost
\* are not the oldest ones, and those kept are not in the order of typing.
KeysKept == []KeysOnce /\ [][LosesNext]_stdinVars
=============================================================================
